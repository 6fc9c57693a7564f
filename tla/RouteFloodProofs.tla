-------------------------- MODULE RouteFloodProofs --------------------------
(***************************************************************************)
(* Proofs about the search for a way, for every map, every restriction and *)
(* every order of the lists and of equal costs.                            *)
(*                                                                         *)
(* GraphInv: a point that was made for the restrictions remembers the      *)
(* street one comes in by: of the streets where one-way flags mean         *)
(* something only that one enters it, and but for that one only those      *)
(* leave that one may turn into from it. HeapInv: where the drive an element was *)
(* made for and the drive that remembers an element differ, they are the   *)
(* two drives of one segment, at the same, least cost. FromInv: the        *)
(* successor of a drive has a way itself and may be driven after it.       *)
(* PathInv: so may the drives of the path. LenInv and CostInv bound the    *)
(* lengths and the costs by INT_MAX.                                       *)
(*                                                                         *)
(* The least costs lie between two things. What respects every segment, a  *)
(* potential, is nowhere above them (LeastAbove); the rounds of their      *)
(* definition, of which the flood is never behind, are nowhere below       *)
(* (LeastBelow, LeastInv). DijkstraInv is the order of the flood, MetInv   *)
(* what is known of the street of the position once it is met, ChosenInv   *)
(* that the beginning of the path is the cheapest by the costs there are.  *)
(* RankInv: the successor of a drive has left the heap before it did; that *)
(* and the number of drives that wait show that both loops end.            *)
(*                                                                         *)
(* That there is a path: WholeInv keeps every turn of the map while points *)
(* are split, GrowInv bounds the costs so that none comes to INT_MAX,      *)
(* ShownInv is what is known when route_path_new returns none.             *)
(***************************************************************************)
EXTENDS RouteFlood, Counting

-----------------------------------------------------------------------------
(* Graph *)

Made(p) == p = <<p[1], p[2]>>
Point(p) == p = <<p[1]>> \/ Made(p)

Segment(s) ==
    /\ DOMAIN s = {"item", "start", "end", "len", "dirs", "free", "closed", "limited"}
    /\ Point(s.start) /\ Point(s.end) /\ Place(s.start) # Place(s.end)
    /\ s.len \in Nat /\ s.dirs \subseteq {1, -1} /\ (s.free => s.dirs = {1, -1})

\* The place of the other end of the street that a made point is for
OtherPlace(p) ==
    IF Place(p[2].start) = Place(p) THEN Place(p[2].end) ELSE Place(p[2].start)

\* A made point is entered by the street it is for, unless the vehicle may take the clones
\* backwards,
Enters(d) ==
    Made(HeadOf(d)) /\ ~d[1].free => /\ Item(d) = HeadOf(d)[2].item
                                     /\ Place(TailOf(d)) = OtherPlace(HeadOf(d))

\* and left by the turns that are allowed from that street, or by that street.
Leaves(d) ==
    Made(TailOf(d)) /\ Item(d) # TailOf(d)[2].item =>
        \A r \in map.restriction :
            r.prev = OtherPlace(TailOf(d)) /\ r.via = Place(TailOf(d))
                => (r.kind = "no" <=> r.next # Place(HeadOf(d)))

GraphInv ==
    /\ map \in Maps /\ pending \subseteq Restricted
    /\ \A s \in graph : Segment(s)
    /\ \A d \in Drive : Open(d) => Enters(d) /\ Leaves(d)

\* The ends of a drive are points at two places.
LEMMA DriveEnds ==
    ASSUME NEW d \in Drive, Segment(d[1])
    PROVE  /\ Point(TailOf(d)) /\ Point(HeadOf(d)) /\ Place(TailOf(d)) # Place(HeadOf(d))
           /\ d[1] \in graph /\ d[2] \in {1, -1} /\ d = <<d[1], d[2]>>
  BY DEF Drive, Segment, TailOf, HeadOf

\* A street of the map is a segment, and no end of it is a made point.
LEMMA StreetSegment == ASSUME NEW s, Street(s) PROVE Segment(s) /\ ~Made(s.start) /\ ~Made(s.end)
<1>1. s.start = <<s.start[1]>> /\ s.end = <<s.end[1]>> /\ s.start # s.end
  BY DEF Street
<1>2. ~Made(s.start) /\ ~Made(s.end)
  BY <1>1 DEF Made
<1>3. Place(s.start) # Place(s.end)
  BY <1>1 DEF Place
<1> QED BY <1>1, <1>2, <1>3 DEF Street, Segment, Point

\* A graph as route_graph_build leaves it satisfies GraphInv.
LEMMA StreetsInv ==
    ASSUME map \in Maps, graph = map.streets, pending = Restricted
    PROVE  GraphInv
<1>1. \A s \in graph : Segment(s) /\ ~Made(s.start) /\ ~Made(s.end)
  BY StreetSegment, ConstantsAssumption
<1>2. ASSUME NEW d \in Drive PROVE ~Made(HeadOf(d)) /\ ~Made(TailOf(d))
  BY <1>1 DEF Drive, HeadOf, TailOf
<1> QED BY <1>1, <1>2 DEF GraphInv, Enters, Leaves

\* The other direction of a segment
Twin(d) == <<d[1], -d[2]>>

\* What a clone is, and the directions it may be driven in
LEMMA CloneIs ==
    ASSUME NEW d, d[2] \in {1, -1}, Segment(d[1]), NEW tail, NEW head, NEW k \in {1, -1},
           Point(tail), Point(head), Place(tail) # Place(head), NEW c, c = Clone(d, tail, head)
    PROVE  /\ Segment(c) /\ c.item = d[1].item /\ c.free = d[1].free
           /\ Open(<<c, k>>) =>
                 /\ ~d[1].closed
                 /\ \/ k = d[2] /\ TailOf(<<c, k>>) = tail /\ HeadOf(<<c, k>>) = head
                    \/ /\ k = -d[2] /\ d[1].free
                       /\ TailOf(<<c, k>>) = head /\ HeadOf(<<c, k>>) = tail
<1>1. /\ DOMAIN c = {"item", "start", "end", "len", "dirs", "free", "closed", "limited"}
      /\ c.item = d[1].item /\ c.len = d[1].len + 1 /\ c.free = d[1].free /\ c.closed = d[1].closed
      /\ c.dirs = (IF d[1].free THEN d[1].dirs ELSE {d[2]})
      /\ c.start = (IF d[2] = 1 THEN tail ELSE head) /\ c.end = (IF d[2] = 1 THEN head ELSE tail)
  BY DEF Clone, Segment
<1>2. Segment(c)
  BY <1>1 DEF Segment
<1>3. ASSUME Open(<<c, k>>)
      PROVE  /\ ~d[1].closed
             /\ \/ k = d[2] /\ TailOf(<<c, k>>) = tail /\ HeadOf(<<c, k>>) = head
                \/ /\ k = -d[2] /\ d[1].free
                   /\ TailOf(<<c, k>>) = head /\ HeadOf(<<c, k>>) = tail
  <2>1. ~d[1].closed /\ (k = d[2] \/ (k = -d[2] /\ d[1].free))
    BY <1>1, <1>3 DEF Open, RightWay
  <2>2. k = d[2] => TailOf(<<c, k>>) = tail /\ HeadOf(<<c, k>>) = head
    BY <1>1 DEF TailOf, HeadOf
  <2>3. k = -d[2] => TailOf(<<c, k>>) = head /\ HeadOf(<<c, k>>) = tail
    BY <1>1 DEF TailOf, HeadOf
  <2> QED BY <2>1, <2>2, <2>3
<1> QED BY <1>1, <1>2, <1>3

\* The other direction of a drive on a street that is free
LEMMA FreeTwin ==
    ASSUME NEW d \in Drive, Segment(d[1]), d[1].free, ~d[1].closed
    PROVE  /\ Twin(d) \in Drive /\ Open(Twin(d)) /\ Item(Twin(d)) = Item(d)
           /\ TailOf(Twin(d)) = HeadOf(d) /\ HeadOf(Twin(d)) = TailOf(d)
<1>1. d[1] \in graph /\ d[2] \in {1, -1} /\ -d[2] \in {1, -1}
  BY DEF Drive
<1>2. Twin(d) \in Drive /\ Open(Twin(d))
  BY <1>1 DEF Twin, Drive, Open, RightWay, Segment
<1> QED BY <1>1, <1>2 DEF Twin, Item, TailOf, HeadOf

\* What route_graph_process_restriction_segment adds keeps to the made points.
LEMMA SplitInv ==
    ASSUME GraphInv, NEW p \in pending, NEW d \in Drive, HeadOf(d) = p, RightWay(d),
           NEW c \in SplitFor(p, d), NEW k \in {1, -1}
    PROVE  Segment(c) /\ (Open(<<c, k>>) => Enters(<<c, k>>) /\ Leaves(<<c, k>>))
<1> DEFINE pn == <<Place(p), d[1]>>
<1>1. Made(pn) /\ Point(pn) /\ Place(pn) = Place(p) /\ pn[2] = d[1]
  BY DEF Made, Point, Place
<1>2. /\ Segment(d[1]) /\ d[2] \in {1, -1} /\ (Open(d) => Enters(d) /\ Leaves(d))
      /\ Point(TailOf(d)) /\ Place(TailOf(d)) # Place(p)
  BY DriveEnds DEF GraphInv, Drive
<1>3. OtherPlace(pn) = Place(TailOf(d))
  BY <1>1, <1>2, DriveEnds DEF OtherPlace, TailOf, HeadOf
<1> HIDE DEF pn
<1>4. CASE c = Clone(d, TailOf(d), pn)
  <2>1. /\ Segment(c) /\ c.item = d[1].item /\ c.free = d[1].free
        /\ Open(<<c, k>>) =>
              /\ ~d[1].closed
              /\ \/ TailOf(<<c, k>>) = TailOf(d) /\ HeadOf(<<c, k>>) = pn
                 \/ d[1].free /\ TailOf(<<c, k>>) = pn /\ HeadOf(<<c, k>>) = TailOf(d)
    <3>1. Place(TailOf(d)) # Place(pn)
      BY <1>1, <1>2
    <3> QED BY <1>1, <1>2, <1>4, <3>1, CloneIs
  <2>2. CASE Open(<<c, k>>) /\ TailOf(<<c, k>>) = TailOf(d) /\ HeadOf(<<c, k>>) = pn
    <3>1. Enters(<<c, k>>)
      BY <1>1, <1>3, <2>1, <2>2 DEF Enters, Item
    <3>2. Item(<<c, k>>) = Item(d) /\ Place(HeadOf(<<c, k>>)) = Place(HeadOf(d)) /\ Leaves(d)
      BY <1>1, <1>2, <2>1, <2>2 DEF Item, Open, RightWay
    <3>3. Leaves(<<c, k>>)
      BY <2>2, <3>2 DEF Leaves
    <3> QED BY <2>1, <3>1, <3>3
  <2>3. CASE d[1].free /\ TailOf(<<c, k>>) = pn
    <3>1. Item(<<c, k>>) = pn[2].item /\ c.free
      BY <1>1, <2>1, <2>3 DEF Item
    <3>2. Enters(<<c, k>>)
      BY <3>1 DEF Enters
    <3>3. Leaves(<<c, k>>)
      BY <2>3, <3>1 DEF Leaves
    <3> QED BY <2>1, <3>2, <3>3
  <2> QED BY <2>1, <2>2, <2>3
<1>5. ASSUME NEW e \in Drive, TailOf(e) = p, e[1] # d[1], RightWay(e), TurnAllowed(d, e),
             c = Clone(e, pn, HeadOf(e))
      PROVE  Segment(c) /\ (Open(<<c, k>>) => Enters(<<c, k>>) /\ Leaves(<<c, k>>))
  <2>1. /\ Segment(e[1]) /\ e[2] \in {1, -1} /\ (Open(e) => Enters(e))
        /\ Point(HeadOf(e)) /\ Place(HeadOf(e)) # Place(p)
    BY <1>5, DriveEnds DEF GraphInv, Drive
  <2>2. /\ Segment(c) /\ c.item = e[1].item /\ c.free = e[1].free
        /\ Open(<<c, k>>) =>
              /\ ~e[1].closed
              /\ \/ TailOf(<<c, k>>) = pn /\ HeadOf(<<c, k>>) = HeadOf(e)
                 \/ e[1].free /\ TailOf(<<c, k>>) = HeadOf(e) /\ HeadOf(<<c, k>>) = pn
    <3>1. Place(HeadOf(e)) # Place(pn)
      BY <1>1, <2>1
    <3> QED BY <1>1, <1>5, <2>1, <3>1, CloneIs
  <2>3. CASE Open(<<c, k>>) /\ TailOf(<<c, k>>) = pn /\ HeadOf(<<c, k>>) = HeadOf(e)
    <3>1. /\ Item(<<c, k>>) = Item(e) /\ Place(TailOf(<<c, k>>)) = Place(TailOf(e)) /\ Enters(e)
      BY <1>1, <1>5, <2>1, <2>2, <2>3 DEF Item, Open, RightWay
    <3>2. Enters(<<c, k>>)
      BY <2>2, <2>3, <3>1 DEF Enters
    <3>3. \A r \in map.restriction :
             r.prev = OtherPlace(pn) /\ r.via = Place(pn) => (r.kind = "no" <=> r.next # Place(HeadOf(e)))
      BY <1>1, <1>3, <1>5 DEF TurnAllowed
    <3>4. Leaves(<<c, k>>)
      BY <2>3, <3>3 DEF Leaves
    <3> QED BY <2>2, <3>2, <3>4
  <2>4. CASE /\ Open(<<c, k>>) /\ e[1].free /\ ~e[1].closed
             /\ TailOf(<<c, k>>) = HeadOf(e) /\ HeadOf(<<c, k>>) = pn
    <3>1. Enters(<<c, k>>)
      BY <2>2, <2>4 DEF Enters
    <3>2. /\ Leaves(Twin(e)) /\ Item(Twin(e)) = Item(e)
          /\ TailOf(Twin(e)) = HeadOf(e) /\ HeadOf(Twin(e)) = p
      BY <1>5, <2>1, <2>4, FreeTwin DEF GraphInv
    <3>3. Item(<<c, k>>) = Item(e) /\ Place(HeadOf(<<c, k>>)) = Place(p)
      BY <1>1, <2>2, <2>4 DEF Item
    <3>4. Leaves(<<c, k>>)
      BY <2>4, <3>2, <3>3 DEF Leaves
    <3> QED BY <2>2, <3>1, <3>4
  <2> QED BY <2>2, <2>3, <2>4
<1> QED BY <1>4, <1>5 DEF SplitFor, pn

\* Every step keeps GraphInv.
LEMMA GraphNext == GraphInv /\ [Next]_vars => GraphInv'
<1> SUFFICES ASSUME GraphInv, [Next]_vars PROVE GraphInv'
  OBVIOUS
<1>0. ASSUME UNCHANGED <<map, pending, graph>> PROVE GraphInv'
  <2>1. Restricted' = Restricted /\ Drive' = Drive /\ \A d : Open(d)' <=> Open(d)
    BY <1>0 DEF Restricted, Drive, Open, RightWay
  <2>2. \A d : Enters(d)' <=> Enters(d)
    BY DEF Enters, Item, HeadOf, TailOf, OtherPlace, Made, Place
  <2>3. \A d : Leaves(d)' <=> Leaves(d)
    BY <1>0 DEF Leaves, Item, HeadOf, TailOf, OtherPlace, Made, Place
  <2>4. \A s : Segment(s)' <=> Segment(s)
    BY DEF Segment, Point, Made, Place
  <2> QED BY <1>0, <2>1, <2>2, <2>3, <2>4 DEF GraphInv
<1>1. CASE ProcessRestrictions
  <2>1. PICK p \in pending :
          /\ pending' = pending \ {p}
          /\ graph' = graph \union
                UNION {SplitFor(p, d) : d \in {e \in Drive : HeadOf(e) = p /\ RightWay(e)}}
    BY <1>1 DEF ProcessRestrictions
  <2>2. map' = map
    BY <1>1 DEF ProcessRestrictions
  <2>3. map' \in Maps /\ pending' \subseteq Restricted'
    BY <2>1, <2>2 DEF GraphInv, Restricted
  <2>4. ASSUME NEW s \in graph', NEW k \in {1, -1}
        PROVE  Segment(s) /\ (Open(<<s, k>>) => Enters(<<s, k>>) /\ Leaves(<<s, k>>))
    <3>1. CASE s \in graph
      BY <3>1 DEF GraphInv, Drive
    <3>2. CASE s \notin graph
      <4>1. PICK d \in Drive : HeadOf(d) = p /\ RightWay(d) /\ s \in SplitFor(p, d)
        BY <2>1, <3>2
      <4> QED BY <4>1, SplitInv
    <3> QED BY <3>1, <3>2
  <2>5. ASSUME NEW d \in Drive' PROVE Segment(d[1]) /\ (Open(d) => Enters(d) /\ Leaves(d))
    <3>1. d[1] \in graph' /\ d[2] \in {1, -1} /\ d = <<d[1], d[2]>>
      BY DEF Drive
    <3> QED BY <2>4, <3>1
  <2>6. ASSUME NEW d \in Drive', Open(d)' PROVE Enters(d)' /\ Leaves(d)'
    BY <2>2, <2>5, <2>6 DEF Enters, Leaves, Open, RightWay, Item, HeadOf, TailOf, OtherPlace, Made, Place
  <2> QED BY <2>3, <2>4, <2>6 DEF GraphInv, Segment, Point, Made, Place
<1>2. CASE Choose
  <2>1. map' = map
    BY <1>2 DEF Choose
  <2>2. CASE graph' = map.streets /\ pending' = Restricted
    <3>1. (map \in Maps)' /\ (graph = map.streets)' /\ (pending = Restricted)'
      BY <2>1, <2>2 DEF GraphInv, Restricted
    <3>2. (map \in Maps /\ graph = map.streets /\ pending = Restricted => GraphInv)'
      BY StreetsInv, PTL
    <3> QED BY <3>1, <3>2
  <2>3. CASE UNCHANGED <<graph, pending>>
    BY <1>0, <2>1, <2>3
  <2> QED BY <1>2, <2>2, <2>3 DEF Choose
<1>3. CASE Seed \/ Extract \/ Follow \/ NewPosition \/ UNCHANGED vars
  BY <1>0, <1>3 DEF Seed, Extract, Follow, NewPosition, vars
<1> QED BY <1>1, <1>2, <1>3 DEF Next

-----------------------------------------------------------------------------
(* The heap *)

FloodType ==
    /\ pos \in Positions /\ dst \in [item : {st.item : st \in map.streets}, percent : Percent]
    /\ handle \subseteq Drive /\ heap \subseteq Drive
    /\ at = "build" => handle = {} /\ heap = {}
    /\ at # "build" => cost \in [Drive -> Nat] /\ from \in [Drive -> graph \union {NoSeg}]

\* An element whose drive has no handle, or a handle that has no element, comes with
\* the reverse for the other direction of the segment, at the same cost, which is
\* the least of all.
HeapInv ==
    at # "build" =>
        /\ \A d \in (heap \ handle) \union (handle \ heap) :
              /\ cost[Twin(d)] = cost[d]
              /\ \A e \in heap : cost[d] <= cost[e]
        /\ \A d \in heap \ handle : Twin(d) \in handle \ heap
        /\ \A d \in handle \ heap : Twin(d) \in heap \ handle

\* The other drive of a segment is a drive of the graph.
LEMMA DriveTwin ==
    ASSUME NEW d \in Drive
    PROVE  /\ Twin(d) \in Drive /\ Twin(d) # d /\ Twin(Twin(d)) = d /\ Twin(d)[1] = d[1]
           /\ d = <<d[1], d[2]>> /\ d[1] \in graph /\ d[2] \in {1, -1}
           /\ \A e \in Drive : e[1] = d[1] => e = d \/ e = Twin(d)
  BY DEF Twin, Drive

\* route_value_seg returns a natural number.
LEMMA ValueNat ==
    ASSUME GraphInv, NEW d \in Drive, NEW s PROVE Value(s, d) \in Nat
<1>1. d[1].len \in Nat /\ Inf \in Nat /\ Penalty \in Nat
  BY DriveTwin, ConstantsAssumption DEF GraphInv, Segment
<1> QED BY <1>1 DEF Value

\* So is the cost of a drive of the street of the destination.
LEMMA SeedCostNat ==
    ASSUME GraphInv, FloodType, NEW d \in Drive PROVE SeedCost(d) \in Nat
<1>1. Value(NoSeg, d) \in Nat /\ dst.percent \in 0 .. 100 /\ Inf \in Nat
  BY ValueNat, ConstantsAssumption DEF FloodType
<1>2. Before(d, dst) \in Nat
  BY <1>1 DEF Before
<1>3. Value(NoSeg, d) * Before(d, dst) \in Nat
  BY <1>1, <1>2
<1>4. (Value(NoSeg, d) * Before(d, dst)) \div 100 \in Nat
  BY <1>3
<1> QED BY <1>1, <1>4 DEF SeedCost

\* A cost by way of another drive is not below the cost of that drive.
LEMMA ViaUp ==
    ASSUME GraphInv, NEW d \in Drive, NEW m, NEW c \in Nat, Via(d, m, 0) # Inf
    PROVE  Via(d, m, c) \in Nat /\ c <= Via(d, m, c)
<1>1. Value(m[1], d) \in Nat
  BY ValueNat
<1> QED BY <1>1 DEF Via

\* The drive the code takes an element for has the cost of the element, has a handle,
\* and is its own or the other one of the segment.
LEMMA Guess ==
    ASSUME FloodType, HeapInv, at # "build", NEW e \in heap, \A d \in heap : cost[e] <= cost[d]
    PROVE  LET m == Cheaper(e[1]) IN
           /\ m \in Drive /\ m \in handle /\ cost[m] = cost[e] /\ (m = e \/ m = Twin(e))
           /\ e \notin handle => m = Twin(e)
           /\ e \in handle /\ Twin(e) \notin handle => m = e
<1> DEFINE m == Cheaper(e[1])
<1>1. /\ e \in Drive /\ e[2] \in {1, -1} /\ e = <<e[1], e[2]>> /\ Twin(e) = <<e[1], -e[2]>>
      /\ Twin(e) \in Drive /\ Twin(Twin(e)) = e
  BY DriveTwin DEF FloodType, Twin
<1>2. cost[e] \in Nat /\ cost[Twin(e)] \in Nat
  BY <1>1 DEF FloodType
<1>3. m = e \/ m = Twin(e)
  BY <1>1 DEF Cheaper
<1>4. CASE e \notin handle
  <2>1. Twin(e) \in handle /\ cost[Twin(e)] = cost[e]
    BY <1>4 DEF HeapInv
  <2>2. m = Twin(e)
    BY <1>1, <1>4, <2>1 DEF Cheaper
  <2> QED BY <1>1, <1>4, <2>1, <2>2
<1>5. CASE e \in handle /\ Twin(e) \notin handle
  <2>1. m = e
    BY <1>1, <1>5 DEF Cheaper
  <2> QED BY <1>1, <1>5, <2>1
<1>6. CASE e \in handle /\ Twin(e) \in handle
  <2>1. Twin(e) \in heap
    BY <1>1, <1>6 DEF HeapInv
  <2>2. cost[e] <= cost[Twin(e)]
    BY <2>1
  <2>3. m = Twin(e) => cost[Twin(e)] <= cost[e]
    BY <1>1, <1>2, <1>6 DEF Cheaper
  <2> QED BY <1>1, <1>2, <1>3, <1>6, <2>2, <2>3
<1> QED BY <1>4, <1>5, <1>6

\* One round: no drive that is mismatched or taken out becomes cheaper.
LEMMA HeapExtract ==
    ASSUME GraphInv, FloodType, HeapInv, Extract
    PROVE  FloodType' /\ HeapInv' /\ (ElementsInHeap => ElementsInHeap')
<1>1. at = "flood" /\ at' = "flood" /\ UNCHANGED <<map, pos, dst, pending, graph>>
  BY DEF Extract
<1>2. PICK e \in heap : 
       /\ \A d \in heap : cost[e] <= cost[d]
       /\ LET m == Cheaper(e[1]) IN
          \E look \in Looks(m) :
             LET D == Better(m, look.at) IN
             /\ cost' = [d \in Drive |-> IF d \in D THEN Via(d, m, cost[m]) ELSE cost[d]]
             /\ from' = [d \in Drive |-> IF d \in D THEN m[1] ELSE from[d]]
             /\ handle' = (handle \ {m}) \union D
             /\ heap' = (heap \ {e}) \union D
             /\ badElement' = (badElement \/ \E d \in D : d \in handle \ {m} /\ d \notin heap \ {e})
  BY DEF Extract
<1> DEFINE m == Cheaper(e[1])
<1>3. PICK look \in Looks(m) :
             LET D == Better(m, look.at) IN
             /\ cost' = [d \in Drive |-> IF d \in D THEN Via(d, m, cost[m]) ELSE cost[d]]
             /\ from' = [d \in Drive |-> IF d \in D THEN m[1] ELSE from[d]]
             /\ handle' = (handle \ {m}) \union D
             /\ heap' = (heap \ {e}) \union D
             /\ badElement' = (badElement \/ \E d \in D : d \in handle \ {m} /\ d \notin heap \ {e})
  BY <1>2
<1> DEFINE D == Better(m, look.at)
<1>4. /\ m \in Drive /\ m \in handle /\ cost[m] = cost[e] /\ (m = e \/ m = Twin(e))
      /\ e \notin handle => m = Twin(e)
      /\ e \in handle /\ Twin(e) \notin handle => m = e
  BY <1>1, <1>2, Guess
<1>5. \A d \in look.at : d \in Drive /\ Via(d, m, 0) # Inf
  BY DEF Looks
<1> HIDE DEF m
<1>6. \A d \in D : d \in Drive /\ Via(d, m, cost[m]) \in Nat /\ cost[m] <= Via(d, m, cost[m])
                   /\ Via(d, m, cost[m]) < cost[d]
  <2> SUFFICES ASSUME NEW d \in D
               PROVE  d \in Drive /\ Via(d, m, cost[m]) \in Nat /\ cost[m] <= Via(d, m, cost[m])
                      /\ Via(d, m, cost[m]) < cost[d]
    OBVIOUS
  <2>1. d \in look.at /\ Via(d, m, cost[m]) < cost[d]
    BY DEF Better
  <2>2. cost[m] \in Nat
    BY <1>1, <1>4 DEF FloodType
  <2> QED BY <1>5, <2>1, <2>2, ViaUp
<1>7. /\ cost' = [d \in Drive |-> IF d \in D THEN Via(d, m, cost[m]) ELSE cost[d]]
      /\ from' = [d \in Drive |-> IF d \in D THEN m[1] ELSE from[d]]
      /\ handle' = (handle \ {m}) \union D
      /\ heap' = (heap \ {e}) \union D
      /\ badElement' = (badElement \/ \E d \in D : d \in handle \ {m} /\ d \notin heap \ {e})
  BY <1>3 DEF m
<1> HIDE DEF D
<1>8. heap \subseteq Drive /\ handle \subseteq Drive /\ cost \in [Drive -> Nat]
      /\ from \in [Drive -> graph \union {NoSeg}] /\ Drive' = Drive
  BY <1>1 DEF FloodType, Drive
<1>9. FloodType'
  <2>1. m[1] \in graph
    BY <1>4, DriveTwin
  <2>2. cost' \in [Drive -> Nat] /\ from' \in [Drive -> graph \union {NoSeg}]
    BY <1>6, <1>7, <1>8, <2>1
  <2>3. handle' \subseteq Drive /\ heap' \subseteq Drive
    BY <1>6, <1>7, <1>8
  <2>4. (pos \in Positions)' /\ (dst \in [item : {st.item : st \in map.streets}, percent : Percent])'
    BY <1>1 DEF FloodType, Positions
  <2> QED BY <1>1, <1>8, <2>2, <2>3, <2>4 DEF FloodType
\* Drives that do not become cheaper
<1>10. \A d \in Drive : d \notin D => cost'[d] = cost[d]
  BY <1>7
<1>11. \A d \in Drive : cost[d] <= cost[e] => d \notin D
  BY <1>4, <1>6, <1>8
<1>12. \A d \in heap' : cost[e] <= cost'[d]
  BY <1>2, <1>4, <1>6, <1>7, <1>8
<1>13. e \notin D /\ m \notin D /\ e \in Drive
  BY <1>4, <1>8, <1>11
<1>14. ASSUME NEW d \in Drive, (d \in heap /\ d \notin handle) \/ (d \in handle /\ d \notin heap)
       PROVE  d \notin D /\ Twin(d) \notin D /\ cost[d] <= cost[e] /\ cost[Twin(d)] = cost[d]
  <2>1. cost[Twin(d)] = cost[d] /\ cost[d] <= cost[e]
    BY <1>1, <1>14 DEF HeapInv
  <2> QED BY <1>11, <2>1, DriveTwin
<1>15. ElementsInHeap => ElementsInHeap'
  <2>1. ASSUME NEW d \in D, d \in handle \ {m}, d \notin heap \ {e} PROVE FALSE
    <3>1. d \in Drive /\ d # e
      BY <1>6, <1>13
    <3> QED BY <1>14, <2>1, <3>1
  <2> QED BY <1>7, <2>1 DEF ElementsInHeap
<1>16. HeapInv'
  <2>1. e = m => \A d \in Drive : (d \in heap' /\ d \notin handle' => d \in heap /\ d \notin handle)
                               /\ (d \in handle' /\ d \notin heap' => d \in handle /\ d \notin heap)
    BY <1>7
  <2> DEFINE off(d) == d \in heap' /\ d \notin handle'
             lone(d) == d \in handle' /\ d \notin heap'
  <2>2. ASSUME NEW d \in Drive, off(d) \/ lone(d)
        PROVE  /\ cost'[Twin(d)] = cost'[d] /\ cost'[d] <= cost[e]
               /\ off(d) => lone(Twin(d))
               /\ lone(d) => off(Twin(d))
    <3>1. /\ Twin(d) \in Drive /\ Twin(Twin(d)) = d /\ Twin(d) # d
          /\ Twin(e) \in Drive /\ Twin(Twin(e)) = e /\ Twin(e) # e
      BY <1>13, DriveTwin
    <3>2. d \notin D
      BY <1>7, <2>2
    <3>3. CASE (d \in heap /\ d \notin handle) \/ (d \in handle /\ d \notin heap)
      <4>1. Twin(d) \notin D /\ cost[d] <= cost[e] /\ cost[Twin(d)] = cost[d]
        BY <1>14, <3>3
      <4>2. cost'[Twin(d)] = cost'[d] /\ cost'[d] <= cost[e]
        BY <1>10, <3>1, <3>2, <4>1
      <4>3. /\ d \in heap => Twin(d) \in handle /\ Twin(d) \notin heap
            /\ d \in handle => Twin(d) \in heap /\ Twin(d) \notin handle
        BY <1>1, <3>3 DEF HeapInv
      <4>4. d # e /\ d # m /\ Twin(d) # e /\ Twin(d) # m
        \* If e were one of the two, both would be gone.
        <5>1. CASE d = e
          <6>1. m = Twin(e)
            BY <1>4, <3>3, <5>1
          <6> QED BY <1>7, <2>2, <3>2, <3>3, <5>1
        <5>2. CASE Twin(d) = e
          <6>1. d \in handle /\ d \notin heap /\ e \notin handle
            BY <3>3, <4>3, <5>2
          <6>2. m = d
            BY <1>4, <3>1, <5>2, <6>1
          <6> QED BY <1>7, <2>2, <3>2, <6>1, <6>2
        <5>3. CASE d = m
          BY <1>4, <3>1, <5>1, <5>2, <5>3
        <5>4. CASE Twin(d) = m
          BY <1>4, <3>1, <5>1, <5>2, <5>4
        <5> QED BY <5>1, <5>2, <5>3, <5>4
      <4> QED BY <1>7, <2>2, <3>2, <4>1, <4>2, <4>3, <4>4
    <3>4. CASE ~ ((d \in heap /\ d \notin handle) \/ (d \in handle /\ d \notin heap))
      <4>1. d \in heap /\ d \in handle /\ (d = e \/ d = m)
        <5>1. CASE off(d)
          <6>1. d \in heap /\ d \notin handle \ {m}
            BY <1>7, <3>2, <5>1
          <6> QED BY <3>4, <6>1
        <5>2. CASE lone(d)
          <6>1. d \in handle /\ d \notin heap \ {e}
            BY <1>7, <3>2, <5>2
          <6> QED BY <3>4, <6>1
        <5> QED BY <2>2, <5>1, <5>2
      <4>2. m = Twin(e) /\ e \in handle
        <5>1. CASE d = e
          BY <1>4, <1>7, <2>2, <3>2, <4>1, <5>1
        <5>2. CASE d = m /\ d # e
          <6>1. m = Twin(e)
            BY <1>4, <5>2
          <6>2. e \in handle
            BY <1>1, <3>1, <4>1, <5>2, <6>1 DEF HeapInv
          <6> QED BY <6>1, <6>2
        <5> QED BY <4>1, <5>1, <5>2
      <4>3. Twin(e) \in handle /\ Twin(e) \in heap
        <5>1. Twin(e) \in handle
          BY <1>4, <4>2
        <5> QED BY <1>1, <3>1, <4>2, <5>1 DEF HeapInv
      <4>4. cost'[e] = cost[e] /\ cost'[m] = cost[e]
        BY <1>4, <1>10, <1>13
      <4>5. /\ e \in handle' /\ e \notin heap' /\ m \in heap' /\ m \notin handle'
        BY <1>7, <1>13, <3>1, <4>2, <4>3
      <4> QED BY <1>8, <1>13, <2>2, <3>1, <4>1, <4>2, <4>4, <4>5
    <3> QED BY <3>3, <3>4
  <2>3. heap' \subseteq Drive /\ handle' \subseteq Drive /\ cost' \in [Drive -> Nat]
    BY <1>1, <1>8, <1>9 DEF FloodType
  <2>4. ASSUME NEW d \in Drive, off(d) \/ lone(d) PROVE \A h \in heap' : cost'[d] <= cost'[h]
    BY <1>8, <1>12, <1>13, <2>2, <2>3, <2>4
  <2> HIDE DEF off, lone
  <2>5. \A d \in heap' \ handle' : d \in Drive /\ off(d)
    BY <2>3 DEF off
  <2>6. \A d \in handle' \ heap' : d \in Drive /\ lone(d)
    BY <2>3 DEF lone
  <2>7. \A d : off(d) => d \in heap' \ handle'
    BY DEF off
  <2>8. \A d : lone(d) => d \in handle' \ heap'
    BY DEF lone
  <2>9. \A d \in (heap' \ handle') \union (handle' \ heap') :
              /\ cost'[Twin(d)] = cost'[d]
              /\ \A h \in heap' : cost'[d] <= cost'[h]
    BY <2>2, <2>4, <2>5, <2>6
  <2>10. \A d \in heap' \ handle' : Twin(d) \in handle' \ heap'
    BY <2>2, <2>5, <2>8
  <2>11. \A d \in handle' \ heap' : Twin(d) \in heap' \ handle'
    BY <2>2, <2>6, <2>7
  <2> QED BY <2>9, <2>10, <2>11 DEF HeapInv, Twin
<1> QED BY <1>9, <1>15, <1>16

-----------------------------------------------------------------------------
(* The first states and the steps of the flood *)

\* The invariants of the heap hold at first.
LEMMA FloodInit == Init => FloodType /\ HeapInv /\ ElementsInHeap
<1> SUFFICES ASSUME Init PROVE FloodType /\ HeapInv /\ ElementsInHeap
  OBVIOUS
<1>1. dst \in [item : {st.item : st \in map.streets}, percent : Percent]
  <2>1. {d[1].item : d \in {e \in MapDrive : Open(e)}} \subseteq {st.item : st \in map.streets}
    BY DEF MapDrive
  <2> QED BY <2>1 DEF Init
<1> QED BY <1>1 DEF Init, FloodType, HeapInv, ElementsInHeap

\* Every step keeps the invariants of the heap.
LEMMA FloodNext ==
    GraphInv /\ FloodType /\ HeapInv /\ ElementsInHeap /\ [Next]_vars
        => FloodType' /\ HeapInv' /\ ElementsInHeap'
<1> SUFFICES ASSUME GraphInv, FloodType, HeapInv, ElementsInHeap, [Next]_vars
             PROVE  FloodType' /\ HeapInv' /\ ElementsInHeap'
  OBVIOUS
<1> USE DEF flooding, following
<1>1. CASE ProcessRestrictions
  BY <1>1 DEF ProcessRestrictions, FloodType, HeapInv, ElementsInHeap, Positions
<1>2. CASE Seed
  <2>1. at = "build" /\ at' = "flood" /\ UNCHANGED <<map, pos, dst, graph, badElement>>
    BY <1>2 DEF Seed
  <2>2. cost' = [d \in Drive |-> SeedCost(d)] /\ from' = [d \in Drive |-> NoSeg]
        /\ heap' = Seeds /\ handle' = Seeds
    BY <1>2 DEF Seed
  <2>3. cost' \in [Drive -> Nat]
    BY <2>2, SeedCostNat
  <2>4. FloodType'
    BY <2>1, <2>2, <2>3 DEF FloodType, Positions, Drive, Seeds
  <2>5. HeapInv' /\ ElementsInHeap'
    BY <2>1, <2>2 DEF HeapInv, ElementsInHeap
  <2> QED BY <2>4, <2>5
<1>3. CASE Extract
  BY <1>3, HeapExtract
<1>4. CASE Choose
  <2>1. at = "flood" /\ heap = {} /\ UNCHANGED <<map, pos, dst, heap, badElement>>
    BY <1>4 DEF Choose
  <2>2. CASE at' = "build"
    <3>1. handle' = {}
      BY <1>4, <2>2 DEF Choose
    <3> QED BY <2>1, <2>2, <3>1 DEF FloodType, HeapInv, ElementsInHeap, Positions
  <2>3. CASE at' # "build"
    <3>1. UNCHANGED <<graph, cost, from, handle>>
      BY <1>4, <2>3 DEF Choose
    <3>2. FloodType'
      BY <2>1, <2>3, <3>1 DEF FloodType, Positions, Drive
    <3>3. HeapInv'
      BY <2>1, <2>3, <3>1 DEF HeapInv, Twin
    <3> QED BY <2>1, <3>2, <3>3 DEF ElementsInHeap
  <2> QED BY <2>2, <2>3
<1>5. CASE Follow
  <2>1. /\ at = "follow" /\ at' # "build"
        /\ UNCHANGED <<map, pos, dst, graph, cost, from, handle, heap, badElement>>
    BY <1>5 DEF Follow
  <2> QED BY <2>1 DEF FloodType, HeapInv, ElementsInHeap, Positions, Drive, Twin
<1>6. CASE NewPosition
  <2>1. /\ at = "done" /\ at' = "flood" /\ pos' \in Positions
        /\ UNCHANGED <<map, dst, graph, cost, from, handle, heap, badElement>>
    BY <1>6 DEF NewPosition
  <2> QED BY <2>1 DEF FloodType, HeapInv, ElementsInHeap, Positions, Drive, Twin
<1>7. CASE UNCHANGED vars
  BY <1>7 DEF vars, FloodType, HeapInv, ElementsInHeap, Positions, Drive, Twin
<1> QED BY <1>1, <1>2, <1>3, <1>4, <1>5, <1>6, <1>7 DEF Next

-----------------------------------------------------------------------------
(* Successors *)

\* One may drive the drive d on the way.
Good(d) == Open(d) /\ TailOf(d) \notin Restricted

\* There is a way from the drive d, as far as the flood knows.
Reached(d) == SeedCost(d) # Inf \/ from[d] # NoSeg

\* The drive that comes after d
After(d) == Onwards(from[d], HeadOf(d))

FromInv ==
    at # "build" =>
        \A d \in Drive :
            /\ cost[d] # Inf \/ d \in handle => Reached(d)
            /\ Reached(d) => Good(d)
            /\ from[d] # NoSeg =>
                  /\ After(d) \in Drive /\ Reached(After(d))
                  /\ TailOf(After(d)) = HeadOf(d) /\ Item(After(d)) # Item(d)

\* The direction in which a drive's segment is taken again from its tail is its own.
LEMMA OnwardsIs ==
    ASSUME GraphInv, NEW m \in Drive PROVE Onwards(m[1], TailOf(m)) = m
<1>1. m[1] \in graph /\ m[2] \in {1, -1} /\ m = <<m[1], m[2]>>
  BY DEF Drive
<1>2. m[1].start # m[1].end
  BY <1>1 DEF GraphInv, Segment, Place
<1> QED BY <1>1, <1>2 DEF Onwards, TailOf

\* A drive that gets a cost at first is open and is on the street of the destination.
LEMMA SeedGood == ASSUME NEW d, SeedCost(d) # Inf PROVE Good(d) /\ Item(d) = dst.item
  BY DEF SeedCost, Value, Good

\* Every step keeps the successors.
LEMMA FromNext ==
    GraphInv /\ FloodType /\ HeapInv /\ FromInv /\ [Next]_vars => FromInv'
<1> SUFFICES ASSUME GraphInv, FloodType, HeapInv, FromInv, [Next]_vars PROVE FromInv'
  OBVIOUS
<1> USE DEF flooding, following
\* Only the position changes, or what the path needs.
<1>0. ASSUME UNCHANGED <<map, dst, graph, cost, from, handle>>, at # "build" PROVE FromInv'
  <2>1. \A d \in Drive : Reached(d)' <=> Reached(d)
    BY <1>0 DEF Reached, SeedCost, Value, Restricted, Before, Item, Open, RightWay, TailOf
  <2>2. \A d : (Good(d)' <=> Good(d)) /\ After(d)' = After(d)
    BY <1>0 DEF Good, Restricted, Open, RightWay, After, Onwards, HeadOf, TailOf
  <2>3. Drive' = Drive
    BY <1>0 DEF Drive
  <2>4. ASSUME NEW d \in Drive
        PROVE  /\ cost'[d] # Inf \/ d \in handle' => Reached(d)'
               /\ Reached(d)' => Good(d)'
               /\ from'[d] # NoSeg =>
                     /\ After(d)' \in Drive /\ Reached(After(d))'
                     /\ TailOf(After(d)') = HeadOf(d) /\ Item(After(d)') # Item(d)
    <3>1. from[d] # NoSeg => (Reached(After(d))' <=> Reached(After(d)))
      BY <1>0, <2>2 DEF Reached, SeedCost, Value, Restricted, Before, Item, Open, RightWay, TailOf
    <3> QED BY <1>0, <2>1, <2>2, <3>1 DEF FromInv
  <2> QED BY <2>3, <2>4 DEF FromInv, HeadOf, TailOf, Item
<1>1. CASE ProcessRestrictions
  BY <1>1 DEF ProcessRestrictions, FromInv
<1>2. CASE Seed
  <2>1. /\ at' = "flood" /\ UNCHANGED <<map, dst, graph>> /\ handle' = Seeds
        /\ cost' = [d \in Drive |-> SeedCost(d)] /\ from' = [d \in Drive |-> NoSeg]
    BY <1>2 DEF Seed
  <2>2. Drive' = Drive
    BY <2>1 DEF Drive
  <2>3. ASSUME NEW d \in Drive
        PROVE  /\ cost'[d] # Inf \/ d \in handle' => Reached(d)'
               /\ Reached(d)' => Good(d)'
               /\ from'[d] = NoSeg
    <3>1. SeedCost(d)' = SeedCost(d) /\ (Good(d)' <=> Good(d)) /\ from'[d] = NoSeg
          /\ cost'[d] = SeedCost(d)
      BY <2>1 DEF SeedCost, Value, Restricted, Before, Item, Open, RightWay, TailOf, Good
    <3> QED BY <2>1, <3>1, SeedGood DEF Reached, Seeds
  <2> QED BY <2>2, <2>3 DEF FromInv
<1>3. CASE Extract
  <2>1. at = "flood" /\ at' = "flood" /\ UNCHANGED <<map, pos, dst, graph>> /\ Drive' = Drive
    BY <1>3 DEF Extract, Drive
  <2>2. PICK e \in heap : 
         /\ \A d \in heap : cost[e] <= cost[d]
         /\ LET m == Cheaper(e[1]) IN
            \E look \in Looks(m) :
               LET D == Better(m, look.at) IN
               /\ cost' = [d \in Drive |-> IF d \in D THEN Via(d, m, cost[m]) ELSE cost[d]]
               /\ from' = [d \in Drive |-> IF d \in D THEN m[1] ELSE from[d]]
               /\ handle' = (handle \ {m}) \union D
    BY <1>3 DEF Extract
  <2>3. PICK m : m = Cheaper(e[1])
    OBVIOUS
  <2>31. PICK look \in Looks(m) :
               LET D == Better(m, look.at) IN
               /\ cost' = [d \in Drive |-> IF d \in D THEN Via(d, m, cost[m]) ELSE cost[d]]
               /\ from' = [d \in Drive |-> IF d \in D THEN m[1] ELSE from[d]]
               /\ handle' = (handle \ {m}) \union D
    BY <2>2, <2>3
  <2> DEFINE D == Better(m, look.at)
  <2>4. m \in Drive /\ m \in handle
    BY <2>1, <2>2, <2>3, Guess
  <2>5. \A d \in look.at : d \in Drive /\ HeadOf(d) = TailOf(m) /\ Via(d, m, 0) # Inf
    BY DEF Looks
  <2>6. Reached(m)
    BY <2>1, <2>4 DEF FromInv
  <2>7. ASSUME NEW d \in D
        PROVE  d \in Drive /\ HeadOf(d) = TailOf(m) /\ Good(d) /\ Item(d) # Item(m)
    <3>1. d \in look.at
      BY DEF Better
    <3> QED BY <2>5, <3>1 DEF Via, Value, Good
  <2>8. /\ cost' = [d \in Drive |-> IF d \in D THEN Via(d, m, cost[m]) ELSE cost[d]]
        /\ from' = [d \in Drive |-> IF d \in D THEN m[1] ELSE from[d]]
        /\ handle' = (handle \ {m}) \union D
    BY <2>31
  <2> HIDE DEF D
  <2>9. \A d : SeedCost(d)' = SeedCost(d) /\ (Good(d)' <=> Good(d))
    BY <2>1 DEF SeedCost, Value, Restricted, Before, Item, Open, RightWay, TailOf, Good
  <2>10. m[1] # NoSeg
    <3>1. Segment(m[1])
      BY <2>4, DriveTwin DEF GraphInv
    <3>2. "item" \in DOMAIN m[1] /\ "item" \notin DOMAIN NoSeg
      BY <3>1 DEF Segment, NoSeg
    <3> QED BY <3>2
  <2>11. \A d \in Drive : from'[d] = (IF d \in D THEN m[1] ELSE from[d])
    BY <2>8
  <2>12. \A d \in Drive : Reached(d) => Reached(d)'
    BY <2>9, <2>10, <2>11 DEF Reached
  <2>13. ASSUME NEW d \in Drive
         PROVE  /\ cost'[d] # Inf \/ d \in handle' => Reached(d)'
                /\ Reached(d)' => Good(d)'
                /\ from'[d] # NoSeg =>
                     /\ After(d)' \in Drive /\ Reached(After(d))'
                     /\ TailOf(After(d)') = HeadOf(d) /\ Item(After(d)') # Item(d)
    <3>1. CASE d \in D
      <4>1. from'[d] = m[1]
        BY <2>11, <3>1
      <4>2. HeadOf(d) = TailOf(m) /\ Good(d) /\ Item(d) # Item(m)
        BY <2>7, <3>1
      <4>3. After(d)' = m
        BY <2>4, <4>1, <4>2, OnwardsIs DEF After, Onwards, HeadOf
      <4>4. Reached(d)' /\ Good(d)' /\ Reached(m)'
        BY <2>4, <2>6, <2>9, <2>10, <2>12, <4>1, <4>2 DEF Reached
      <4>5. Reached(After(d))'
        BY <4>3, <4>4 DEF Reached, SeedCost, Value, Restricted, Before, Item, Open, RightWay, TailOf
      <4> QED BY <2>4, <4>2, <4>3, <4>4, <4>5
    <3>2. CASE d \notin D
      <4>1. from'[d] = from[d] /\ cost'[d] = cost[d] /\ (d \in handle' => d \in handle)
        BY <2>8, <3>2
      <4>2. After(d)' = After(d) /\ (Reached(d)' <=> Reached(d))
        BY <2>9, <4>1 DEF After, Onwards, HeadOf, Reached
      <4>3. /\ cost[d] # Inf \/ d \in handle => Reached(d)
            /\ Reached(d) => Good(d)
            /\ from[d] # NoSeg =>
                  /\ After(d) \in Drive /\ Reached(After(d))
                  /\ TailOf(After(d)) = HeadOf(d) /\ Item(After(d)) # Item(d)
        BY <2>1 DEF FromInv
      <4>4. from[d] # NoSeg => Reached(After(d))'
        <5> SUFFICES ASSUME from[d] # NoSeg PROVE Reached(After(d))'
          OBVIOUS
        <5>1. After(d) \in Drive /\ Reached(After(d))
          BY <4>3
        <5>2. \A x \in Drive : Reached(x) =>
                  SeedCost(x)' # Inf \/ from'[x] # NoSeg
          BY <2>9, <2>10, <2>11 DEF Reached
        <5> QED BY <4>2, <5>1, <5>2 DEF Reached, SeedCost, Value, Restricted, Before, Item, Open, RightWay, TailOf
      <4> QED BY <2>9, <4>1, <4>2, <4>3, <4>4
    <3> QED BY <3>1, <3>2
  <2> QED BY <2>1, <2>13 DEF FromInv, HeadOf, TailOf, Item
<1>4. CASE Choose
  BY <1>0, <1>4 DEF Choose, FromInv
<1>5. CASE Follow \/ NewPosition
  BY <1>0, <1>5 DEF Follow, NewPosition
<1>6. CASE UNCHANGED vars
  <2>1. CASE at = "build"
    BY <1>6, <2>1 DEF vars, FromInv
  <2> QED BY <1>0, <1>6, <2>1 DEF vars
<1> QED BY <1>1, <1>2, <1>3, <1>4, <1>5, <1>6 DEF Next

-----------------------------------------------------------------------------
(* The path *)

\* A sequence of drives that one may take one after the other
Way(p) ==
    /\ \A i \in 1 .. Len(p) : Open(p[i])
    /\ \A i \in 1 .. Len(p) - 1 : Taken(p[i], p[i + 1])

PathInv ==
    /\ at = "follow" =>
          /\ next \in Drive /\ Reached(next) /\ path \in Seq(Drive) /\ Way(path)
          /\ path = <<>> => Item(next) = pos.item
          /\ path # <<>> => Item(path[1]) = pos.item /\ Taken(path[Len(path)], next)
    /\ at = "done" /\ path # <<>> =>
          /\ Item(path[1]) = pos.item /\ Item(path[Len(path)]) = dst.item /\ Way(path)

\* The successor of a drive may be driven after it.
LEMMA AfterTaken ==
    ASSUME GraphInv, FromInv, at # "build", NEW d \in Drive, Reached(d), from[d] # NoSeg
    PROVE  Taken(d, After(d)) /\ After(d) \in Drive /\ Reached(After(d))
<1> DEFINE m == After(d)
<1>1. /\ m \in Drive /\ Reached(m) /\ Good(d) /\ Good(m)
      /\ TailOf(m) = HeadOf(d) /\ Item(m) # Item(d)
  BY DEF FromInv
<1> HIDE DEF m
<1> DEFINE p == HeadOf(d)
<1>2. Point(p) /\ p \notin Restricted /\ Enters(d) /\ Leaves(m)
  BY <1>1, DriveEnds, DriveTwin DEF Good, GraphInv
<1>3. ASSUME ~d[1].free, NEW r \in map.restriction, r.prev = Place(TailOf(d)), r.via = Place(p)
      PROVE  r.kind = "no" <=> r.next # Place(HeadOf(m))
  <2>1. CASE Made(p)
    BY <1>1, <1>2, <1>3, <2>1 DEF Enters, Leaves
  <2>2. CASE p = <<p[1]>>
    <3>1. p = <<r.via>>
      BY <1>3, <2>2 DEF Place
    <3> QED BY <1>2, <1>3, <3>1 DEF Restricted
  <2> QED BY <1>2, <2>1, <2>2 DEF Point
<1>4. d[1].free \/ TurnAllowed(d, m)
  BY <1>1, <1>3 DEF TurnAllowed
<1> QED BY <1>1, <1>4 DEF Taken, Good, m

\* A way is made longer by a drive that one may take after its last one.
LEMMA WayAppend ==
    ASSUME NEW p \in Seq(Drive), NEW d \in Drive, Way(p), Open(d),
           p # <<>> => Taken(p[Len(p)], d)
    PROVE  Way(Append(p, d))
<1> DEFINE q == Append(p, d)
<1>1. /\ q \in Seq(Drive) /\ Len(q) = Len(p) + 1 /\ Len(p) \in Nat /\ q[Len(p) + 1] = d
      /\ \A i \in 1 .. Len(p) : q[i] = p[i]
  OBVIOUS
<1> HIDE DEF q
<1>2. ASSUME NEW i \in 1 .. Len(q) PROVE Open(q[i])
  BY <1>1, <1>2 DEF Way
<1>3. ASSUME NEW i \in 1 .. Len(q) - 1 PROVE Taken(q[i], q[i + 1])
  <2>1. CASE i = Len(p)
    BY <1>1, <1>3, <2>1
  <2>2. CASE i # Len(p)
    <3>1. i \in 1 .. Len(p) - 1 /\ i + 1 \in 1 .. Len(p)
      BY <1>1, <1>3, <2>2
    <3> QED BY <1>1, <3>1 DEF Way
  <2> QED BY <2>1, <2>2
<1> QED BY <1>2, <1>3 DEF Way, q

\* Every step keeps the path a way.
LEMMA PathNext ==
    GraphInv /\ FloodType /\ FromInv /\ PathInv /\ [Next]_vars => PathInv'
<1> SUFFICES ASSUME GraphInv, FloodType, FromInv, PathInv, [Next]_vars PROVE PathInv'
  OBVIOUS
<1> USE DEF flooding, following
<1>1. CASE ProcessRestrictions \/ Seed \/ Extract \/ NewPosition
  <2>1. at' \notin {"follow", "done"}
    BY <1>1 DEF ProcessRestrictions, Seed, Extract, NewPosition, PathInv
  <2> QED BY <2>1 DEF PathInv
<1>2. CASE Choose
  <2>1. at = "flood" /\ path' = <<>> /\ UNCHANGED <<map, pos, dst>>
    BY <1>2 DEF Choose
  <2>2. CASE at' = "follow"
    <3>1. PICK f \in OneOf(Starts(1)), b \in OneOf(Starts(-1)) :
             next' \in {f, b} /\ next' # NoDrive /\ UNCHANGED <<graph, cost, from>>
      BY <1>2, <2>2 DEF Choose
    <3>2. PICK k \in {1, -1} : next' \in Starts(k)
      BY <3>1 DEF OneOf
    <3>3. next' \in Drive /\ Item(next') = pos.item /\ cost[next'] # Inf
      BY <3>2 DEF Starts
    <3>4. Reached(next')
      BY <2>1, <3>3 DEF FromInv
    <3>5. Reached(next)'
      BY <2>1, <3>1, <3>4 DEF Reached, SeedCost, Value, Restricted, Before, Item, Open, RightWay, TailOf
    <3>6. Way(<<>>)'
      BY DEF Way
    <3>7. (next \in Drive)' /\ (path \in Seq(Drive))'
      BY <2>1, <3>1, <3>3 DEF Drive
    <3>8. Way(path)'
      BY <2>1 DEF Way
    <3>9. (Item(next) = pos.item)'
      BY <2>1, <3>3 DEF Item
    <3> QED BY <2>1, <2>2, <3>5, <3>7, <3>8, <3>9 DEF PathInv
  <2>3. CASE at' # "follow"
    BY <2>1, <2>3 DEF PathInv
  <2> QED BY <2>2, <2>3
<1>3. CASE Follow
  <2>1. /\ at = "follow" /\ path' = Append(path, next)
        /\ UNCHANGED <<map, pos, dst, graph, cost, from>>
    BY <1>3 DEF Follow
  <2>2. /\ next \in Drive /\ Reached(next) /\ path \in Seq(Drive) /\ Way(path)
        /\ path = <<>> => Item(next) = pos.item
        /\ path # <<>> => Item(path[1]) = pos.item /\ Taken(path[Len(path)], next)
    BY <2>1 DEF PathInv
  <2>3. Good(next)
    BY <2>1, <2>2 DEF FromInv
  <2>4. Way(path')
    BY <2>1, <2>2, <2>3, WayAppend DEF Good
  <2>5. /\ path' \in Seq(Drive) /\ path' # <<>> /\ path'[Len(path')] = next
        /\ Item(path'[1]) = pos.item
    <3>1. path' \in Seq(Drive) /\ path' # <<>> /\ path'[Len(path')] = next
      BY <2>1, <2>2
    <3>2. CASE path = <<>>
      <4>1. path'[1] = next
        BY <2>1, <3>2
      <4> QED BY <2>2, <3>1, <3>2, <4>1
    <3>3. CASE path # <<>>
      <4>1. path'[1] = path[1]
        BY <2>1, <2>2, <3>3
      <4> QED BY <2>2, <3>1, <3>3, <4>1
    <3> QED BY <3>2, <3>3
  <2>6. Way(path)' /\ Drive' = Drive
    BY <2>1, <2>4 DEF Way, Taken, TurnAllowed, Open, RightWay, HeadOf, TailOf, Place, Item, Drive
  <2>7. CASE from[next] = NoSeg \/ (Item(next) = dst.item /\ path # <<>>)
    <3>1. at' = "done"
      BY <1>3, <2>7 DEF Follow
    <3>2. Item(next) = dst.item
      BY <2>2, <2>7, SeedGood DEF Reached
    <3> QED BY <2>1, <2>5, <2>6, <3>1, <3>2 DEF PathInv, Item
  <2>8. CASE ~ (from[next] = NoSeg \/ (Item(next) = dst.item /\ path # <<>>))
    <3>1. at' = "follow" /\ next' = After(next)
      BY <1>3, <2>1, <2>8 DEF Follow, After
    <3>2. Taken(next, next') /\ next' \in Drive /\ Reached(next')
      BY <2>1, <2>2, <2>8, <3>1, AfterTaken
    <3>3. Reached(next)'
      BY <2>1, <3>2 DEF Reached, SeedCost, Value, Restricted, Before, Item, Open, RightWay, TailOf
    <3>4. Taken(path[Len(path)], next)'
      BY <2>1, <2>5, <3>2 DEF Taken, TurnAllowed, Open, RightWay, HeadOf, TailOf, Place, Item
    <3> QED BY <2>1, <2>5, <2>6, <3>1, <3>2, <3>3, <3>4 DEF PathInv, Item
  <2> QED BY <2>7, <2>8
<1>4. CASE UNCHANGED vars
  <2>1. UNCHANGED <<map, pos, dst, at, graph, cost, from, next, path>>
    BY <1>4 DEF vars
  <2>2. /\ \A d : Item(d)' = Item(d) /\ (Reached(d)' <=> Reached(d)) /\ (Open(d)' <=> Open(d))
        /\ Drive' = Drive
    BY <2>1 DEF Item, Drive, Open, RightWay, Reached, SeedCost, Value, Restricted, Before, TailOf
  <2>3. \A d, e : Taken(d, e)' <=> Taken(d, e)
    BY <2>1 DEF Taken, TurnAllowed, Open, RightWay, HeadOf, TailOf, Place, Item
  <2>4. Way(path)' <=> Way(path)
    BY <2>1, <2>2, <2>3 DEF Way, Open, RightWay
  <2>5. Item(next)' = Item(next) /\ (Reached(next)' <=> Reached(next))
        /\ (Taken(path[Len(path)], next)' <=> Taken(path[Len(path)], next))
        /\ Item(path[1])' = Item(path[1]) /\ Item(path[Len(path)])' = Item(path[Len(path)])
    BY <2>1, <2>2, <2>3
  <2> QED BY <2>1, <2>2, <2>4, <2>5 DEF PathInv
<1> QED BY <1>1, <1>2, <1>3, <1>4 DEF Next

-----------------------------------------------------------------------------
(* Lengths and costs *)

\* Every point that is still to be split may make the segments longer by one.
LenInv ==
    /\ IsFiniteSet(pending)
    /\ \A s \in graph : s.len + Cardinality(pending) <= Inf

CostInv == at # "build" => \A d \in Drive : cost[d] <= Inf

\* There are no more points with restrictions than restrictions.
LEMMA RestrictedFinite ==
    ASSUME map \in Maps
    PROVE  IsFiniteSet(Restricted) /\ Cardinality(Restricted) <= Cardinality(map.restriction)
<1> DEFINE f == [r \in map.restriction |-> <<r.via>>]
<1>1. f \in Surjection(map.restriction, Restricted)
  BY DEF Surjection, Restricted
<1>2. IsFiniteSet(map.restriction)
  BY ConstantsAssumption
<1> QED BY <1>1, <1>2, FS_Surjection

\* A graph as route_graph_build leaves it has room for all the splitting.
LEMMA StreetsLen ==
    ASSUME map \in Maps, graph = map.streets, pending = Restricted PROVE LenInv
<1>1. ASSUME NEW s \in graph PROVE s.len + Cardinality(pending) <= Inf
  <2>1. s.len + Cardinality(map.restriction) <= Inf /\ s.len \in Nat /\ IsFiniteSet(map.restriction)
    BY ConstantsAssumption DEF Street
  <2>2. Cardinality(pending) \in Nat /\ Cardinality(map.restriction) \in Nat
    BY <2>1, RestrictedFinite, FS_CardinalityType
  <2> QED BY <2>1, <2>2, RestrictedFinite, ConstantsAssumption
<1> QED BY <1>1, RestrictedFinite DEF LenInv

\* Every step keeps the lengths within the room that is left.
LEMMA LenNext == GraphInv /\ LenInv /\ [Next]_vars => LenInv'
<1> SUFFICES ASSUME GraphInv, LenInv, [Next]_vars PROVE LenInv'
  OBVIOUS
<1>1. CASE ProcessRestrictions
  <2>1. PICK p \in pending :
          /\ pending' = pending \ {p}
          /\ graph' = graph \union
                UNION {SplitFor(p, d) : d \in {e \in Drive : HeadOf(e) = p /\ RightWay(e)}}
    BY <1>1 DEF ProcessRestrictions
  <2>2. /\ IsFiniteSet(pending') /\ Cardinality(pending') = Cardinality(pending) - 1
        /\ Cardinality(pending) \in Nat
    BY <2>1, FS_RemoveElement, FS_CardinalityType DEF LenInv
  <2>3. \A s \in graph : s.len \in Nat /\ s.len + Cardinality(pending) <= Inf
    BY DEF GraphInv, Segment, LenInv
  <2>4. ASSUME NEW s \in graph' PROVE s.len + Cardinality(pending') <= Inf
    <3>1. CASE s \in graph
      BY <2>2, <2>3, <3>1, ConstantsAssumption
    <3>2. CASE s \notin graph
      <4>1. PICK d \in Drive : s \in SplitFor(p, d)
        BY <2>1, <3>2
      <4>2. PICK e \in Drive : \E tail, head : s = Clone(e, tail, head)
        BY <4>1 DEF SplitFor
      <4>3. e[1] \in graph
        BY DEF Drive
      <4>4. s.len = e[1].len + 1
        BY <4>2, <4>3 DEF Clone, GraphInv, Segment
      <4> QED BY <2>2, <2>3, <4>3, <4>4, ConstantsAssumption
    <3> QED BY <3>1, <3>2
  <2> QED BY <2>2, <2>4 DEF LenInv
<1>2. CASE Choose
  <2>1. CASE graph' = map.streets /\ pending' = Restricted /\ map' = map
    <3>1. (map \in Maps)' /\ (graph = map.streets)' /\ (pending = Restricted)'
      BY <2>1 DEF GraphInv, Restricted
    <3>2. (map \in Maps /\ graph = map.streets /\ pending = Restricted => LenInv)'
      BY StreetsLen, PTL
    <3> QED BY <3>1, <3>2
  <2> QED BY <1>2, <2>1 DEF Choose, LenInv
<1>3. CASE Seed \/ Extract \/ Follow \/ NewPosition \/ UNCHANGED vars
  BY <1>3 DEF Seed, Extract, Follow, NewPosition, vars, LenInv
<1> QED BY <1>1, <1>2, <1>3 DEF Next

\* A part of a street costs no more than the street.
LEMMA Part ==
    ASSUME NEW v \in Nat, NEW b \in 0 .. 100
    PROVE  (v * b) \div 100 \in Nat /\ (v * b) \div 100 <= v
<1> DEFINE q == (v * b) \div 100
<1>1. v * b \in Nat /\ v * b <= v * 100
  OBVIOUS
<1>2. q \in Nat /\ 100 * q <= v * b
  BY <1>1
<1> HIDE DEF q
<1>3. q <= v
  BY <1>1, <1>2
<1> QED BY <1>2, <1>3 DEF q

\* The cost of a drive of the street of the destination is at most INT_MAX.
LEMMA SeedCostBound ==
    ASSUME GraphInv, LenInv, FloodType, NEW d \in Drive PROVE SeedCost(d) <= Inf
<1>1. d[1] \in graph /\ d[1].len \in Nat /\ Inf \in Nat
  BY ConstantsAssumption DEF Drive, GraphInv, Segment
<1>2. d[1].len <= Inf
  BY <1>1, FS_CardinalityType DEF LenInv
<1>3. Value(NoSeg, d) \in {d[1].len, Inf} /\ dst.percent \in 0 .. 100
  <2>1. dst.percent \in 0 .. 100
    BY ConstantsAssumption DEF FloodType
  <2>2. ~ (d[1].limited /\ NoSeg # NoSeg /\ ~NoSeg.limited)
    OBVIOUS
  <2>3. Value(NoSeg, d) \in {d[1].len + 0, Inf}
    BY <2>2 DEF Value
  <2> QED BY <1>1, <2>1, <2>3
<1>4. Before(d, dst) \in 0 .. 100
  BY <1>3 DEF Before
<1> QED BY <1>1, <1>2, <1>3, <1>4, Part DEF SeedCost

\* Every step keeps the costs at most INT_MAX.
LEMMA CostNext ==
    GraphInv /\ LenInv /\ FloodType /\ FloodType' /\ CostInv /\ [Next]_vars => CostInv'
<1> SUFFICES ASSUME GraphInv, LenInv, FloodType, FloodType', CostInv, [Next]_vars, at' # "build"
             PROVE  CostInv'
  BY DEF CostInv
<1>1. CASE Seed
  BY <1>1, SeedCostBound DEF Seed, CostInv, Drive
<1>2. CASE Extract
  <2>1. /\ at # "build" /\ graph' = graph
        /\ \E m : \E D : cost' = [d \in Drive |-> IF d \in Better(m, D) THEN Via(d, m, cost[m]) ELSE cost[d]]
    BY <1>2 DEF Extract
  <2>2. PICK m, D : cost' = [d \in Drive |-> IF d \in Better(m, D) THEN Via(d, m, cost[m]) ELSE cost[d]]
    BY <2>1
  <2>3. ASSUME NEW d \in Drive PROVE cost'[d] <= Inf
    <3>1. cost[d] <= Inf /\ cost[d] \in Nat /\ Inf \in Nat
      BY <2>1, ConstantsAssumption DEF CostInv, FloodType
    <3>2. CASE d \in Better(m, D)
      <4>1. cost'[d] < cost[d] /\ cost'[d] \in Nat
        BY <2>1, <2>2, <3>2 DEF Better, FloodType, Drive
      <4> QED BY <3>1, <4>1
    <3> QED BY <2>2, <3>1, <3>2
  <2> QED BY <2>1, <2>3 DEF CostInv, Drive
<1>3. CASE ProcessRestrictions \/ Choose \/ Follow \/ NewPosition \/ UNCHANGED vars
  BY <1>3 DEF ProcessRestrictions, Choose, Follow, NewPosition, vars, flooding, CostInv, Drive
<1> QED BY <1>1, <1>2, <1>3 DEF Next

TypeInv ==
    /\ at \in {"build", "flood", "follow", "done"}
    /\ found \in BOOLEAN /\ badElement \in BOOLEAN /\ newGraph \in BOOLEAN
    /\ at \in {"follow", "done"} => path \in Seq(Drive) /\ next \in Drive \union {NoDrive}
    /\ moves \in 0 .. MaxMoves

\* Looking at the neighbours says whether the street of the position was met.
LEMMA LookFound == ASSUME NEW m, NEW look \in Looks(m) PROVE look.found \in BOOLEAN
<1> DEFINE reach(k) == {d \in Drive : d[2] = k /\ HeadOf(d) = TailOf(m) /\ Via(d, m, 0) # Inf}
           mine(k) == {d \in reach(k) : Item(d) = pos.item}
<1>1. look \in IF found \/ mine(-1) # {} THEN {[at |-> reach(-1), found |-> TRUE]}
               ELSE IF mine(1) = {} THEN {[at |-> reach(-1) \union reach(1), found |-> FALSE]}
               ELSE {[at |-> reach(-1) \union before \union {d}, found |-> TRUE] :
                     before \in SUBSET (reach(1) \ mine(1)), d \in mine(1)}
  BY DEF Looks
<1> HIDE DEF reach, mine
<1>2. \/ \E x : look = [at |-> x, found |-> TRUE]
      \/ \E x : look = [at |-> x, found |-> FALSE]
  BY <1>1
<1>3. look.found = TRUE \/ look.found = FALSE
  BY <1>2
<1> QED BY <1>3, Zenon

\* Every step keeps the kinds of the other variables.
LEMMA TypeNext ==
    GraphInv /\ FloodType /\ PathInv /\ PathInv' /\ TypeInv /\ [Next]_vars => TypeInv'
<1> SUFFICES ASSUME GraphInv, FloodType, PathInv, PathInv', TypeInv, [Next]_vars PROVE TypeInv'
  OBVIOUS
<1> USE DEF flooding, following, TypeInv
<1>1. CASE ProcessRestrictions \/ Seed
  BY <1>1 DEF ProcessRestrictions, Seed
<1>2. CASE Extract
  <2>1. at' = "flood" /\ UNCHANGED <<newGraph, moves>>
    BY <1>2 DEF Extract
  <2>2. badElement' \in BOOLEAN
    BY <1>2, Zenon DEF Extract
  <2>3. found' \in BOOLEAN
    <3>1. \E m : \E look \in Looks(m) : found' = look.found
      BY <1>2 DEF Extract
    <3>2. PICK m : \E look \in Looks(m) : found' = look.found
      BY <3>1
    <3>21. PICK look \in Looks(m) : found' = look.found
      BY <3>2
    <3> QED BY <3>21, LookFound
  <2> QED BY <2>1, <2>2, <2>3
<1>3. CASE Choose
  <2>1. path' = <<>> /\ UNCHANGED <<badElement, moves>> /\ found' \in BOOLEAN /\ newGraph' \in BOOLEAN
    BY <1>3 DEF Choose
  <2>2. at' \in {"follow", "done", "build"} /\ (at' = "done" => next' = NoDrive)
    BY <1>3 DEF Choose
  <2>3. at' = "follow" => next' \in Drive'
    BY DEF PathInv
  <2> QED BY <2>1, <2>2, <2>3
<1>4. CASE Follow
  <2>1. at = "follow" /\ path' = Append(path, next) /\ UNCHANGED <<graph, found, badElement, newGraph, moves>>
    BY <1>4 DEF Follow
  <2>2. path' \in Seq(Drive) /\ Drive' = Drive /\ next \in Drive
    BY <2>1 DEF PathInv, Drive
  <2>3. (at' = "done" /\ next' = next) \/ at' = "follow"
    BY <1>4 DEF Follow
  <2>4. at' = "follow" => next' \in Drive'
    BY DEF PathInv
  <2> QED BY <2>1, <2>2, <2>3, <2>4
<1>5. CASE NewPosition
  <2>1. at' = "flood" /\ newGraph' = FALSE /\ moves' = moves + 1 /\ moves < MaxMoves
        /\ UNCHANGED <<found, badElement>> /\ MaxMoves \in Nat
    BY <1>5, ConstantsAssumption DEF NewPosition
  <2>2. found' \in BOOLEAN /\ badElement' \in BOOLEAN /\ newGraph' \in BOOLEAN
    BY <2>1, Zenon
  <2>3. moves' \in 0 .. MaxMoves
    BY <2>1
  <2>4. at' \in {"build", "flood", "follow", "done"} /\ at' \notin {"follow", "done"}
    BY <2>1
  <2> HIDE DEF TypeInv
  <2> QED BY <2>2, <2>3, <2>4, Zenon DEF TypeInv
<1>6. CASE UNCHANGED vars
  BY <1>6 DEF vars, Drive
<1> QED BY <1>1, <1>2, <1>3, <1>4, <1>5, <1>6 DEF Next

-----------------------------------------------------------------------------
(* The theorems *)

FIInv ==
    /\ GraphInv /\ FloodType /\ HeapInv /\ ElementsInHeap /\ FromInv /\ PathInv
    /\ LenInv /\ CostInv /\ TypeInv

\* The invariants together are one of the specification.
LEMMA FloodInvariant == Spec => []FIInv
<1>1. Init => FIInv
  <2> SUFFICES ASSUME Init PROVE FIInv
    OBVIOUS
  <2>1. GraphInv
    BY StreetsInv DEF Init
  <2>2. FromInv /\ PathInv
    BY DEF Init, FromInv, PathInv
  <2>3. LenInv
    BY StreetsLen DEF Init
  <2>4. CostInv /\ TypeInv
    <3>1. moves = 0 /\ MaxMoves \in Nat
      BY ConstantsAssumption DEF Init
    <3>2. moves \in 0 .. MaxMoves
      BY <3>1
    <3> QED BY <3>2, Zenon DEF Init, CostInv, TypeInv
  <2> QED BY <2>1, <2>2, <2>3, <2>4, FloodInit DEF FIInv
<1>2. FIInv /\ [Next]_vars => FIInv'
  <2> SUFFICES ASSUME FIInv, [Next]_vars PROVE FIInv'
    OBVIOUS
  <2>1. GraphInv' /\ FloodType' /\ HeapInv' /\ ElementsInHeap' /\ FromInv' /\ PathInv'
    BY GraphNext, FloodNext, FromNext, PathNext DEF FIInv
  <2>2. LenInv' /\ CostInv' /\ TypeInv'
    BY <2>1, LenNext, CostNext, TypeNext DEF FIInv
  <2> QED BY <2>1, <2>2 DEF FIInv
<1> QED BY <1>1, <1>2, PTL DEF Spec

\* fh_replacekey is only called with an element that is in the heap.
THEOREM FloodElementsInHeap == Spec => []ElementsInHeap
<1>1. FIInv => ElementsInHeap
  BY DEF FIInv
<1> QED BY <1>1, FloodInvariant, PTL

\* A path goes from the street of the position to that of the destination, against no
\* one-way street that means something to the vehicle, with the costs of any earlier
\* position; and it takes no forbidden turn out of a street where one-way streets mean
\* something to the vehicle, which for a car are all. A bicycle may get a forbidden turn
\* out of another one.
THEOREM FloodLegalPath == Spec => []LegalPath
<1>1. FIInv => LegalPath
  BY DEF FIInv, PathInv, LegalPath, Way
<1> QED BY <1>1, FloodInvariant, PTL

\* Every variable keeps its kind of value; the cost of a drive is at most INT_MAX,
\* the value that route_graph_flood and route_value_seg give to a drive without a way.
THEOREM FloodTypeOK == Spec => []TypeOK
<1>1. FIInv => TypeOK
  <2> SUFFICES ASSUME FIInv PROVE TypeOK
    OBVIOUS
  <2>1. map \in Maps /\ pos \in Positions /\ handle \subseteq Drive /\ heap \subseteq Drive
    BY DEF FIInv, GraphInv, FloodType
  <2>2. at # "build" => cost \in [Drive -> 0 .. Inf] /\ from \in [Drive -> graph \union {NoSeg}]
    BY ConstantsAssumption DEF FIInv, FloodType, CostInv
  <2>3. TypeInv
    BY DEF FIInv
  <2> QED BY <2>1, <2>2, <2>3, Zenon DEF TypeOK, TypeInv
<1> QED BY <1>1, FloodInvariant, PTL

-----------------------------------------------------------------------------
(* Finitely many drives *)

FiniteInv == IsFiniteSet(graph)

\* The clones that the splitting of a point adds for a drive are finitely many.
LEMMA SplitFinite ==
    ASSUME IsFiniteSet(Drive), NEW p, NEW d PROVE IsFiniteSet(SplitFor(p, d))
<1> DEFINE pn == <<Place(p), d[1]>>
           out == {e \in Drive : TailOf(e) = p /\ e[1] # d[1] /\ RightWay(e) /\ TurnAllowed(d, e)}
           f == [e \in out |-> Clone(e, pn, HeadOf(e))]
           clones == {Clone(e, pn, HeadOf(e)) : e \in out}
<1>1. IsFiniteSet(out)
  BY FS_Subset
<1>2. f \in Surjection(out, clones)
  BY DEF Surjection
<1>3. IsFiniteSet(clones)
  BY <1>1, <1>2, FS_Surjection
<1>4. IsFiniteSet({Clone(d, TailOf(d), pn)})
  BY FS_Singleton
<1>5. SplitFor(p, d) = {Clone(d, TailOf(d), pn)} \union clones
  BY DEF SplitFor
<1>6. IsFiniteSet({Clone(d, TailOf(d), pn)} \union clones)
  <2> HIDE DEF clones
  <2> QED BY <1>3, <1>4, FS_Union
<1> QED BY <1>5, <1>6

\* There are finitely many drives.
LEMMA DriveFinite == ASSUME FiniteInv PROVE IsFiniteSet(Drive)
<1>1. IsFiniteSet({1, -1})
  <2>1. IsFiniteSet({1} \cup {-1})
    BY FS_Singleton, FS_AddElement
  <2>2. {1, -1} = {1} \cup {-1}
    OBVIOUS
  <2> QED BY <2>1, <2>2
<1> QED BY <1>1, FS_Product DEF FiniteInv, Drive

\* Every step keeps the segments finitely many.
LEMMA FiniteNext == GraphInv /\ FiniteInv /\ [Next]_vars => FiniteInv'
<1> SUFFICES ASSUME GraphInv, FiniteInv, [Next]_vars PROVE FiniteInv'
  OBVIOUS
<1>1. CASE ProcessRestrictions
  <2>1. PICK p \in pending :
          graph' = graph \union
                UNION {SplitFor(p, d) : d \in {e \in Drive : HeadOf(e) = p /\ RightWay(e)}}
    BY <1>1 DEF ProcessRestrictions
  <2> DEFINE into == {e \in Drive : HeadOf(e) = p /\ RightWay(e)}
             added == {SplitFor(p, d) : d \in into}
             f == [d \in into |-> SplitFor(p, d)]
  <2>2. IsFiniteSet(into)
    BY DriveFinite, FS_Subset
  <2>3. f \in Surjection(into, added)
    BY DEF Surjection
  <2>4. IsFiniteSet(added)
    BY <2>2, <2>3, FS_Surjection
  <2>5. \A S \in added : IsFiniteSet(S)
    BY SplitFinite, DriveFinite
  <2>6. IsFiniteSet(UNION added)
    BY <2>4, <2>5, FS_UNION
  <2>7. IsFiniteSet(graph \union UNION added)
    BY <2>6, FS_Union DEF FiniteInv
  <2> QED BY <2>1, <2>7 DEF FiniteInv
<1>2. CASE Choose
  <2>1. graph' = map.streets \/ graph' = graph
    BY <1>2 DEF Choose
  <2> QED BY <2>1, ConstantsAssumption DEF GraphInv, FiniteInv
<1>3. CASE Seed \/ Extract \/ Follow \/ NewPosition \/ UNCHANGED vars
  BY <1>3 DEF Seed, Extract, Follow, NewPosition, vars, FiniteInv
<1> QED BY <1>1, <1>2, <1>3 DEF Next

-----------------------------------------------------------------------------
(* Least costs *)

\* The least of a set of naturals, of which there is one
LEMMA MinNat ==
    ASSUME NEW S \in SUBSET Nat, S # {} PROVE Min(S) \in S /\ \A x \in S : Min(S) <= x
  BY LeastNat DEF Min

\* The least of a set of integers with a bound from below
LEMMA MinInt ==
    ASSUME NEW S \in SUBSET Int, S # {}, NEW b \in Int, \A x \in S : b <= x
    PROVE  Min(S) \in S /\ \A x \in S : Min(S) <= x
<1> DEFINE T == {n \in Nat : n + b \in S}
<1>1. PICK x \in S : TRUE
  OBVIOUS
<1>2. x - b \in T
  BY <1>1
<1>3. PICK n \in T : \A m \in T : n <= m
  BY <1>2, LeastNat
<1>4. n + b \in S /\ \A y \in S : n + b <= y
  <2>1. ASSUME NEW y \in S PROVE n + b <= y
    <3>1. y - b \in T
      OBVIOUS
    <3> QED BY <1>3, <3>1
  <2> QED BY <1>3, <2>1
<1> QED BY <1>4 DEF Min

Seeded == {<<d, SeedCost(d)>> : d \in {e \in Drive : SeedCost(e) # Inf}}

\* The rounds up to the n-th, by recursion
UpToRound(f, n) ==
    f = [i \in 0 .. n |-> IF i = 0 THEN Seeded ELSE LET P == f[i - 1] IN Improved(P)]

\* There are as many rounds as one likes.
LEMMA RoundsExist == ASSUME NEW n \in Nat PROVE \E f : UpToRound(f, n)
<1> DEFINE ok == {k \in Nat : \E f : UpToRound(f, k)}
<1>1. 0 \in ok
  <2> DEFINE f == [i \in 0 .. 0 |-> Seeded]
  <2>1. f = [i \in 0 .. 0 |-> IF i = 0 THEN Seeded ELSE LET P == f[i - 1] IN Improved(P)]
    OBVIOUS
  <2> QED BY <2>1 DEF UpToRound
<1>2. ASSUME NEW k \in Nat, k \in ok PROVE k + 1 \in ok
  <2>1. PICK f : UpToRound(f, k)
    BY <1>2
  <2> DEFINE g == [i \in 0 .. k + 1 |-> IF i = 0 THEN Seeded ELSE Improved(f[i - 1])]
  <2>2. \A i \in 0 .. k : g[i] = f[i]
    <3> SUFFICES ASSUME NEW i \in 0 .. k PROVE g[i] = f[i]
      OBVIOUS
    <3>1. f[i] = IF i = 0 THEN Seeded ELSE Improved(f[i - 1])
      BY <2>1, Zenon DEF UpToRound
    <3>2. i \in 0 .. k + 1
      OBVIOUS
    <3> QED BY <3>1, <3>2, Zenon
  <2>3. g = [i \in 0 .. k + 1 |-> IF i = 0 THEN Seeded ELSE LET P == g[i - 1] IN Improved(P)]
    <3> HIDE DEF g
    <3>1. \A i \in 0 .. k + 1 : i # 0 => g[i - 1] = f[i - 1]
      <4>1. \A i \in 0 .. k + 1 : i # 0 => i - 1 \in 0 .. k
        OBVIOUS
      <4> QED BY <2>2, <4>1
    <3>2. g = [i \in 0 .. k + 1 |-> IF i = 0 THEN Seeded ELSE Improved(g[i - 1])]
      BY <3>1, Zenon DEF g
    <3> QED BY <3>2
  <2>4. UpToRound(g, k + 1)
    <3> HIDE DEF g
    <3> QED BY <2>3, Zenon DEF UpToRound
  <2> HIDE DEF g
  <2> QED BY <2>4
<1> HIDE DEF ok
<1>3. n \in ok
  BY <1>1, <1>2, AllNat
<1> QED BY <1>3 DEF ok

\* What the rounds of the definition of the least costs are
LEMMA RoundsAre ==
    ASSUME Cardinality(Drive) \in Nat
    PROVE  /\ Rounds[0] = Seeded
           /\ \A n \in 0 .. Cardinality(Drive) - 1 : Rounds[n + 1] = Improved(Rounds[n])
<1> DEFINE K == Cardinality(Drive)
<1>1. \E f : f = [i \in 0 .. K |-> IF i = 0 THEN Seeded ELSE LET P == f[i - 1] IN Improved(P)]
  <2>1. PICK f : UpToRound(f, K)
    BY RoundsExist
  <2> QED BY <2>1, Zenon DEF UpToRound
<1>2. Rounds = CHOOSE f : f = [i \in 0 .. K |-> IF i = 0 THEN Seeded ELSE LET P == f[i - 1] IN Improved(P)]
  BY Zenon DEF Rounds, Seeded
<1>3. Rounds = [i \in 0 .. K |-> IF i = 0 THEN Seeded ELSE LET P == Rounds[i - 1] IN Improved(P)]
  BY <1>1, <1>2, Zenon
<1>4. \A i \in 0 .. K : Rounds[i] = IF i = 0 THEN Seeded ELSE Improved(Rounds[i - 1])
  BY <1>3, Zenon
<1> HIDE DEF K
<1>5. Rounds[0] = Seeded
  <2>1. 0 \in 0 .. K
    BY DEF K
  <2> QED BY <1>4, <2>1, Zenon
<1>6. ASSUME NEW n \in 0 .. K - 1 PROVE Rounds[n + 1] = Improved(Rounds[n])
  <2>1. n + 1 \in 0 .. K /\ n + 1 # 0 /\ n + 1 - 1 = n
    BY DEF K
  <2> QED BY <1>4, <2>1
<1> QED BY <1>5, <1>6 DEF K

\* Costs of drives, some of them perhaps more than once
Pairs(P) == \A p \in P : p[1] \in Drive /\ p[2] \in Nat

\* What is never more than the least costs, and what never less
Potential(g) ==
    \A d \in Drive :
        /\ g[d] <= SeedCost(d)
        /\ \A e \in Drive : TailOf(e) = HeadOf(d) => g[d] <= Via(d, e, g[e])
Stages(C) ==
    /\ C \in [0 .. Cardinality(Drive) -> [Drive -> 0 .. Inf]]
    /\ \A d \in Drive : C[0][d] <= SeedCost(d)
    /\ \A n \in 0 .. Cardinality(Drive) - 1 : \A d \in Drive :
          /\ C[n + 1][d] <= C[n][d]
          /\ \A e \in Drive : TailOf(e) = HeadOf(d) => C[n + 1][d] <= Via(d, e, C[n][e])

\* A way is not cheaper when it goes on with a dearer one.
LEMMA ViaMonotone ==
    ASSUME GraphInv, NEW d \in Drive, NEW e, NEW b \in Nat, NEW c \in Nat, b <= c
    PROVE  Via(d, e, b) \in Nat /\ Via(d, e, b) <= Via(d, e, c)
<1>1. Value(e[1], d) \in Nat /\ Inf \in Nat
  BY ValueNat, ConstantsAssumption
<1> QED BY <1>1 DEF Via

\* The costs of one more round are those of the round before, or of one drive more.
LEMMA ImprovedIs ==
    ASSUME GraphInv, NEW P, Pairs(P)
    PROVE  /\ Pairs(Improved(P))
           /\ \A p \in P : \E q \in Improved(P) : q[1] = p[1] /\ q[2] <= p[2]
           /\ \A p \in P : \A d \in Drive : TailOf(p[1]) = HeadOf(d)
                 => \E q \in Improved(P) : q[1] = d /\ q[2] <= Via(d, p[1], p[2])
           /\ \A q \in Improved(P) :
                 \/ \E p \in P : p[1] = q[1] /\ q[2] = p[2]
                 \/ \E p \in P : TailOf(p[1]) = HeadOf(q[1]) /\ q[2] = Via(q[1], p[1], p[2])
<1> DEFINE old(d) == {p[2] : p \in {r \in P : r[1] = d}}
           new(d) == {Via(d, p[1], p[2]) : p \in {r \in P : TailOf(r[1]) = HeadOf(d)}}
           some == {e \in Drive : \E p \in P : p[1] = e \/ TailOf(p[1]) = HeadOf(e)}
<1>1. Improved(P) = {<<d, Min(old(d) \union new(d))>> : d \in some}
  BY DEF Improved
<1>2. ASSUME NEW d \in Drive PROVE old(d) \union new(d) \in SUBSET Nat
  <2>1. old(d) \subseteq Nat
    BY DEF Pairs
  <2>2. new(d) \subseteq Nat
    BY ViaMonotone DEF Pairs
  <2> QED BY <2>1, <2>2
<1>3. \A d \in some : d \in Drive /\ old(d) \union new(d) # {}
  OBVIOUS
<1>4. ASSUME NEW d \in some
      PROVE  /\ Min(old(d) \union new(d)) \in Nat
             /\ Min(old(d) \union new(d)) \in old(d) \union new(d)
             /\ \A x \in old(d) \union new(d) : Min(old(d) \union new(d)) <= x
  <2> DEFINE S == old(d) \union new(d)
  <2>1. S \in SUBSET Nat /\ S # {}
    BY <1>2, <1>3
  <2> HIDE DEF S
  <2>2. Min(S) \in S /\ \A x \in S : Min(S) <= x
    BY <2>1, MinNat
  <2> QED BY <2>1, <2>2 DEF S
<1>5. ASSUME NEW q \in Improved(P) PROVE q[1] \in Drive /\ q[2] \in Nat
  <2> HIDE DEF old, new, some
  <2>1. PICK d \in some : q = <<d, Min(old(d) \union new(d))>>
    BY <1>1
  <2>2. q[1] = d /\ q[2] = Min(old(d) \union new(d))
    BY <2>1
  <2> QED BY <1>3, <1>4, <2>2
<1>6. \A d \in some : \A x \in old(d) \union new(d) : \E q \in Improved(P) : q[1] = d /\ q[2] <= x
  <2> HIDE DEF old, new, some
  <2> SUFFICES ASSUME NEW d \in some, NEW x \in old(d) \union new(d)
               PROVE  \E q \in Improved(P) : q[1] = d /\ q[2] <= x
    OBVIOUS
  <2>1. <<d, Min(old(d) \union new(d))>> \in Improved(P)
    BY <1>1
  <2> QED BY <1>4, <2>1
<1>7. \A p \in P : \E q \in Improved(P) : q[1] = p[1] /\ q[2] <= p[2]
  <2> SUFFICES ASSUME NEW p \in P PROVE \E q \in Improved(P) : q[1] = p[1] /\ q[2] <= p[2]
    OBVIOUS
  <2>1. p[1] \in some /\ p[2] \in old(p[1]) \union new(p[1])
    BY DEF Pairs
  <2> QED BY <1>6, <2>1
<1>8. ASSUME NEW p \in P, NEW d \in Drive, TailOf(p[1]) = HeadOf(d)
      PROVE  \E q \in Improved(P) : q[1] = d /\ q[2] <= Via(d, p[1], p[2])
  <2>1. d \in some /\ Via(d, p[1], p[2]) \in old(d) \union new(d)
    BY <1>8
  <2> QED BY <1>6, <2>1
<1>9. ASSUME NEW q \in Improved(P)
      PROVE  \/ \E p \in P : p[1] = q[1] /\ q[2] = p[2]
             \/ \E p \in P : TailOf(p[1]) = HeadOf(q[1]) /\ q[2] = Via(q[1], p[1], p[2])
  <2>1. PICK d \in some : q = <<d, Min(old(d) \union new(d))>>
    BY <1>1
  <2>2. q[1] = d /\ q[2] \in old(d) \union new(d)
    <3> HIDE DEF old, new, some
    <3> QED BY <1>4, <2>1
  <2> QED BY <2>2
<1>10. Pairs(Improved(P))
  BY <1>5 DEF Pairs
<1> QED BY <1>7, <1>8, <1>9, <1>10

\* The cost of a drive by some pairs is its least there, INT_MAX at most.
LEMMA CostByIs ==
    ASSUME NEW P, Pairs(P), NEW d \in Drive
    PROVE  /\ CostBy(P, d) \in 0 .. Inf
           /\ CostBy(P, d) = Inf \/ \E p \in P : p[1] = d /\ p[2] = CostBy(P, d)
           /\ \A p \in P : p[1] = d => CostBy(P, d) <= p[2]
<1> DEFINE S == {Inf} \union {p[2] : p \in {q \in P : q[1] = d}}
<1>1. S \in SUBSET Nat /\ S # {} /\ Inf \in S /\ Inf \in Nat
  BY ConstantsAssumption DEF Pairs
<1>2. CostBy(P, d) = Min(S)
  BY DEF CostBy
<1>3. \A x \in S : x = Inf \/ \E p \in P : p[1] = d /\ p[2] = x
  OBVIOUS
<1>4. \A p \in P : p[1] = d => p[2] \in S
  OBVIOUS
<1> HIDE DEF S
<1>5. Min(S) \in S /\ \A x \in S : Min(S) <= x
  BY <1>1, MinNat
<1>6. Min(S) \in Nat /\ Min(S) <= Inf
  BY <1>1, <1>5
<1>7. Min(S) = Inf \/ \E p \in P : p[1] = d /\ p[2] = Min(S)
  BY <1>3, <1>5
<1>8. \A p \in P : p[1] = d => Min(S) <= p[2]
  BY <1>4, <1>5
<1>9. Min(S) \in 0 .. Inf
  BY <1>1, <1>6
<1> QED BY <1>2, <1>7, <1>8, <1>9

\* The pairs of a drive and its cost, round by round
LEMMA RoundsPairs ==
    ASSUME GraphInv, FloodType, Cardinality(Drive) \in Nat, NEW n \in 0 .. Cardinality(Drive)
    PROVE  Pairs(Rounds[n])
<1> DEFINE ok == {k \in Nat : k <= Cardinality(Drive) => Pairs(Rounds[k])}
<1>1. Pairs(Seeded)
  BY SeedCostNat DEF Pairs, Seeded
<1>2. 0 \in ok
  BY <1>1, RoundsAre
<1>3. ASSUME NEW k \in Nat, k \in ok PROVE k + 1 \in ok
  <2>1. k + 1 <= Cardinality(Drive) => Pairs(Improved(Rounds[k]))
    BY <1>3, ImprovedIs
  <2>2. k + 1 <= Cardinality(Drive) => k \in 0 .. Cardinality(Drive) - 1
    OBVIOUS
  <2> QED BY <2>1, <2>2, RoundsAre
<1> HIDE DEF ok
<1>4. n \in ok
  BY <1>2, <1>3, AllNat
<1> QED BY <1>4 DEF ok

\* The least costs are at least what a potential says.
LEMMA LeastAbove ==
    ASSUME GraphInv, FloodType, Cardinality(Drive) \in Nat,
           NEW g \in [Drive -> 0 .. Inf], Potential(g)
    PROVE  \A d \in Drive : g[d] <= LeastCosts[d]
<1> DEFINE above(P) == \A p \in P : g[p[1]] <= p[2]
           ok == {k \in Nat : k <= Cardinality(Drive) => above(Rounds[k])}
<1>1. above(Seeded)
  BY DEF Seeded, Potential
<1>2. 0 \in ok
  BY <1>1, RoundsAre
<1>3. ASSUME NEW P, Pairs(P), above(P) PROVE above(Improved(P))
  <2> SUFFICES ASSUME NEW q \in Improved(P) PROVE g[q[1]] <= q[2]
    OBVIOUS
  <2>1. q[1] \in Drive /\ q[2] \in Nat
    BY <1>3, ImprovedIs DEF Pairs
  <2>2. ASSUME NEW p \in P, p[1] = q[1], q[2] = p[2] PROVE g[q[1]] <= q[2]
    BY <1>3, <2>2
  <2>3. ASSUME NEW p \in P, TailOf(p[1]) = HeadOf(q[1]), q[2] = Via(q[1], p[1], p[2])
        PROVE  g[q[1]] <= q[2]
    <3>1. p[1] \in Drive /\ p[2] \in Nat /\ g[p[1]] \in Nat /\ g[q[1]] \in Nat /\ g[p[1]] <= p[2]
      BY <1>3, <2>1, ConstantsAssumption DEF Pairs
    <3>2. /\ Via(q[1], p[1], g[p[1]]) \in Nat
          /\ Via(q[1], p[1], g[p[1]]) <= Via(q[1], p[1], p[2])
      BY <2>1, <3>1, ViaMonotone
    <3>3. g[q[1]] <= Via(q[1], p[1], g[p[1]])
      BY <2>1, <2>3, <3>1 DEF Potential
    <3> QED BY <2>1, <2>3, <3>1, <3>2, <3>3
  <2> QED BY <1>3, <2>2, <2>3, ImprovedIs
<1>4. ASSUME NEW k \in Nat, k \in ok PROVE k + 1 \in ok
  <2> SUFFICES ASSUME k + 1 <= Cardinality(Drive) PROVE above(Rounds[k + 1])
    OBVIOUS
  <2>1. k \in 0 .. Cardinality(Drive) - 1 /\ k \in 0 .. Cardinality(Drive)
    OBVIOUS
  <2>2. Pairs(Rounds[k]) /\ above(Rounds[k])
    BY <1>4, <2>1, RoundsPairs
  <2>3. Rounds[k + 1] = Improved(Rounds[k])
    BY <2>1, RoundsAre
  <2> HIDE DEF above
  <2> QED BY <1>3, <2>2, <2>3
<1>5. above(Rounds[Cardinality(Drive)])
  <2> HIDE DEF ok
  <2>1. Cardinality(Drive) \in ok
    BY <1>2, <1>4, AllNat
  <2> QED BY <2>1 DEF ok
<1>6. Pairs(Rounds[Cardinality(Drive)])
  BY RoundsPairs
<1> DEFINE P == Rounds[Cardinality(Drive)]
<1>7. LeastCosts = [d \in Drive |-> CostBy(P, d)]
  BY DEF LeastCosts
<1> HIDE DEF P
<1>8. ASSUME NEW d \in Drive PROVE g[d] <= CostBy(P, d)
  <2>1. CostBy(P, d) = Inf \/ \E p \in P : p[1] = d /\ p[2] = CostBy(P, d)
    BY <1>6, CostByIs DEF P
  <2>2. g[d] <= Inf
    BY ConstantsAssumption
  <2> QED BY <1>5, <2>1, <2>2 DEF P
<1> QED BY <1>7, <1>8

\* The least costs are the last of stages that allow for one more drive each.
LEMMA LeastBelow ==
    ASSUME GraphInv, FloodType, Cardinality(Drive) \in Nat
    PROVE  \E C : Stages(C) /\ C[Cardinality(Drive)] = LeastCosts
<1> DEFINE K == Cardinality(Drive)
           C == [n \in 0 .. K |-> [d \in Drive |-> CostBy(Rounds[n], d)]]
<1>1. \A n \in 0 .. K : \A d \in Drive : C[n][d] = CostBy(Rounds[n], d)
  OBVIOUS
<1>2. \A n \in 0 .. K : Pairs(Rounds[n])
  BY RoundsPairs
<1>3. C \in [0 .. K -> [Drive -> 0 .. Inf]]
  BY <1>2, CostByIs
<1>4. ASSUME NEW d \in Drive PROVE C[0][d] <= SeedCost(d)
  <2>1. 0 \in 0 .. K
    OBVIOUS
  <2>2. CostBy(Rounds[0], d) \in 0 .. Inf
        /\ \A p \in Rounds[0] : p[1] = d => CostBy(Rounds[0], d) <= p[2]
    BY <1>2, <2>1, CostByIs
  <2>3. CASE SeedCost(d) = Inf
    BY <1>1, <2>1, <2>2, <2>3, ConstantsAssumption
  <2>4. CASE SeedCost(d) # Inf
    <3>1. <<d, SeedCost(d)>> \in Rounds[0]
      BY <2>4, RoundsAre DEF Seeded
    <3> HIDE DEF C
    <3> QED BY <1>1, <2>1, <2>2, <3>1
  <2> QED BY <2>3, <2>4
<1>5. ASSUME NEW n \in 0 .. K - 1, NEW d \in Drive
      PROVE  /\ C[n + 1][d] <= C[n][d]
             /\ \A e \in Drive : TailOf(e) = HeadOf(d) => C[n + 1][d] <= Via(d, e, C[n][e])
  <2>1. n \in 0 .. K /\ n + 1 \in 0 .. K
    OBVIOUS
  <2>2. PICK P : P = Rounds[n] /\ Pairs(P)
    BY <1>2, <2>1
  <2>3. PICK Q : Q = Rounds[n + 1] /\ Pairs(Q) /\ Q = Improved(P)
    BY <1>2, <2>1, <2>2, RoundsAre
  <2>4. /\ C[n + 1][d] = CostBy(Q, d) /\ CostBy(Q, d) \in 0 .. Inf
        /\ \A e \in Drive : C[n][e] = CostBy(P, e)
    BY <1>1, <2>1, <2>2, <2>3, CostByIs
  <2> HIDE DEF C
  <2>5. CostBy(Q, d) <= CostBy(P, d)
    <3>1. CASE CostBy(P, d) = Inf
      BY <2>4, <3>1, ConstantsAssumption
    <3>2. CASE CostBy(P, d) # Inf
      <4>1. PICK p \in P : p[1] = d /\ p[2] = CostBy(P, d) /\ p[2] \in Nat
        BY <2>2, <3>2, CostByIs DEF Pairs
      <4>2. PICK q \in Q : q[1] = d /\ q[2] <= p[2] /\ q[2] \in Nat
        BY <2>2, <2>3, <4>1, ImprovedIs DEF Pairs
      <4>3. CostBy(Q, d) <= q[2]
        BY <2>3, <4>2, CostByIs
      <4> QED BY <2>4, <4>1, <4>2, <4>3
    <3> QED BY <3>1, <3>2
  <2>6. ASSUME NEW e \in Drive, TailOf(e) = HeadOf(d)
        PROVE  CostBy(Q, d) <= Via(d, e, CostBy(P, e))
    <3>0. CostBy(P, e) \in 0 .. Inf /\ Inf \in Nat
      BY <2>2, CostByIs, ConstantsAssumption
    <3>1. CASE CostBy(P, e) = Inf
      <4>1. Value(e[1], d) \in Nat
        BY ValueNat
      <4>2. Inf <= Via(d, e, Inf)
        BY <3>0, <4>1 DEF Via
      <4>3. Via(d, e, Inf) \in Nat
        BY <3>0, ViaMonotone
      <4> QED BY <2>4, <3>0, <3>1, <4>2, <4>3
    <3>2. CASE CostBy(P, e) # Inf
      <4>1. PICK p \in P : p[1] = e /\ p[2] = CostBy(P, e) /\ p[2] \in Nat
        BY <2>2, <3>2, CostByIs DEF Pairs
      <4>2. PICK q \in Q : q[1] = d /\ q[2] <= Via(d, p[1], p[2]) /\ q[2] \in Nat
        BY <2>2, <2>3, <2>6, <4>1, ImprovedIs DEF Pairs
      <4>3. CostBy(Q, d) <= q[2]
        BY <2>3, <4>2, CostByIs
      <4>4. Via(d, e, CostBy(P, e)) \in Nat
        BY <4>1, ViaMonotone
      <4> QED BY <2>4, <4>1, <4>2, <4>3, <4>4
    <3> QED BY <3>1, <3>2
  <2> QED BY <2>4, <2>5, <2>6
<1>6. C[K] = LeastCosts
  BY DEF LeastCosts
<1> HIDE DEF C
<1> QED BY <1>3, <1>4, <1>5, <1>6 DEF Stages

\* The drives that have left the heap for good
Done == {d \in Drive : cost[d] # Inf /\ d \notin handle}

\* No cost is below the least; after n drives have left the heap every drive has at most
\* the cost of the n-th stage.
LeastInv ==
    at # "build" =>
        /\ least \in [Drive -> 0 .. Inf]
        /\ \A g \in [Drive -> 0 .. Inf] : Potential(g) => \A d \in Drive : g[d] <= least[d]
        /\ \E C : /\ Stages(C) /\ C[Cardinality(Drive)] = least
                  /\ \A d \in Drive : C[Cardinality(Done)][d] <= cost[d]

\* No element of the heap is cheaper than a drive that has left it; and until the street
\* of the position is met, the neighbours of such a drive have been given their costs.
DijkstraInv ==
    at # "build" =>
        /\ \A d \in Drive : cost[d] <= SeedCost(d) /\ (cost[d] # Inf => Value(NoSeg, d) # Inf)
        /\ \A d \in handle : cost[d] # Inf
        /\ \A d \in Done : \A e \in heap : cost[d] <= cost[e]
        /\ ~found => \A e \in Done : \A d \in Drive :
              HeadOf(d) = TailOf(e) /\ Via(d, e, 0) # Inf => cost[d] <= Via(d, e, cost[e])

\* The street of the position is met from a drive of cost k: one of its drives costs no
\* more by way of it, and none that is not at its least can do better.
MetAt(k) ==
    /\ \E d \in Drive : Item(d) = pos.item /\ cost[d] <= k + Worth(d)
    /\ \A d \in Drive : Item(d) = pos.item => cost[d] <= least[d] \/ k + d[1].len <= least[d]
MetInv ==
    /\ at = "build" => ~found
    /\ at # "build" /\ newGraph /\ found => \E k \in Nat : MetAt(k)

\* The drives that are looked at can be driven before; until the street of the position
\* is met they are all that can, and when it is met one of them is on it.
LEMMA LookIs ==
    ASSUME NEW m, NEW look \in Looks(m)
    PROVE  /\ \A d \in look.at : d \in Drive /\ HeadOf(d) = TailOf(m) /\ Via(d, m, 0) # Inf
           /\ ~look.found => ~found /\ \A d \in Drive :
                 HeadOf(d) = TailOf(m) /\ Via(d, m, 0) # Inf => d \in look.at
           /\ look.found /\ ~found => \E d \in look.at : Item(d) = pos.item
<1> DEFINE reach(k) == {d \in Drive : d[2] = k /\ HeadOf(d) = TailOf(m) /\ Via(d, m, 0) # Inf}
           mine(k) == {d \in reach(k) : Item(d) = pos.item}
           halves == {[at |-> reach(-1) \union before \union {d}, found |-> TRUE] :
                         before \in SUBSET (reach(1) \ mine(1)), d \in mine(1)}
<1>1. look \in IF found \/ mine(-1) # {} THEN {[at |-> reach(-1), found |-> TRUE]}
               ELSE IF mine(1) = {} THEN {[at |-> reach(-1) \union reach(1), found |-> FALSE]}
               ELSE halves
  BY DEF Looks
<1>2. \A k : \A d \in reach(k) : d \in Drive /\ HeadOf(d) = TailOf(m) /\ Via(d, m, 0) # Inf
  OBVIOUS
<1>3. \A d \in Drive : HeadOf(d) = TailOf(m) /\ Via(d, m, 0) # Inf => d \in reach(-1) \union reach(1)
  BY DriveTwin
<1>4. \A k : mine(k) \subseteq reach(k) /\ \A d \in mine(k) : Item(d) = pos.item
  OBVIOUS
<1>5. look \in halves =>
         \E before \in SUBSET (reach(1) \ mine(1)), d \in mine(1) :
            look = [at |-> reach(-1) \union before \union {d}, found |-> TRUE]
  OBVIOUS
<1> HIDE DEF reach, mine, halves
<1>6. CASE found \/ mine(-1) # {}
  <2>1. look.at = reach(-1) /\ look.found = TRUE
    BY <1>1, <1>6
  <2> QED BY <1>2, <1>4, <1>6, <2>1
<1>7. CASE ~(found \/ mine(-1) # {}) /\ mine(1) = {}
  <2>1. look.at = reach(-1) \union reach(1) /\ look.found = FALSE
    BY <1>1, <1>7
  <2> QED BY <1>2, <1>3, <1>7, <2>1
<1>8. CASE ~(found \/ mine(-1) # {}) /\ mine(1) # {}
  <2>1. PICK before \in SUBSET (reach(1) \ mine(1)), d \in mine(1) :
            look = [at |-> reach(-1) \union before \union {d}, found |-> TRUE]
    BY <1>1, <1>5, <1>8
  <2>2. look.at = reach(-1) \union before \union {d} /\ look.found = TRUE
    BY <2>1
  <2>3. \A x \in look.at : x \in reach(-1) \/ x \in reach(1)
    BY <1>4, <2>2
  <2> QED BY <1>2, <1>4, <2>2, <2>3
<1> QED BY <1>6, <1>7, <1>8

\* One round takes a drive m with the least cost out of the heap and gives the drives D
\* their costs by way of it.
Round(m, D) ==
    /\ m \in handle /\ m \in Drive /\ \A d \in heap : cost[m] <= cost[d]
    /\ \A d \in D : /\ d \in Drive /\ HeadOf(d) = TailOf(m) /\ Via(d, m, 0) # Inf
                    /\ Via(d, m, cost[m]) < cost[d]
    /\ cost' = [d \in Drive |-> IF d \in D THEN Via(d, m, cost[m]) ELSE cost[d]]
    /\ from' = [d \in Drive |-> IF d \in D THEN m[1] ELSE from[d]]
    /\ handle' = (handle \ {m}) \union D /\ heap' \subseteq heap \union D
    /\ found => found'
    /\ ~found' => \A d \in Drive : HeadOf(d) = TailOf(m) /\ Via(d, m, 0) # Inf
                                      => d \in D \/ ~(Via(d, m, cost[m]) < cost[d])
    /\ found' /\ ~found => \E d \in Drive :
          /\ Item(d) = pos.item /\ HeadOf(d) = TailOf(m) /\ Via(d, m, 0) # Inf
          /\ d \in D \/ ~(Via(d, m, cost[m]) < cost[d])

\* A step of the flood is a round.
LEMMA ExtractIs ==
    ASSUME FloodType, HeapInv, Extract
    PROVE  /\ at = "flood" /\ at' = "flood"
           /\ UNCHANGED <<map, pos, dst, pending, graph, least, path, next, newGraph, moves>>
           /\ \E m, D : Round(m, D)
<1>1. /\ at = "flood" /\ at' = "flood"
      /\ UNCHANGED <<map, pos, dst, pending, graph, least, path, next, newGraph, moves>>
  BY DEF Extract, following
<1>2. PICK e \in heap : 
       /\ \A d \in heap : cost[e] <= cost[d]
       /\ LET m == Cheaper(e[1]) IN
          \E look \in Looks(m) :
             LET D == Better(m, look.at) IN
             /\ cost' = [d \in Drive |-> IF d \in D THEN Via(d, m, cost[m]) ELSE cost[d]]
             /\ from' = [d \in Drive |-> IF d \in D THEN m[1] ELSE from[d]]
             /\ found' = look.found
             /\ handle' = (handle \ {m}) \union D
             /\ heap' = (heap \ {e}) \union D
  BY DEF Extract
<1>3. PICK m : m = Cheaper(e[1])
  OBVIOUS
<1>4. PICK look \in Looks(m) :
             LET D == Better(m, look.at) IN
             /\ cost' = [d \in Drive |-> IF d \in D THEN Via(d, m, cost[m]) ELSE cost[d]]
             /\ from' = [d \in Drive |-> IF d \in D THEN m[1] ELSE from[d]]
             /\ found' = look.found
             /\ handle' = (handle \ {m}) \union D
             /\ heap' = (heap \ {e}) \union D
  BY <1>2, <1>3
<1>5. PICK D : D = Better(m, look.at)
  OBVIOUS
<1>6. m \in Drive /\ m \in handle /\ cost[m] = cost[e]
  BY <1>1, <1>2, <1>3, Guess
<1>7. \A d : d \in D <=> d \in look.at /\ Via(d, m, cost[m]) < cost[d]
  BY <1>5 DEF Better
<1>8. /\ \A d \in look.at : d \in Drive /\ HeadOf(d) = TailOf(m) /\ Via(d, m, 0) # Inf
      /\ ~look.found => ~found /\ \A d \in Drive :
            HeadOf(d) = TailOf(m) /\ Via(d, m, 0) # Inf => d \in look.at
      /\ look.found /\ ~found => \E d \in look.at : Item(d) = pos.item
  BY LookIs
<1>9. /\ cost' = [d \in Drive |-> IF d \in D THEN Via(d, m, cost[m]) ELSE cost[d]]
      /\ from' = [d \in Drive |-> IF d \in D THEN m[1] ELSE from[d]]
      /\ found' = look.found
      /\ handle' = (handle \ {m}) \union D
      /\ heap' = (heap \ {e}) \union D
  BY <1>4, <1>5
<1>10. Round(m, D)
  BY <1>2, <1>6, <1>7, <1>8, <1>9 DEF Round
<1> QED BY <1>1, <1>10

\* The drives that are done cost no more than one that comes out of the heap, and all
\* others no less.
LEMMA HandleLeast ==
    ASSUME FloodType, HeapInv, CostInv, DijkstraInv, at # "build",
           NEW m \in handle, \A d \in heap : cost[m] <= cost[d]
    PROVE  \A d \in Drive : IF d \in Done THEN cost[d] <= cost[m] ELSE cost[m] <= cost[d]
<1>1. m \in Drive /\ handle \subseteq Drive /\ heap \subseteq Drive
      /\ \A d \in Drive : cost[d] \in Nat /\ cost[d] <= Inf
  BY DEF FloodType, CostInv
<1>2. ASSUME NEW d \in Done PROVE cost[d] <= cost[m]
  <2>1. \A e \in heap : cost[d] <= cost[e]
    BY DEF DijkstraInv
  <2>2. CASE m \in heap
    BY <2>1, <2>2
  <2>3. CASE m \notin heap
    <3>1. Twin(m) \in heap /\ cost[Twin(m)] = cost[m]
      BY <2>3 DEF HeapInv
    <3> QED BY <2>1, <3>1
  <2> QED BY <2>2, <2>3
<1>3. ASSUME NEW d \in Drive, d \notin Done PROVE cost[m] <= cost[d]
  <2>1. CASE d \notin handle
    <3>1. cost[d] = Inf
      BY <1>3, <2>1 DEF Done
    <3> QED BY <1>1, <3>1
  <2>2. CASE d \in handle /\ d \notin heap
    <3>1. Twin(d) \in heap /\ cost[Twin(d)] = cost[d]
      BY <2>2 DEF HeapInv
    <3> QED BY <3>1
  <2>3. CASE d \in heap
    BY <2>3
  <2> QED BY <2>1, <2>2, <2>3
<1> QED BY <1>2, <1>3

\* A drive that a round makes cheaper costs no less than the one that is taken out; the
\* drives that were done are done still, and so is that one.
LEMMA RoundKeeps ==
    ASSUME GraphInv, FloodType, HeapInv, CostInv, DijkstraInv, at # "build",
           UNCHANGED <<map, dst, graph>>, NEW m, NEW D, Round(m, D)
    PROVE  /\ Drive' = Drive /\ m \notin D /\ m \notin Done /\ Done' = Done \union {m}
           /\ \A d \in Drive : cost'[d] \in Nat /\ cost'[d] <= cost[d]
           /\ \A d \in D : cost'[d] = Via(d, m, cost[m]) /\ cost[m] <= cost'[d]
           /\ \A d \in Drive \ D : cost'[d] = cost[d]
<1>1. /\ m \in handle /\ m \in Drive /\ \A d \in heap : cost[m] <= cost[d]
      /\ \A d \in D : /\ d \in Drive /\ HeadOf(d) = TailOf(m) /\ Via(d, m, 0) # Inf
                      /\ Via(d, m, cost[m]) < cost[d]
      /\ cost' = [d \in Drive |-> IF d \in D THEN Via(d, m, cost[m]) ELSE cost[d]]
      /\ handle' = (handle \ {m}) \union D
  BY DEF Round
<1>2. Drive' = Drive /\ cost \in [Drive -> Nat] /\ handle \subseteq Drive /\ cost[m] \in Nat
  BY <1>1 DEF Drive, FloodType
<1>3. \A d \in D : Via(d, m, cost[m]) \in Nat /\ cost[m] <= Via(d, m, cost[m])
  BY <1>1, <1>2, ViaUp
<1>4. \A d \in Drive : cost'[d] \in Nat /\ cost'[d] <= cost[d]
  BY <1>1, <1>2, <1>3
<1>5. \A d \in D : cost'[d] = Via(d, m, cost[m]) /\ cost[m] <= cost'[d]
  BY <1>1, <1>3
<1>6. \A d \in Drive \ D : cost'[d] = cost[d]
  BY <1>1
<1>7. m \notin D /\ m \notin Done
  BY <1>1, <1>2, <1>3 DEF Done
<1>8. \A d \in Done : d \notin D
  <2> SUFFICES ASSUME NEW d \in Done, d \in D PROVE FALSE
    OBVIOUS
  <2>2. cost[d] <= cost[m]
    BY <1>1, HandleLeast DEF Done
  <2>3. cost[d] \in Nat
    BY <1>1, <1>2
  <2> QED BY <1>1, <1>2, <1>3, <2>2, <2>3
<1>9. cost[m] # Inf
  BY <1>1 DEF DijkstraInv
<1>10. Done' = {d \in Drive : cost'[d] # Inf /\ d \notin handle'}
  BY <1>2 DEF Done
<1>11. \A d \in D : d \in handle'
  BY <1>1
<1>12. \A d \in Drive \ D : d \in handle' <=> d \in handle /\ d # m
  BY <1>1
<1>13. Done' = Done \union {m}
  BY <1>1, <1>6, <1>7, <1>8, <1>9, <1>10, <1>11, <1>12 DEF Done
<1> QED BY <1>2, <1>4, <1>5, <1>6, <1>7, <1>13

\* What the flood goes by changes only with the map, the destination and the graph.
LEMMA FloodSame ==
    ASSUME UNCHANGED <<map, dst, graph>>
    PROVE  /\ Drive' = Drive
           /\ \A d : SeedCost(d)' = SeedCost(d)
           /\ \A s, d : Value(s, d)' = Value(s, d)
           /\ \A d, e, c : Via(d, e, c)' = Via(d, e, c)
           /\ \A g : Potential(g)' <=> Potential(g)
           /\ \A C : Stages(C)' <=> Stages(C)
<1>1. Drive' = Drive
  BY DEF Drive
<1>2. \A s, d : Value(s, d)' = Value(s, d)
  BY DEF Value, Restricted, Open, RightWay, TailOf
<1>3. \A d : SeedCost(d)' = SeedCost(d)
  BY <1>2 DEF SeedCost, Before, Item
<1>4. \A d, e, c : Via(d, e, c)' = Via(d, e, c)
  BY <1>2 DEF Via, Item
<1>5. \A d : HeadOf(d)' = HeadOf(d) /\ TailOf(d)' = TailOf(d)
  BY DEF HeadOf, TailOf
<1>6. ASSUME NEW g PROVE Potential(g)' <=> Potential(g)
  BY <1>1, <1>3, <1>4, <1>5 DEF Potential
<1>7. ASSUME NEW C PROVE Stages(C)' <=> Stages(C)
  BY <1>1, <1>3, <1>4, <1>5 DEF Stages
<1> QED BY <1>1, <1>2, <1>3, <1>4, <1>6, <1>7

\* A drive that is closed, restricted or of the length INT_MAX has no way.
LEMMA ViaValue ==
    ASSUME GraphInv, NEW d \in Drive, NEW e, NEW c \in Nat, Via(d, e, c) < Inf
    PROVE  Value(NoSeg, d) # Inf
<1>1. Value(e[1], d) # Inf /\ Via(d, e, c) = c + Value(e[1], d)
  BY ConstantsAssumption DEF Via
<1>2. Value(e[1], d) \in Nat /\ d[1].len \in Nat /\ Penalty \in Nat
  BY ValueNat, DriveTwin, ConstantsAssumption DEF GraphInv, Segment
<1>3. Open(d) /\ TailOf(d) \notin Restricted /\ d[1].len <= Value(e[1], d)
  BY <1>1, <1>2 DEF Value
<1>4. d[1].len < Inf
  BY <1>1, <1>2, <1>3, ConstantsAssumption
<1>5. d[1] # NoSeg
  <2>1. Segment(d[1])
    BY DriveTwin DEF GraphInv
  <2>2. "item" \in DOMAIN d[1] /\ "item" \notin DOMAIN NoSeg
    BY <2>1 DEF Segment, NoSeg
  <2> QED BY <2>2
<1>6. Value(NoSeg, d) = d[1].len + 0
  BY <1>3, <1>5 DEF Value
<1> QED BY <1>2, <1>4, <1>6, ConstantsAssumption

\* Every step keeps the order of Dijkstra's algorithm.
LEMMA DijkstraNext ==
    GraphInv /\ FloodType /\ HeapInv /\ CostInv /\ DijkstraInv /\ [Next]_vars => DijkstraInv'
<1> SUFFICES ASSUME GraphInv, FloodType, HeapInv, CostInv, DijkstraInv, [Next]_vars
             PROVE  DijkstraInv'
  OBVIOUS
<1> USE DEF flooding, following
<1>0. ASSUME UNCHANGED <<map, dst, graph, cost, handle, heap, found>>, at # "build"
      PROVE  DijkstraInv'
  <2>1. \A d : HeadOf(d)' = HeadOf(d) /\ TailOf(d)' = TailOf(d)
    BY <1>0 DEF HeadOf, TailOf
  <2>2. Done' = Done
    BY <1>0 DEF Done, Drive
  <2> QED BY <1>0, <2>1, <2>2, FloodSame DEF DijkstraInv
<1>1. CASE ProcessRestrictions
  BY <1>1 DEF ProcessRestrictions, DijkstraInv
<1>2. CASE Seed
  <2>1. /\ at' = "flood" /\ UNCHANGED <<map, dst, graph>> /\ handle' = Seeds
        /\ cost' = [d \in Drive |-> SeedCost(d)]
    BY <1>2 DEF Seed
  <2>2. /\ Drive' = Drive
        /\ \A d : SeedCost(d)' = SeedCost(d)
        /\ \A s, d : Value(s, d)' = Value(s, d)
    BY <2>1, FloodSame
  <2>3. Done' = {}
    BY <2>1, <2>2 DEF Done, Seeds
  <2>4. \A d \in Drive : cost'[d] = SeedCost(d) /\ SeedCost(d) \in Nat
    BY <2>1, SeedCostNat
  <2>5. \A d \in Drive : SeedCost(d) # Inf => Value(NoSeg, d) # Inf
    BY DEF SeedCost
  <2>6. \A d \in handle' : cost'[d] # Inf
    BY <2>1, <2>4 DEF Seeds
  <2>7. \A d \in Drive' : cost'[d] <= SeedCost(d)' /\ (cost'[d] # Inf => Value(NoSeg, d)' # Inf)
    BY <2>2, <2>4, <2>5
  <2> QED BY <2>1, <2>3, <2>6, <2>7 DEF DijkstraInv
<1>3. CASE Extract
  <2>1. at = "flood" /\ at' = "flood" /\ UNCHANGED <<map, dst, graph>>
    BY <1>3, ExtractIs
  <2>2. PICK m, D : Round(m, D)
    BY <1>3, ExtractIs
  <2>3. /\ Drive' = Drive /\ m \notin D /\ m \notin Done /\ Done' = Done \union {m}
        /\ \A d \in Drive : cost'[d] \in Nat /\ cost'[d] <= cost[d]
        /\ \A d \in D : cost'[d] = Via(d, m, cost[m]) /\ cost[m] <= cost'[d]
        /\ \A d \in Drive \ D : cost'[d] = cost[d]
    BY <2>1, <2>2, RoundKeeps
  <2>4. /\ \A d \in Drive : SeedCost(d)' = SeedCost(d) /\ SeedCost(d) \in Nat
        /\ \A s, d : Value(s, d)' = Value(s, d)
        /\ \A d, e, c : Via(d, e, c)' = Via(d, e, c)
        /\ \A d : HeadOf(d)' = HeadOf(d) /\ TailOf(d)' = TailOf(d)
    BY <2>1, FloodSame, SeedCostNat DEF HeadOf, TailOf
  <2>5. \A d \in Drive : cost[d] \in Nat /\ cost[d] <= Inf
    BY <2>1 DEF FloodType, CostInv
  <2>6. /\ m \in handle /\ m \in Drive /\ \A d \in heap : cost[m] <= cost[d]
        /\ \A d \in D : d \in Drive /\ Via(d, m, cost[m]) < cost[d]
        /\ handle' = (handle \ {m}) \union D /\ heap' \subseteq heap \union D
        /\ found => found'
    BY <2>2 DEF Round
  <2>7. ASSUME NEW d \in Drive
        PROVE  cost'[d] <= SeedCost(d) /\ (cost'[d] # Inf => Value(NoSeg, d) # Inf)
    <3>1. cost[d] <= SeedCost(d) /\ (cost[d] # Inf => Value(NoSeg, d) # Inf)
      BY <2>1 DEF DijkstraInv
    <3>2. cost'[d] <= SeedCost(d)
      BY <2>3, <2>4, <2>5, <3>1
    <3>3. d \in D => Value(NoSeg, d) # Inf
      <4>1. d \in D => Via(d, m, cost[m]) < Inf
        BY <2>3, <2>5, <2>6, ConstantsAssumption
      <4> QED BY <2>5, <2>6, <4>1, ViaValue
    <3> QED BY <2>3, <3>1, <3>2, <3>3
  <2>8. ASSUME NEW d \in handle' PROVE cost'[d] # Inf
    <3>1. CASE d \in D
      BY <2>3, <2>5, <2>6, <3>1, ConstantsAssumption
    <3>2. CASE d \notin D
      <4>1. d \in handle /\ d \in Drive
        BY <2>6, <3>2 DEF FloodType
      <4> QED BY <2>1, <2>3, <3>2, <4>1 DEF DijkstraInv
    <3> QED BY <3>1, <3>2
  <2>9. ASSUME NEW d \in Done', NEW e \in heap' PROVE cost'[d] <= cost'[e]
    <3>1. cost[d] <= cost[m] /\ d \in Drive
      <4>1. d \in Done \/ d = m
        BY <2>3
      <4>2. d \in Done => cost[d] <= cost[m] /\ d \in Drive
        BY <2>1, <2>6, HandleLeast DEF Done
      <4> QED BY <2>5, <2>6, <4>1, <4>2
    <3>2. e \in Drive
      BY <2>6 DEF FloodType
    <3>3. cost[m] <= cost'[e]
      BY <2>3, <2>6, <3>2
    <3> QED BY <2>3, <2>5, <2>6, <3>1, <3>2, <3>3
  <2>10. ASSUME ~found', NEW e \in Done', NEW d \in Drive, HeadOf(d) = TailOf(e), Via(d, e, 0) # Inf
         PROVE  cost'[d] <= Via(d, e, cost'[e])
    <3>1. CASE e = m
      <4>1. cost'[m] = cost[m] /\ Via(d, m, cost[m]) \in Nat
        BY <2>3, <2>5, <2>6, <2>10, <3>1, ViaUp
      <4>2. d \in D \/ ~(Via(d, m, cost[m]) < cost[d])
        BY <2>2, <2>10, <3>1 DEF Round
      <4> QED BY <2>3, <2>5, <3>1, <4>1, <4>2
    <3>2. CASE e # m
      <4>1. e \in Done /\ e \in Drive /\ ~found
        BY <2>3, <2>6, <2>10, <3>2 DEF Done
      <4>2. cost[d] <= Via(d, e, cost[e]) /\ e \notin D
        <5>1. cost[d] <= Via(d, e, cost[e])
          BY <2>1, <2>10, <4>1 DEF DijkstraInv
        <5>2. e \notin D
          <6>1. e \notin handle'
            BY <2>10 DEF Done
          <6> QED BY <2>6, <6>1
        <5> QED BY <5>1, <5>2
      <4>3. Via(d, e, cost[e]) \in Nat
        BY <2>5, <2>10, <4>1, ViaUp
      <4> QED BY <2>3, <2>5, <4>1, <4>2, <4>3
    <3> QED BY <3>1, <3>2
  <2> QED BY <2>1, <2>3, <2>4, <2>7, <2>8, <2>9, <2>10 DEF DijkstraInv
<1>4. CASE Choose
  <2>1. CASE at' = "build"
    BY <2>1 DEF DijkstraInv
  <2> QED BY <1>0, <1>4, <2>1 DEF Choose
<1>5. CASE Follow \/ NewPosition
  BY <1>0, <1>5 DEF Follow, NewPosition
<1>6. CASE UNCHANGED vars
  <2>1. CASE at = "build"
    BY <1>6, <2>1 DEF vars, DijkstraInv
  <2> QED BY <1>0, <1>6, <2>1 DEF vars
<1> QED BY <1>1, <1>2, <1>3, <1>4, <1>5, <1>6 DEF Next

\* The stages only go down.
LEMMA StagesFall ==
    ASSUME Cardinality(Drive) \in Nat, NEW C, Stages(C), NEW d \in Drive,
           NEW n \in 0 .. Cardinality(Drive)
    PROVE  C[Cardinality(Drive)][d] <= C[n][d]
<1> DEFINE K == Cardinality(Drive)
           ok == {k \in Nat : k <= K => C[K][d] <= C[K - k][d]}
<1>0. \A i \in 0 .. K : C[i][d] \in 0 .. Inf
  BY DEF Stages
<1>1. 0 \in ok
  BY <1>0, ConstantsAssumption
<1>2. ASSUME NEW k \in Nat, k \in ok PROVE k + 1 \in ok
  <2> SUFFICES ASSUME k + 1 <= K PROVE C[K][d] <= C[K - (k + 1)][d]
    OBVIOUS
  <2>1. K - (k + 1) \in 0 .. K - 1 /\ K - (k + 1) + 1 = K - k /\ K \in 0 .. K /\ K - k \in 0 .. K
    OBVIOUS
  <2>2. C[K - k][d] <= C[K - (k + 1)][d]
    BY <2>1 DEF Stages
  <2>3. C[K][d] <= C[K - k][d]
    BY <1>2
  <2>4. C[K][d] \in Nat /\ C[K - k][d] \in Nat /\ C[K - (k + 1)][d] \in Nat
    BY <1>0, <2>1, ConstantsAssumption
  <2> HIDE DEF K
  <2> QED BY <2>2, <2>3, <2>4
<1>3. K - n \in ok
  <2> HIDE DEF ok
  <2> QED BY <1>1, <1>2, AllNat
<1>4. K - (K - n) = n /\ K - n <= K
  OBVIOUS
<1> QED BY <1>3, <1>4

\* Every step keeps the least costs.
LEMMA LeastNext ==
    ASSUME GraphInv, FloodType, FiniteInv, HeapInv, CostInv, DijkstraInv, LeastInv, [Next]_vars
    PROVE  LeastInv'
<1> USE DEF flooding, following
<1>a. IsFiniteSet(Drive) /\ Cardinality(Drive) \in Nat
  BY DriveFinite, FS_CardinalityType
<1>0. ASSUME UNCHANGED <<map, dst, graph, cost, handle, least>>, at # "build"
      PROVE  LeastInv'
  <2>1. Done' = Done
    BY <1>0 DEF Done, Drive
  <2> QED BY <1>0, <2>1, FloodSame DEF LeastInv
<1>1. CASE ProcessRestrictions
  BY <1>1 DEF ProcessRestrictions, LeastInv
<1>2. CASE Seed
  <2>1. /\ at' = "flood" /\ UNCHANGED <<map, dst, graph>> /\ handle' = Seeds
        /\ cost' = [d \in Drive |-> SeedCost(d)] /\ least' = LeastCosts
    BY <1>2 DEF Seed
  <2>2. /\ Drive' = Drive
        /\ \A g : Potential(g)' <=> Potential(g)
        /\ \A C : Stages(C)' <=> Stages(C)
    BY <2>1, FloodSame
  <2>3. Done' = {}
    BY <2>1, <2>2 DEF Done, Seeds
  <2>4. Cardinality({}) = 0
    BY FS_EmptySet
  <2>5. PICK C : Stages(C) /\ C[Cardinality(Drive)] = LeastCosts
    BY <1>a, LeastBelow
  <2>6. LeastCosts \in [Drive -> 0 .. Inf]
    BY <1>a, <2>5 DEF Stages
  <2>7. \A d \in Drive : C[0][d] <= cost'[d]
    BY <2>1, <2>5 DEF Stages
  <2>8. \A g \in [Drive -> 0 .. Inf] : Potential(g) => \A d \in Drive : g[d] <= LeastCosts[d]
    BY <1>a, LeastAbove
  <2>9. \A d \in Drive : C[Cardinality(Done')][d] <= cost'[d]
    BY <2>3, <2>4, <2>7
  <2>10. \E B : /\ Stages(B)' /\ B[Cardinality(Drive')] = least'
                /\ \A d \in Drive' : B[Cardinality(Done')][d] <= cost'[d]
    BY <2>1, <2>2, <2>5, <2>9
  <2> QED BY <2>1, <2>2, <2>6, <2>8, <2>10 DEF LeastInv
<1>3. CASE Extract
  <2>1. at = "flood" /\ at' = "flood" /\ UNCHANGED <<map, dst, graph, least>>
    BY <1>3, ExtractIs
  <2>2. PICK m, D : Round(m, D)
    BY <1>3, ExtractIs
  <2>3. /\ Drive' = Drive /\ m \notin D /\ m \notin Done /\ Done' = Done \union {m}
        /\ \A d \in Drive : cost'[d] \in Nat /\ cost'[d] <= cost[d]
        /\ \A d \in D : cost'[d] = Via(d, m, cost[m]) /\ cost[m] <= cost'[d]
        /\ \A d \in Drive \ D : cost'[d] = cost[d]
    BY <2>1, <2>2, RoundKeeps
  <2>4. /\ \A g : Potential(g)' <=> Potential(g)
        /\ \A C : Stages(C)' <=> Stages(C)
    BY <2>1, FloodSame
  <2>5. m \in Drive /\ \A d \in D : d \in Drive /\ HeadOf(d) = TailOf(m)
    BY <2>2 DEF Round
  <2>6. PICK C : /\ Stages(C) /\ C[Cardinality(Drive)] = least
                 /\ \A d \in Drive : C[Cardinality(Done)][d] <= cost[d]
    BY <2>1 DEF LeastInv
  <2>7. /\ IsFiniteSet(Done) /\ Cardinality(Done) \in Nat
        /\ Cardinality(Done') = Cardinality(Done) + 1 /\ Cardinality(Done') <= Cardinality(Drive)
    <3>1. Done \subseteq Drive /\ Done' \subseteq Drive
      BY <2>3, <2>5 DEF Done
    <3>2. IsFiniteSet(Done)
      BY <1>a, <3>1, FS_Subset
    <3>3. Cardinality(Done') = Cardinality(Done) + 1
      BY <2>3, <3>2, FS_AddElement
    <3> QED BY <1>a, <3>1, <3>2, <3>3, FS_Subset, FS_CardinalityType
  <2>8. PICK n : n = Cardinality(Done)
    OBVIOUS
  <2>9. n \in 0 .. Cardinality(Drive) - 1 /\ n \in 0 .. Cardinality(Drive)
        /\ n + 1 \in 0 .. Cardinality(Drive)
    BY <1>a, <2>7, <2>8
  <2>10. ASSUME NEW d \in Drive PROVE C[n + 1][d] <= cost'[d]
    <3>1. C[n][d] \in Nat /\ C[n + 1][d] \in Nat /\ C[n][m] \in Nat /\ cost[m] \in Nat /\ cost[d] \in Nat
      BY <2>1, <2>5, <2>6, <2>9, ConstantsAssumption DEF Stages, FloodType
    <3>2. C[n][d] <= cost[d] /\ C[n][m] <= cost[m]
      BY <2>5, <2>6, <2>8
    <3>3. C[n + 1][d] <= C[n][d]
      BY <2>6, <2>9 DEF Stages
    <3>4. CASE d \notin D
      BY <2>3, <3>1, <3>2, <3>3, <3>4
    <3>5. CASE d \in D
      <4>1. C[n + 1][d] <= Via(d, m, C[n][m])
        BY <2>5, <2>6, <2>9, <3>5 DEF Stages
      <4>2. Via(d, m, C[n][m]) \in Nat /\ Via(d, m, C[n][m]) <= Via(d, m, cost[m])
        BY <3>1, <3>2, ViaMonotone
      <4>3. Via(d, m, cost[m]) \in Nat
        BY <3>1, ViaMonotone
      <4> QED BY <2>3, <3>1, <3>5, <4>1, <4>2, <4>3
    <3> QED BY <3>4, <3>5
  <2>11. \E B : /\ Stages(B)' /\ B[Cardinality(Drive')] = least'
                /\ \A d \in Drive' : B[Cardinality(Done')][d] <= cost'[d]
    BY <2>1, <2>3, <2>4, <2>6, <2>7, <2>8, <2>10
  <2>12. /\ least' \in [Drive' -> 0 .. Inf]
         /\ \A g \in [Drive' -> 0 .. Inf] : Potential(g)' => \A d \in Drive' : g[d] <= least'[d]
    BY <2>1, <2>3, <2>4 DEF LeastInv
  <2> QED BY <2>11, <2>12 DEF LeastInv
<1>4. CASE Choose
  <2>1. CASE at' = "build"
    BY <2>1 DEF LeastInv
  <2> QED BY <1>0, <1>4, <2>1 DEF Choose
<1>5. CASE Follow \/ NewPosition
  BY <1>0, <1>5 DEF Follow, NewPosition
<1>6. CASE UNCHANGED vars
  <2>1. CASE at = "build"
    BY <1>6, <2>1 DEF vars, LeastInv
  <2> QED BY <1>0, <1>6, <2>1 DEF vars
<1> QED BY <1>1, <1>2, <1>3, <1>4, <1>5, <1>6 DEF Next

\* No cost is below the least.
LEMMA NotBelowLeast ==
    ASSUME FiniteInv, FloodType, LeastInv, at # "build"
    PROVE  \A d \in Drive : least[d] \in 0 .. Inf /\ least[d] <= cost[d]
<1>1. IsFiniteSet(Drive) /\ Cardinality(Drive) \in Nat
  BY DriveFinite, FS_CardinalityType
<1>2. PICK C : /\ Stages(C) /\ C[Cardinality(Drive)] = least
               /\ \A d \in Drive : C[Cardinality(Done)][d] <= cost[d]
  BY DEF LeastInv
<1>3. Cardinality(Done) \in 0 .. Cardinality(Drive)
  <2>1. Done \in SUBSET Drive
    BY DEF Done
  <2>2. IsFiniteSet(Done) /\ Cardinality(Done) <= Cardinality(Drive)
    BY <1>1, <2>1, FS_Subset
  <2> QED BY <1>1, <2>2, FS_CardinalityType
<1>4. ASSUME NEW d \in Drive PROVE least[d] \in 0 .. Inf /\ least[d] <= cost[d]
  <2>1. least[d] <= C[Cardinality(Done)][d]
    BY <1>1, <1>2, <1>3, StagesFall
  <2>2. least[d] \in 0 .. Inf /\ C[Cardinality(Done)][d] \in 0 .. Inf /\ cost[d] \in Nat
    BY <1>2, <1>3 DEF LeastInv, Stages, FloodType
  <2> QED BY <1>2, <2>1, <2>2, ConstantsAssumption
<1> QED BY <1>4

\* A drive without a way has none by definition either.
LEMMA LeastHasValue ==
    ASSUME GraphInv, FloodType, LeastInv, at # "build", NEW d \in Drive, least[d] # Inf
    PROVE  Value(NoSeg, d) # Inf
<1> DEFINE g == [e \in Drive |-> IF Value(NoSeg, e) = Inf THEN Inf ELSE 0]
<1>0. Inf \in Nat
  BY ConstantsAssumption
<1>1. g \in [Drive -> 0 .. Inf]
  BY <1>0
<1>2. \A x \in Drive : g[x] = IF Value(NoSeg, x) = Inf THEN Inf ELSE 0
  OBVIOUS
<1> HIDE DEF g
<1>3. ASSUME NEW x \in Drive PROVE g[x] <= SeedCost(x)
  <2>1. SeedCost(x) \in Nat
    BY SeedCostNat
  <2>2. Value(NoSeg, x) = Inf => SeedCost(x) = Inf
    BY DEF SeedCost
  <2> QED BY <1>0, <1>2, <2>1, <2>2
<1>4. ASSUME NEW x \in Drive, NEW e \in Drive PROVE g[x] <= Via(x, e, g[e])
  <2>1. g[e] \in Nat /\ g[x] \in {0, Inf}
    BY <1>0, <1>2
  <2>2. Via(x, e, g[e]) \in Nat
    BY <2>1, ViaMonotone
  <2>3. CASE Value(NoSeg, x) = Inf
    <3>1. ~(Via(x, e, g[e]) < Inf)
      BY <2>1, <2>3, ViaValue
    <3> QED BY <1>0, <2>1, <2>2, <3>1
  <2>4. CASE Value(NoSeg, x) # Inf
    BY <1>0, <1>2, <2>2, <2>4
  <2> QED BY <2>3, <2>4
<1>5. Potential(g)
  BY <1>3, <1>4 DEF Potential
<1>6. g[d] <= least[d] /\ least[d] \in 0 .. Inf
  BY <1>1, <1>5 DEF LeastInv
<1> QED BY <1>0, <1>2, <1>6

\* While the flood looks at all neighbours: when the drives that are done cost k at most,
\* and the others k at least, a drive that is not at its least costs at least k and its
\* own length.
LEMMA AtLeast ==
    ASSUME GraphInv, FloodType, LeastInv, DijkstraInv, CostInv, at # "build", ~found,
           NEW k \in 0 .. Inf,
           \A d \in Drive : IF d \in Done THEN cost[d] <= k ELSE k <= cost[d]
    PROVE  \A d \in Drive : cost[d] <= least[d] \/ k + d[1].len <= least[d]
<1> DEFINE reach(d) == k + d[1].len
           g == [d \in Drive |-> IF cost[d] <= reach(d) THEN cost[d] ELSE reach(d)]
<1>0. Inf \in Nat /\ \A d \in Drive : d[1].len \in Nat /\ cost[d] \in 0 .. Inf /\ reach(d) \in Nat
  BY DriveTwin, ConstantsAssumption DEF GraphInv, Segment, FloodType, CostInv
<1>1. \A d \in Drive : g[d] = IF cost[d] <= reach(d) THEN cost[d] ELSE reach(d)
  OBVIOUS
<1>2. \A d \in Drive : g[d] \in 0 .. Inf /\ g[d] <= cost[d] /\ g[d] <= reach(d)
  BY <1>0
<1>3. g \in [Drive -> 0 .. Inf]
  BY <1>2
<1>4. \A d \in Drive : reach(d) = k + d[1].len
  OBVIOUS
<1> HIDE DEF g, reach
<1>5. ASSUME NEW d \in Drive PROVE g[d] <= SeedCost(d)
  <2>1. cost[d] <= SeedCost(d) /\ SeedCost(d) \in Nat
    BY SeedCostNat DEF DijkstraInv
  <2> QED BY <1>0, <1>2, <2>1
<1>6. ASSUME NEW d \in Drive, NEW e \in Drive, TailOf(e) = HeadOf(d)
      PROVE  g[d] <= Via(d, e, g[e])
  <2>1. CASE Item(d) = Item(e) \/ Value(e[1], d) = Inf
    BY <1>0, <1>2, <2>1 DEF Via
  <2>2. CASE ~(Item(d) = Item(e) \/ Value(e[1], d) = Inf)
    <3>1. Value(e[1], d) \in Nat /\ \A c \in Nat : Via(d, e, c) = c + Value(e[1], d)
      BY <2>2, ValueNat DEF Via
    <3>2. CASE e \in Done
      <4>1. g[e] = cost[e]
        BY <1>0, <1>1, <1>4, <3>2
      <4>2. Via(d, e, 0) # Inf
        BY <2>2, <3>1
      <4>3. cost[d] <= Via(d, e, cost[e])
        BY <1>6, <3>2, <4>2 DEF DijkstraInv
      <4>4. Via(d, e, g[e]) \in Nat
        BY <1>2, ViaMonotone
      <4> QED BY <1>0, <1>2, <4>1, <4>3, <4>4
    <3>3. CASE e \notin Done
      <4>1. k <= g[e]
        BY <1>0, <1>1, <1>4, <3>3
      <4>2. d[1].len <= Value(e[1], d)
        <5>1. Penalty \in Nat /\ d[1].len \in Nat
          BY <1>0, ConstantsAssumption
        <5> QED BY <2>2, <5>1 DEF Value
      <4>3. reach(d) <= Via(d, e, g[e])
        BY <1>0, <1>2, <1>4, <3>1, <4>1, <4>2
      <4> QED BY <1>0, <1>2, <3>1, <4>3
    <3> QED BY <3>2, <3>3
  <2> QED BY <2>1, <2>2
<1>7. Potential(g)
  BY <1>5, <1>6 DEF Potential
<1>8. \A d \in Drive : g[d] <= least[d]
  BY <1>3, <1>7 DEF LeastInv
<1> QED BY <1>1, <1>4, <1>8

\* Every step keeps what is known of the street of the position.
LEMMA MetNext ==
    ASSUME GraphInv, FloodType, FiniteInv, HeapInv, CostInv, DijkstraInv, LeastInv, TypeInv,
           MetInv, [Next]_vars
    PROVE  MetInv'
<1> USE DEF flooding, following
<1>0. ASSUME UNCHANGED <<pos, graph, cost, least, newGraph, found>>, at # "build", at' # "build"
      PROVE  MetInv'
  BY <1>0 DEF MetInv, MetAt, Worth, Item, Drive
<1>1. CASE ProcessRestrictions
  BY <1>1 DEF ProcessRestrictions, MetInv
<1>2. CASE Seed
  BY <1>2 DEF Seed, MetInv
<1>3. CASE Extract
  <2>1. at = "flood" /\ at' = "flood" /\ UNCHANGED <<map, pos, dst, graph, least, newGraph>>
    BY <1>3, ExtractIs
  <2>2. PICK m, D : Round(m, D)
    BY <1>3, ExtractIs
  <2>3. /\ Drive' = Drive
        /\ \A d \in Drive : cost'[d] \in Nat /\ cost'[d] <= cost[d]
        /\ \A d \in D : cost'[d] = Via(d, m, cost[m])
    BY <2>1, <2>2, RoundKeeps
  <2>4. /\ \A d : Item(d)' = Item(d) /\ Worth(d)' = Worth(d)
        /\ \A d \in Drive : cost[d] \in 0 .. Inf /\ least[d] \in Nat
                            /\ d[1].len \in Nat /\ Worth(d) \in Nat
    <3>1. \A d : Item(d)' = Item(d) /\ Worth(d)' = Worth(d)
      BY DEF Item, Worth
    <3>2. \A d \in Drive : cost[d] \in 0 .. Inf /\ least[d] \in Nat
      BY <2>1, NotBelowLeast, ConstantsAssumption DEF FloodType, CostInv
    <3>3. \A d \in Drive : d[1].len \in Nat /\ Worth(d) \in Nat
      BY DriveTwin, ConstantsAssumption DEF GraphInv, Segment, Worth
    <3> QED BY <3>1, <3>2, <3>3
  <2>5. SUFFICES ASSUME newGraph, found' PROVE \E k \in Nat : MetAt(k)'
    BY <2>1 DEF MetInv
  <2>6. ASSUME NEW k \in Nat,
               \E d \in Drive : Item(d) = pos.item /\ cost'[d] <= k + Worth(d),
               \A d \in Drive : Item(d) = pos.item =>
                   cost[d] <= least[d] \/ k + d[1].len <= least[d]
        PROVE  MetAt(k)'
    <3>1. \E d \in Drive' : Item(d)' = pos'.item /\ cost'[d] <= k + Worth(d)'
      BY <2>1, <2>3, <2>4, <2>6
    <3>2. \A d \in Drive : cost[d] <= least[d] => cost'[d] <= least[d]
      BY <2>3, <2>4
    <3>3. \A d \in Drive' : Item(d)' = pos'.item =>
              cost'[d] <= least'[d] \/ k + d[1].len <= least'[d]
      BY <2>1, <2>3, <2>4, <2>6, <3>2
    <3> QED BY <3>1, <3>3 DEF MetAt
  <2>7. CASE found
    <3>1. PICK k \in Nat : MetAt(k)
      BY <2>1, <2>5, <2>7 DEF MetInv
    <3>2. PICK d \in Drive : Item(d) = pos.item /\ cost[d] <= k + Worth(d)
      BY <3>1 DEF MetAt
    <3>3. cost'[d] <= k + Worth(d)
      BY <2>3, <2>4, <3>2
    <3>4. \A x \in Drive : Item(x) = pos.item => cost[x] <= least[x] \/ k + x[1].len <= least[x]
      BY <3>1 DEF MetAt
    <3> QED BY <2>6, <3>2, <3>3, <3>4
  <2>8. CASE ~found
    <3>1. m \in Drive /\ m \in handle /\ \A d \in heap : cost[m] <= cost[d]
      BY <2>2 DEF Round
    <3>2. cost[m] \in 0 .. Inf /\ cost[m] \in Nat
      BY <2>4, <3>1, ConstantsAssumption
    <3>3. \A d \in Drive : IF d \in Done THEN cost[d] <= cost[m] ELSE cost[m] <= cost[d]
      BY <2>1, <3>1, HandleLeast
    <3>4. \A d \in Drive : cost[d] <= least[d] \/ cost[m] + d[1].len <= least[d]
      BY <2>1, <2>8, <3>2, <3>3, AtLeast
    <3>5. PICK d \in Drive : /\ Item(d) = pos.item /\ Via(d, m, 0) # Inf
                             /\ d \in D \/ ~(Via(d, m, cost[m]) < cost[d])
      BY <2>2, <2>5, <2>8 DEF Round
    <3>6. Via(d, m, cost[m]) \in Nat /\ cost'[d] <= Via(d, m, cost[m])
      BY <2>3, <2>4, <3>2, <3>5, ViaUp
    <3>7. Via(d, m, cost[m]) <= cost[m] + Worth(d)
      <4>1. Value(m[1], d) <= Worth(d) /\ Value(m[1], d) \in Nat
        <5>1. Penalty \in Nat /\ d[1].len \in Nat
          BY <2>4, ConstantsAssumption
        <5>2. Value(m[1], d) # Inf
          BY <3>5 DEF Via
        <5> QED BY <5>1, <5>2, ValueNat DEF Value, Worth
      <4>2. Via(d, m, cost[m]) = cost[m] + Value(m[1], d)
        BY <3>5 DEF Via
      <4> QED BY <2>4, <3>2, <4>1, <4>2
    <3>8. cost'[d] <= cost[m] + Worth(d)
      BY <2>3, <2>4, <3>2, <3>6, <3>7
    <3> QED BY <2>6, <3>2, <3>4, <3>5, <3>8
  <2> QED BY <2>7, <2>8
<1>4. CASE Choose
  <2>1. CASE at' = "build"
    BY <1>4, <2>1 DEF Choose, MetInv
  <2> QED BY <1>0, <1>4, <2>1 DEF Choose
<1>5. CASE Follow
  BY <1>0, <1>5 DEF Follow
<1>6. CASE NewPosition
  BY <1>6 DEF NewPosition, MetInv
<1>7. CASE UNCHANGED vars
  <2>1. CASE at = "build"
    BY <1>7, <2>1 DEF vars, MetInv
  <2> QED BY <1>0, <1>7, <2>1 DEF vars
<1> QED BY <1>1, <1>2, <1>3, <1>4, <1>5, <1>6, <1>7 DEF Next

-----------------------------------------------------------------------------
(* The beginning of the path *)

\* A drive of the street of the position on which a way may begin
Startable(d) ==
    d \in Drive /\ Item(d) = pos.item /\ Value(NoSeg, d) # Inf /\ cost[d] # Inf

ChosenInv ==
    /\ at = "follow" => heap = {}
    /\ at = "follow" /\ path = <<>> =>
          Startable(next) /\ \A d : Startable(d) => StartCost(next) <= StartCost(d)

\* What is left of a drive costs no more than all of it, and no less than without its own
\* length.
LEMMA LeftIs ==
    ASSUME GraphInv, LenInv, FloodType, at # "build", NEW d \in Drive
    PROVE  /\ (Value(NoSeg, d) * Before(d, pos)) \div 100 \in 0 .. Inf
           /\ Value(NoSeg, d) # Inf => (Value(NoSeg, d) * Before(d, pos)) \div 100 <= d[1].len
           /\ Left(d) \in Int /\ Left(d) <= cost[d] /\ 0 - Inf <= Left(d)
           /\ Around(d) \in Nat /\ Around(d) <= TurnAround
           /\ StartCost(d) = Left(d) + Around(d) /\ StartCost(d) \in Int
<1> DEFINE part == (Value(NoSeg, d) * Before(d, pos)) \div 100
<1>1. d[1] \in graph /\ d[1].len \in Nat /\ Inf \in Nat /\ TurnAround \in Nat /\ cost[d] \in Nat
  BY DriveTwin, ConstantsAssumption DEF GraphInv, Segment, FloodType
<1>2. d[1].len <= Inf
  BY <1>1, FS_CardinalityType DEF LenInv
<1>3. Value(NoSeg, d) \in {d[1].len, Inf}
  <2>1. ~ (d[1].limited /\ NoSeg # NoSeg /\ ~NoSeg.limited)
    OBVIOUS
  <2>2. Value(NoSeg, d) \in {d[1].len + 0, Inf}
    BY <2>1 DEF Value
  <2> QED BY <1>1, <2>2
<1>4. Before(d, pos) \in 0 .. 100
  <2>1. pos.percent \in 0 .. 100
    BY ConstantsAssumption DEF FloodType, Positions
  <2> QED BY <2>1 DEF Before
<1>5. part \in Nat /\ part <= Value(NoSeg, d)
  BY <1>1, <1>3, <1>4, Part
<1>6. Left(d) = cost[d] - part
  BY DEF Left
<1>7. Around(d) \in Nat /\ Around(d) <= TurnAround
  BY <1>1 DEF Around
<1> HIDE DEF part
<1>8. part \in 0 .. Inf /\ (Value(NoSeg, d) # Inf => part <= d[1].len)
  BY <1>1, <1>2, <1>3, <1>5
<1>9. Left(d) \in Int /\ Left(d) <= cost[d] /\ 0 - Inf <= Left(d)
  BY <1>1, <1>6, <1>8
<1>10. StartCost(d) = Left(d) + Around(d)
  BY DEF StartCost
<1> QED BY <1>7, <1>8, <1>9, <1>10 DEF part

\* When a way may begin in a direction there is a cheapest one, which costs no more.
LEMMA StartsIs ==
    ASSUME GraphInv, LenInv, FloodType, at # "build", NEW k \in {1, -1}
    PROVE  /\ \A s \in Starts(k) : Startable(s)
           /\ \A d : Startable(d) /\ d[2] = k =>
                 Starts(k) # {} /\ \A s \in Starts(k) : StartCost(s) <= StartCost(d)
<1> DEFINE mine == {d \in Drive : d[2] = k /\ Item(d) = pos.item
                                  /\ Value(NoSeg, d) # Inf /\ cost[d] # Inf}
           S == {Left(d) : d \in mine}
<1>1. Starts(k) = {d \in mine : \A e \in mine : Left(d) <= Left(e)}
  BY DEF Starts
<1>2. \A d : d \in mine <=> Startable(d) /\ d[2] = k
  BY DEF Startable
<1>3. \A d \in mine : Left(d) \in Int /\ 0 - Inf <= Left(d)
  BY LeftIs
<1>4. ASSUME mine # {} PROVE Starts(k) # {}
  <2>1. S \in SUBSET Int /\ S # {} /\ 0 - Inf \in Int /\ \A x \in S : 0 - Inf <= x
    BY <1>3, <1>4, ConstantsAssumption
  <2> HIDE DEF mine
  <2>2. Min(S) \in S /\ \A x \in S : Min(S) <= x
    <3> HIDE DEF S
    <3> QED BY <2>1, MinInt
  <2>3. PICK d \in mine : Left(d) = Min(S)
    BY <2>2
  <2>4. \A e \in mine : Left(d) <= Left(e)
    BY <2>2, <2>3
  <2> QED BY <1>1, <2>4
<1>5. ASSUME NEW d \in mine, NEW s \in Starts(k) PROVE StartCost(s) <= StartCost(d)
  <2>1. s \in mine /\ Left(s) <= Left(d)
    BY <1>1
  <2>2. s[2] = d[2] /\ s \in Drive /\ d \in Drive
    BY <2>1
  <2>3. Around(s) = Around(d)
    BY <2>2 DEF Around
  <2>4. /\ Left(s) \in Int /\ Left(d) \in Int /\ Around(d) \in Nat
        /\ StartCost(s) = Left(s) + Around(s) /\ StartCost(d) = Left(d) + Around(d)
    BY <2>2, LeftIs
  <2> QED BY <2>1, <2>3, <2>4
<1> HIDE DEF mine
<1> QED BY <1>1, <1>2, <1>4, <1>5

\* Every step keeps what is known of the beginning that was chosen.
LEMMA ChosenNext ==
    ASSUME GraphInv, LenInv, FloodType, PathInv, ChosenInv, [Next]_vars
    PROVE  ChosenInv'
<1> USE DEF flooding, following
<1>0. ASSUME UNCHANGED <<map, pos, graph, cost>>
      PROVE  \A d : (Startable(d)' <=> Startable(d)) /\ StartCost(d)' = StartCost(d)
  BY <1>0 DEF Startable, StartCost, Left, Around, Value, Restricted, Before, Item, Open, RightWay, TailOf,
              Drive
<1>1. CASE Choose
  <2> SUFFICES ASSUME at' = "follow" PROVE ChosenInv'
    BY DEF ChosenInv
  <2>1. /\ at = "flood" /\ heap = {} /\ UNCHANGED <<map, pos, graph, cost, heap>> /\ next' # NoDrive
    BY <1>1 DEF Choose
  <2>2. PICK f \in OneOf(Starts(1)), b \in OneOf(Starts(-1)) :
           next' = IF b = NoDrive \/ (f # NoDrive /\ Forwards(f, b)) THEN f ELSE b
    BY <1>1 DEF Choose
  <2>3. \A k \in {1, -1} :
           /\ \A s \in Starts(k) : Startable(s)
           /\ \A d : Startable(d) /\ d[2] = k =>
                 Starts(k) # {} /\ \A s \in Starts(k) : StartCost(s) <= StartCost(d)
    BY <2>1, StartsIs
  <2>4. \A d : Startable(d) => d # NoDrive /\ d[2] \in {1, -1} /\ StartCost(d) \in Int
    <3> SUFFICES ASSUME NEW d, Startable(d)
                 PROVE  d # NoDrive /\ d[2] \in {1, -1} /\ StartCost(d) \in Int
      OBVIOUS
    <3>1. d \in Drive
      BY DEF Startable
    <3>2. d = <<d[1], d[2]>> /\ d[2] \in {1, -1}
      BY <3>1, DriveTwin
    <3>3. d # NoDrive
      BY <3>2 DEF NoDrive
    <3> QED BY <2>1, <3>1, <3>2, <3>3, LeftIs
  <2>5. /\ f # NoDrive => f \in Starts(1)
        /\ b # NoDrive => b \in Starts(-1)
        /\ Starts(1) # {} => f # NoDrive
        /\ Starts(-1) # {} => b # NoDrive
    BY <2>3, <2>4 DEF OneOf
  <2>6. \A d : Startable(d) =>
           \/ f # NoDrive /\ StartCost(f) <= StartCost(d)
           \/ b # NoDrive /\ StartCost(b) <= StartCost(d)
    BY <2>3, <2>4, <2>5
  <2>7. /\ f # NoDrive => Startable(f) /\ StartCost(f) \in Int
        /\ b # NoDrive => Startable(b) /\ StartCost(b) \in Int
    BY <2>3, <2>4, <2>5
  <2>8. f # NoDrive /\ b # NoDrive =>
           IF Forwards(f, b) THEN StartCost(f) <= StartCost(b) ELSE StartCost(b) <= StartCost(f)
    BY <2>7 DEF Forwards
  <2>9. Startable(next') /\ \A d : Startable(d) => StartCost(next') <= StartCost(d)
    <3>1. CASE next' = f /\ f # NoDrive /\ (b = NoDrive \/ Forwards(f, b))
      BY <2>4, <2>6, <2>7, <2>8, <3>1
    <3>2. CASE next' = b /\ b # NoDrive /\ (f = NoDrive \/ ~Forwards(f, b))
      BY <2>4, <2>6, <2>7, <2>8, <3>2
    <3> QED BY <2>1, <2>2, <3>1, <3>2
  <2>10. Startable(next)' /\ \A d : Startable(d)' => StartCost(next)' <= StartCost(d)'
    <3>1. \A d : (Startable(d)' <=> Startable(d)) /\ StartCost(d)' = StartCost(d)
      BY <1>0, <2>1
    <3>2. PICK n : n = next'
      OBVIOUS
    <3>3. (Startable(next)' <=> Startable(n)) /\ StartCost(next)' = StartCost(n)
      BY <2>1, <3>2 DEF Startable, StartCost, Left, Around, Value, Restricted, Before, Item,
                        Open, TailOf, Drive
    <3> QED BY <2>9, <3>1, <3>2, <3>3
  <2> QED BY <2>1, <2>10 DEF ChosenInv
<1>2. CASE Follow
  <2>1. at = "follow" /\ path' = Append(path, next) /\ heap' = heap
    BY <1>2 DEF Follow
  <2>2. path' # <<>>
    BY <2>1 DEF PathInv
  <2> QED BY <2>1, <2>2 DEF ChosenInv
<1>3. CASE ProcessRestrictions \/ Seed \/ Extract \/ NewPosition
  BY <1>3 DEF ProcessRestrictions, Seed, Extract, NewPosition, ChosenInv
<1>4. CASE UNCHANGED vars
  <2>1. UNCHANGED <<map, pos, graph, cost, heap, at, path, next>>
    BY <1>4 DEF vars
  <2>2. \A d : (Startable(d)' <=> Startable(d)) /\ StartCost(d)' = StartCost(d)
    BY <1>0, <2>1
  <2>3. (Startable(next)' <=> Startable(next)) /\ StartCost(next)' = StartCost(next)
    BY <2>1, <2>2
  <2> QED BY <2>1, <2>2, <2>3 DEF ChosenInv
<1> QED BY <1>1, <1>2, <1>3, <1>4 DEF Next

-----------------------------------------------------------------------------
(* Least costs: the theorems *)

LIInv == FiniteInv /\ DijkstraInv /\ LeastInv /\ MetInv /\ ChosenInv

\* The invariants of the least costs hold, too.
LEMMA LeastInvariant == Spec => [](FIInv /\ LIInv)
<1>1. Init => LIInv
  <2> SUFFICES ASSUME Init PROVE LIInv
    OBVIOUS
  <2>1. FiniteInv
    BY ConstantsAssumption DEF Init, FiniteInv
  <2>2. at = "build" /\ ~found
    BY DEF Init
  <2> QED BY <2>1, <2>2 DEF LIInv, DijkstraInv, LeastInv, MetInv, ChosenInv
<1>2. FIInv /\ LIInv /\ [Next]_vars => LIInv'
  <2> SUFFICES ASSUME FIInv, LIInv, [Next]_vars PROVE LIInv'
    OBVIOUS
  <2>1. FiniteInv' /\ DijkstraInv'
    BY FiniteNext, DijkstraNext DEF FIInv, LIInv
  <2>2. LeastInv' /\ MetInv' /\ ChosenInv'
    BY LeastNext, MetNext, ChosenNext DEF FIInv, LIInv
  <2> QED BY <2>1, <2>2 DEF LIInv
<1> QED BY <1>1, <1>2, FloodInvariant, PTL DEF Spec

\* When the heap is empty and the street of the position was not met, every drive has its
\* least cost.
LEMMA AllLeast ==
    ASSUME FIInv, LIInv, at # "build", ~found, heap = {}
    PROVE  \A d \in Drive : cost[d] = least[d]
<1>1. \A d \in Drive : /\ cost[d] \in 0 .. Inf /\ least[d] \in 0 .. Inf /\ least[d] <= cost[d]
                       /\ d[1].len \in Nat
  BY NotBelowLeast, DriveTwin, ConstantsAssumption
     DEF FIInv, LIInv, FloodType, CostInv, GraphInv, Segment
<1>2. handle = {}
  BY DEF FIInv, HeapInv
<1>3. \A d \in Drive : IF d \in Done THEN cost[d] <= Inf ELSE Inf <= cost[d]
  BY <1>1, <1>2, ConstantsAssumption DEF Done
<1>4. Inf \in 0 .. Inf
  BY ConstantsAssumption
<1>5. \A d \in Drive : cost[d] <= least[d] \/ Inf + d[1].len <= least[d]
  BY <1>3, <1>4, AtLeast DEF FIInv, LIInv
<1>6. ASSUME NEW d \in Drive PROVE cost[d] = least[d]
  <2>1. cost[d] \in Nat /\ least[d] \in Nat /\ Inf \in Nat /\ d[1].len \in Nat
        /\ cost[d] <= Inf /\ least[d] <= Inf /\ least[d] <= cost[d]
    BY <1>1, ConstantsAssumption
  <2>2. cost[d] <= least[d] \/ Inf + d[1].len <= least[d]
    BY <1>5
  <2> QED BY <2>1, <2>2
<1> QED BY <1>6

\* Until route_graph_flood meets the street of the position, the segments that have left
\* its heap have their least costs, and in the end all have.
THEOREM FloodLeastFirst == Spec => []LeastFirst
<1>1. FIInv /\ LIInv => LeastFirst
  <2> SUFFICES ASSUME FIInv, LIInv, at # "build", ~found, NEW d \in Drive \ heap,
                      cost[d] # Inf \/ heap = {}
               PROVE  cost[d] = least[d]
    BY DEF LeastFirst
  <2>1. CASE heap = {}
    BY <2>1, AllLeast
  <2>2. CASE heap # {}
    <3>1. \A x \in Drive : /\ cost[x] \in 0 .. Inf /\ least[x] \in 0 .. Inf /\ least[x] <= cost[x]
                           /\ x[1].len \in Nat
      BY NotBelowLeast, DriveTwin, ConstantsAssumption
         DEF FIInv, LIInv, FloodType, CostInv, GraphInv, Segment
    <3>2. heap \subseteq Drive /\ handle \subseteq Drive
      BY DEF FIInv, FloodType
    <3> DEFINE S == {cost[x] : x \in heap}
    <3>3. S \in SUBSET Nat /\ S # {}
      BY <2>2, <3>1, <3>2, ConstantsAssumption
    <3>4. PICK c \in S : \A y \in S : c <= y
      <4> HIDE DEF S
      <4> QED BY <3>3, LeastNat
    <3>5. PICK e \in heap : \A x \in heap : cost[e] <= cost[x]
      BY <3>4
    <3>6. PICK m \in handle : cost[m] = cost[e]
      <4>1. CASE e \in handle
        BY <4>1
      <4>2. CASE e \notin handle
        <5>1. Twin(e) \in handle /\ cost[Twin(e)] = cost[e]
          BY <4>2 DEF FIInv, HeapInv
        <5> QED BY <5>1
      <4> QED BY <4>1, <4>2
    <3>7. \A x \in Drive : IF x \in Done THEN cost[x] <= cost[m] ELSE cost[m] <= cost[x]
      BY <3>5, <3>6, HandleLeast DEF FIInv, LIInv
    <3>8. cost[m] \in 0 .. Inf
      BY <3>1, <3>2
    <3>9. cost[d] <= least[d] \/ cost[m] + d[1].len <= least[d]
      BY <3>7, <3>8, AtLeast DEF FIInv, LIInv
    <3>10. cost[d] <= cost[m]
      <4>1. CASE d \in handle
        <5>1. \A x \in heap : cost[d] <= cost[x]
          BY <4>1 DEF FIInv, HeapInv
        <5> QED BY <3>6, <5>1
      <4>2. CASE d \notin handle
        <5>1. d \in Done
          BY <2>2, <4>2 DEF Done
        <5> QED BY <3>7, <5>1
      <4> QED BY <4>1, <4>2
    <3>11. cost[d] \in Nat /\ least[d] \in Nat /\ least[d] <= cost[d] /\ d[1].len \in Nat
           /\ cost[m] \in Nat
      BY <3>1, <3>2, ConstantsAssumption
    <3> QED BY <3>9, <3>10, <3>11
  <2> QED BY <2>1, <2>2
<1> QED BY <1>1, LeastInvariant, PTL

\* The beginning that route_path_new chooses by the costs of a flood that has stopped
\* caring is not much worse than the best one.
THEOREM FloodNearBest == Spec => []NearBest
<1>1. FIInv /\ LIInv => NearBest
  <2> SUFFICES ASSUME FIInv, LIInv, at = "follow", path = <<>>, newGraph
               PROVE  \E d \in Drive : /\ Item(d) = pos.item
                                       /\ StartCost(next) <= Best + Worth(d) + TurnAround
    BY DEF NearBest
  <2> DEFINE part(d) == (Value(NoSeg, d) * Before(d, pos)) \div 100
             mine == {d \in Drive : Item(d) = pos.item /\ least[d] # Inf}
             S == {least[d] - part(d) + Around(d) : d \in mine}
  <2>1. /\ Startable(next) /\ next \in Drive /\ Item(next) = pos.item
        /\ \A d : Startable(d) => StartCost(next) <= StartCost(d)
    BY DEF LIInv, ChosenInv, Startable
  <2>2. ASSUME NEW d \in Drive
        PROVE  /\ cost[d] \in 0 .. Inf /\ least[d] \in 0 .. Inf /\ least[d] <= cost[d]
               /\ d[1].len \in Nat /\ Worth(d) \in Nat /\ d[1].len <= Worth(d)
    <3>1. least[d] \in 0 .. Inf /\ least[d] <= cost[d]
      BY NotBelowLeast DEF FIInv, LIInv
    <3>2. cost[d] \in 0 .. Inf
      BY ConstantsAssumption DEF FIInv, FloodType, CostInv
    <3>3. d[1].len \in Nat /\ Penalty \in Nat
      BY DriveTwin, ConstantsAssumption DEF FIInv, GraphInv, Segment
    <3> QED BY <3>1, <3>2, <3>3 DEF Worth
  <2>3. ASSUME NEW d \in Drive
        PROVE  /\ part(d) \in 0 .. Inf
               /\ Value(NoSeg, d) # Inf => part(d) <= d[1].len
               /\ Around(d) \in Nat /\ Around(d) <= TurnAround
               /\ StartCost(d) = cost[d] - part(d) + Around(d) /\ StartCost(d) \in Int
    BY LeftIs DEF FIInv, StartCost, Left
  <2> HIDE DEF part
  <2>4. S \in SUBSET Int /\ S # {} /\ 0 - Inf \in Int /\ \A x \in S : 0 - Inf <= x
    <3>1. cost[next] # Inf /\ cost[next] \in 0 .. Inf /\ least[next] <= cost[next]
          /\ least[next] \in 0 .. Inf
      BY <2>1, <2>2 DEF Startable
    <3>2. next \in mine
      BY <2>1, <3>1, ConstantsAssumption
    <3>3. S # {}
      BY <3>2
    <3>4. ASSUME NEW d \in mine
          PROVE  /\ least[d] - part(d) + Around(d) \in Int
                 /\ 0 - Inf <= least[d] - part(d) + Around(d)
      <4>1. /\ least[d] \in 0 .. Inf /\ part(d) \in 0 .. Inf /\ Around(d) \in Nat
        BY <2>2, <2>3
      <4> QED BY <4>1, ConstantsAssumption
    <3>5. S \in SUBSET Int /\ \A x \in S : 0 - Inf <= x
      BY <3>4
    <3> QED BY <3>3, <3>5, ConstantsAssumption
  <2>5. Best = Min(S)
    BY DEF Best, part
  <2>6. Best \in S
    <3> HIDE DEF S
    <3> QED BY <2>4, <2>5, MinInt
  <2>7. PICK b \in mine : Best = least[b] - part(b) + Around(b)
    BY <2>6
  <2>8. /\ b \in Drive /\ Item(b) = pos.item /\ least[b] # Inf
    BY <2>7
  <2>9. Value(NoSeg, b) # Inf
    BY <2>8, LeastHasValue DEF FIInv, LIInv
  <2> HIDE DEF mine, S
  <2>10. TurnAround \in Nat /\ Inf \in Nat /\ Best \in Int /\ StartCost(next) \in Int
    BY <2>1, <2>2, <2>3, <2>7, <2>8, ConstantsAssumption
\* The best beginning has its least cost: the one that is chosen is as good.
  <2>11. CASE cost[b] <= least[b]
    <3>1. cost[b] = least[b]
      BY <2>2, <2>8, <2>11, ConstantsAssumption
    <3>2. Startable(b)
      BY <2>8, <2>9, <3>1 DEF Startable
    <3>3. StartCost(next) <= StartCost(b) /\ StartCost(b) = Best
      BY <2>1, <2>3, <2>7, <2>8, <3>1, <3>2
    <3> QED BY <2>2, <2>8, <2>10, <3>3
\* The street was met, from a drive that costs no more than the best beginning.
  <2>12. CASE ~(cost[b] <= least[b])
    <3>1. found
      BY <2>2, <2>8, <2>12, AllLeast, ConstantsAssumption DEF LIInv, ChosenInv
    <3>2. PICK k \in Nat : MetAt(k)
      BY <3>1 DEF LIInv, MetInv
    <3>3. PICK a \in Drive : Item(a) = pos.item /\ cost[a] <= k + Worth(a)
      BY <3>2 DEF MetAt
    <3>4. k + b[1].len <= least[b]
      BY <2>8, <2>12, <3>2 DEF MetAt
    <3>5. k <= Best
      <4>1. /\ b[1].len \in Nat /\ least[b] \in Nat /\ part(b) \in Nat /\ part(b) <= b[1].len
            /\ Around(b) \in Nat
        BY <2>2, <2>3, <2>8, <2>9, ConstantsAssumption
      <4> QED BY <2>7, <3>4, <4>1
    <3>6. StartCost(next) <= cost[a] + TurnAround
      <4>1. CASE cost[a] = Inf
        <5>1. StartCost(next) <= cost[next] + TurnAround /\ cost[next] <= Inf
          BY <2>1, <2>2, <2>3, <2>10
        <5> QED BY <2>1, <2>2, <2>10, <4>1, <5>1
      <4>2. CASE cost[a] # Inf
        <5>1. Startable(a)
          BY <3>3, <4>2 DEF Startable, LIInv, DijkstraInv
        <5>2. StartCost(next) <= StartCost(a)
          BY <2>1, <5>1
        <5> QED BY <2>2, <2>3, <2>10, <5>2
      <4> QED BY <4>1, <4>2
    <3>7. StartCost(next) <= Best + Worth(a) + TurnAround
      BY <2>2, <2>10, <3>3, <3>5, <3>6
    <3> QED BY <3>3, <3>7
  <2> QED BY <2>11, <2>12
<1> QED BY <1>1, LeastInvariant, PTL

-----------------------------------------------------------------------------
(* The loops end *)

\* The drives that have left the heap have ranks below n, and the successor of a drive
\* has left the heap, before the drive itself.
Ranks(r, n) ==
    \A d \in Drive :
        /\ d \in Done => r[d] < n
        /\ from[d] # NoSeg => After(d) \in Done /\ (d \in Done => r[After(d)] < r[d])

\* The path goes down the ranks.
Falls(r) ==
    /\ \A i, j \in 1 .. Len(path) : i < j => r[path[j]] < r[path[i]]
    /\ at = "follow" => next \in Done /\ \A i \in 1 .. Len(path) : r[next] < r[path[i]]

RankInv ==
    at # "build" =>
        \E r \in [Drive -> Nat], n \in Nat :
            Ranks(r, n) /\ (at \in {"follow", "done"} => Falls(r))

\* The drive that a round takes out has the next rank.
LEMMA RankRound ==
    ASSUME GraphInv, FloodType, HeapInv, CostInv, DijkstraInv, at # "build",
           UNCHANGED <<map, dst, graph>>, NEW m, NEW D, Round(m, D),
           NEW r \in [Drive -> Nat], NEW n \in Nat, Ranks(r, n)
    PROVE  Ranks([r EXCEPT ![m] = n], n + 1)'
<1> DEFINE q == [r EXCEPT ![m] = n]
<1>1. /\ Drive' = Drive /\ m \notin D /\ m \notin Done /\ Done' = Done \union {m}
      /\ \A d : HeadOf(d)' = HeadOf(d)
  BY RoundKeeps DEF HeadOf
<1>2. /\ m \in Drive /\ from' = [d \in Drive |-> IF d \in D THEN m[1] ELSE from[d]]
      /\ \A d \in D : d \in Drive /\ HeadOf(d) = TailOf(m) /\ d \in handle'
  BY DEF Round
<1>3. \A d \in D : d \notin Done'
  BY <1>2 DEF Done
<1>4. q[m] = n /\ \A d \in Drive : d # m => q[d] = r[d]
  BY <1>2
<1>5. \A d \in Done : d \in Drive /\ d # m /\ r[d] \in Nat /\ r[d] < n
  BY <1>1 DEF Ranks, Done
<1> HIDE DEF q
<1>6. ASSUME NEW d \in Done' PROVE q[d] < n + 1
  BY <1>1, <1>4, <1>5, <1>6
<1>7. ASSUME NEW d \in D PROVE After(d)' = m
  <2>1. from'[d] = m[1] /\ HeadOf(d)' = TailOf(m)
    BY <1>1, <1>2
  <2>2. After(d)' = Onwards(m[1], TailOf(m))
    BY <2>1 DEF After, Onwards
  <2> QED BY <1>2, <2>2, OnwardsIs
<1>8. ASSUME NEW d \in Drive, d \notin D
      PROVE  from'[d] = from[d] /\ After(d)' = After(d)
  BY <1>1, <1>2, <1>8 DEF After, Onwards
<1>9. ASSUME NEW d \in Drive, d \notin D, from[d] # NoSeg
      PROVE  After(d) \in Done /\ (d \in Done' => q[After(d)] < q[d])
  <2>1. After(d) \in Done /\ (d \in Done => r[After(d)] < r[d])
    BY <1>9 DEF Ranks
  <2>2. q[After(d)] = r[After(d)] /\ r[After(d)] < n
    BY <1>4, <1>5, <2>1
  <2>3. d \in Done' => d \in Done \/ d = m
    BY <1>1
  <2> QED BY <1>4, <1>5, <2>1, <2>2, <2>3
<1>10. \A d \in Drive : from'[d] # NoSeg =>
          After(d)' \in Done' /\ (d \in Done' => q[After(d)'] < q[d])
  BY <1>1, <1>3, <1>7, <1>8, <1>9
<1>11. \A d \in Drive' :
          /\ d \in Done' => q[d] < n + 1
          /\ from'[d] # NoSeg => After(d)' \in Done' /\ (d \in Done' => q[After(d)'] < q[d])
  BY <1>1, <1>6, <1>10
<1>12. q' = q
  BY DEF q
<1> QED BY <1>11 DEF Ranks, q

\* Every step keeps the ranks.
LEMMA RankNext ==
    ASSUME GraphInv, FloodType, HeapInv, CostInv, DijkstraInv, PathInv, ChosenInv, RankInv,
           [Next]_vars, ChosenInv'
    PROVE  RankInv'
<1> USE DEF flooding, following
<1>0. ASSUME UNCHANGED <<graph, cost, from, handle>>
      PROVE  Drive' = Drive /\ Done' = Done /\ \A r, n : Ranks(r, n)' <=> Ranks(r, n)
  <2>1. Drive' = Drive /\ \A d : After(d)' = After(d)
    BY <1>0 DEF Drive, After, Onwards, HeadOf
  <2>2. Done' = Done
    BY <1>0, <2>1 DEF Done
  <2> QED BY <1>0, <2>1, <2>2 DEF Ranks
<1>1. CASE ProcessRestrictions
  BY <1>1 DEF ProcessRestrictions, RankInv
<1>2. CASE Seed
  <2>1. /\ at' = "flood" /\ graph' = graph /\ handle' = Seeds
        /\ cost' = [d \in Drive |-> SeedCost(d)] /\ from' = [d \in Drive |-> NoSeg]
    BY <1>2 DEF Seed
  <2>2. Drive' = Drive
    BY <2>1 DEF Drive
  <2>3. Done' = {}
    BY <2>1, <2>2 DEF Done, Seeds
  <2>4. \A d \in Drive' : d \notin Done' /\ from'[d] = NoSeg
    BY <2>1, <2>2, <2>3
  <2>5. PICK r : r = [d \in Drive |-> 0]
    OBVIOUS
  <2>6. Ranks(r, 0)'
    BY <2>4 DEF Ranks
  <2>7. r \in [Drive' -> Nat] /\ 0 \in Nat
    BY <2>2, <2>5
  <2> QED BY <2>1, <2>6, <2>7 DEF RankInv
<1>3. CASE Extract
  <2>1. at = "flood" /\ at' = "flood" /\ UNCHANGED <<map, dst, graph>>
    BY <1>3, ExtractIs
  <2>2. PICK m, D : Round(m, D)
    BY <1>3, ExtractIs
  <2>3. PICK r \in [Drive -> Nat], n \in Nat : Ranks(r, n)
    BY <2>1 DEF RankInv
  <2>4. Ranks([r EXCEPT ![m] = n], n + 1)'
    BY <2>1, <2>2, <2>3, RankRound
  <2>5. Drive' = Drive
    BY <2>1 DEF Drive
  <2>6. PICK q \in [Drive -> Nat] : q = [r EXCEPT ![m] = n]
    OBVIOUS
  <2>7. q \in [Drive' -> Nat] /\ n + 1 \in Nat
    BY <2>5, <2>6
  <2>8. Ranks(q, n + 1)'
    BY <2>4, <2>6
  <2> QED BY <2>1, <2>7, <2>8 DEF RankInv
<1>4. CASE Choose
  <2>1. at = "flood" /\ heap = {} /\ path' = <<>> /\ heap' = heap
    BY <1>4 DEF Choose
  <2>2. CASE at' = "build"
    BY <2>2 DEF RankInv
  <2>3. CASE at' # "build"
    <3>1. UNCHANGED <<graph, cost, from, handle>> /\ at' \in {"follow", "done"}
      BY <1>4, <2>3 DEF Choose
    <3>2. PICK r \in [Drive -> Nat], n \in Nat : Ranks(r, n)
      BY <2>1 DEF RankInv
    <3>3. handle = {}
      BY <2>1 DEF HeapInv
    <3>4. at' = "follow" => next' \in Done'
      <4>1. at' = "follow" => next' \in Drive' /\ cost'[next'] # Inf
        BY <2>1 DEF ChosenInv, Startable
      <4> QED BY <3>1, <3>3, <4>1 DEF Done
    <3>5. Falls(r)'
      <4>1. 1 .. Len(path') = {}
        BY <2>1
      <4> QED BY <3>4, <4>1 DEF Falls
    <3> QED BY <1>0, <3>1, <3>2, <3>5 DEF RankInv
  <2> QED BY <2>2, <2>3
<1>5. CASE Follow
  <2>1. /\ at = "follow" /\ at' \in {"follow", "done"} /\ path' = Append(path, next)
        /\ UNCHANGED <<graph, cost, from, handle>>
        /\ at' = "follow" => from[next] # NoSeg /\ next' = After(next)
    BY <1>5 DEF Follow, After
  <2>2. PICK r \in [Drive -> Nat], n \in Nat : Ranks(r, n) /\ Falls(r)
    BY <2>1 DEF RankInv
  <2>3. path \in Seq(Drive) /\ next \in Drive /\ next \in Done
    BY <2>1, <2>2 DEF PathInv, Falls
  <2>4. /\ Len(path') = Len(path) + 1 /\ Len(path) \in Nat /\ path'[Len(path) + 1] = next
        /\ \A i \in 1 .. Len(path) : path'[i] = path[i] /\ path[i] \in Drive
    BY <2>1, <2>3
  <2>5. \A i \in 1 .. Len(path') : i \in 1 .. Len(path) \/ i = Len(path) + 1
    BY <2>4
  <2>6. \A i \in 1 .. Len(path) : r[next] < r[path[i]]
    BY <2>1, <2>2 DEF Falls
  <2>7. ASSUME NEW i \in 1 .. Len(path'), NEW j \in 1 .. Len(path'), i < j
        PROVE  r[path'[j]] < r[path'[i]]
    <3>1. i \in 1 .. Len(path)
      BY <2>4, <2>7
    <3>2. CASE j \in 1 .. Len(path)
      <4>1. r[path[j]] < r[path[i]]
        BY <2>2, <2>7, <3>1, <3>2 DEF Falls
      <4> QED BY <2>4, <3>1, <3>2, <4>1
    <3>3. CASE j = Len(path) + 1
      BY <2>4, <2>6, <3>1, <3>3
    <3> QED BY <2>5, <3>2, <3>3
  <2>8. ASSUME at' = "follow"
        PROVE  next' \in Done /\ \A i \in 1 .. Len(path') : r[next'] < r[path'[i]]
    <3>1. next' \in Done /\ next' \in Drive /\ r[next'] < r[next]
      BY <2>1, <2>2, <2>3, <2>8 DEF Ranks, Done
    <3>2. r[next'] \in Nat /\ r[next] \in Nat /\ \A i \in 1 .. Len(path) : r[path[i]] \in Nat
      BY <2>3, <2>4, <3>1
    <3>3. \A i \in 1 .. Len(path) : r[next'] < r[path[i]]
      BY <2>6, <3>1, <3>2
    <3> QED BY <2>4, <2>5, <3>1, <3>3
  <2>9. Falls(r)'
    BY <1>0, <2>1, <2>7, <2>8 DEF Falls
  <2> QED BY <1>0, <2>1, <2>2, <2>9 DEF RankInv
<1>6. CASE NewPosition
  <2>1. at = "done" /\ at' = "flood" /\ UNCHANGED <<graph, cost, from, handle>>
    BY <1>6 DEF NewPosition
  <2> QED BY <1>0, <2>1 DEF RankInv
<1>7. CASE UNCHANGED vars
  <2>1. UNCHANGED <<at, graph, cost, from, handle, path, next>>
    BY <1>7 DEF vars
  <2>2. \A r : Falls(r)' <=> Falls(r)
    BY <1>0, <2>1 DEF Falls
  <2> QED BY <1>0, <2>1, <2>2 DEF RankInv
<1> QED BY <1>1, <1>2, <1>3, <1>4, <1>5, <1>6, <1>7 DEF Next

\* The loop of route_path_new comes to no drive of a segment twice, for any lengths of the
\* streets, zero included: it follows the successors in the order they left the heap,
\* backwards.
THEOREM FloodNoLoop == Spec => []NoLoop
<1>1. Init => RankInv
  BY DEF Init, RankInv
<1>2. FIInv /\ LIInv /\ LIInv' /\ RankInv /\ [Next]_vars => RankInv'
  BY RankNext DEF FIInv, LIInv
<1>3. FIInv /\ RankInv => NoLoop
  <2> SUFFICES ASSUME FIInv, RankInv, at \in {"follow", "done"},
                      NEW i \in 1 .. Len(path), NEW j \in 1 .. Len(path), path[i] = path[j], i # j
               PROVE  FALSE
    BY DEF NoLoop
  <2>1. PICK r \in [Drive -> Nat], n \in Nat : Falls(r)
    BY DEF RankInv
  <2>2. path \in Seq(Drive)
    BY DEF FIInv, TypeInv
  <2>3. r[path[i]] \in Nat
    BY <2>1, <2>2
  <2>4. i < j \/ j < i
    BY <2>2
  <2>5. r[path[j]] < r[path[i]] \/ r[path[i]] < r[path[j]]
    BY <2>1, <2>4 DEF Falls
  <2> QED BY <2>3, <2>5
<1> QED BY <1>1, <1>2, <1>3, LeastInvariant, PTL DEF Spec

\* Every round of route_graph_flood takes out a drive that was in the heap never to come
\* back, so that the drives which have not left it become fewer, and its loop ends.
Waiting == Drive \ Done
THEOREM FloodEnds ==
    Spec => [][Extract => /\ IsFiniteSet(Waiting)
                          /\ Cardinality(Waiting') < Cardinality(Waiting)]_vars
<1>1. ASSUME FIInv, LIInv, Extract
      PROVE  IsFiniteSet(Waiting) /\ Cardinality(Waiting') < Cardinality(Waiting)
  <2>1. at = "flood" /\ UNCHANGED <<map, dst, graph>>
    BY <1>1, ExtractIs DEF FIInv
  <2>2. PICK m, D : Round(m, D)
    BY <1>1, ExtractIs DEF FIInv
  <2>3. Drive' = Drive /\ m \notin Done /\ Done' = Done \union {m}
    BY <1>1, <2>1, <2>2, RoundKeeps DEF FIInv, LIInv
  <2>4. m \in Waiting /\ Waiting' = Waiting \ {m}
    BY <2>2, <2>3 DEF Waiting, Round
  <2>5. IsFiniteSet(Waiting)
    BY <1>1, DriveFinite, FS_Subset DEF LIInv, Waiting
  <2>6. Cardinality(Waiting) \in Nat /\ Cardinality(Waiting \ {m}) = Cardinality(Waiting) - 1
    BY <2>4, <2>5, FS_CardinalityType, FS_RemoveElement
  <2> QED BY <2>4, <2>5, <2>6
<1>2. FIInv /\ LIInv => [Extract => /\ IsFiniteSet(Waiting)
                                    /\ Cardinality(Waiting') < Cardinality(Waiting)]_vars
  BY <1>1
<1> QED BY <1>2, LeastInvariant, PTL

-----------------------------------------------------------------------------
(* Whole ways: splitting points loses no turn *)

\* The points that are split
Split == Restricted \ pending

\* The drive x stands for the drive d of the map, in both directions of time: its ends are
\* no points that were split, and the one it leads to was not made for another street.
StandsFor(x, d) ==
    /\ x \in Drive /\ Open(x) /\ TailOf(x) \notin Split /\ HeadOf(x) \notin Split
    /\ Made(HeadOf(x)) => Item(x) = HeadOf(x)[2].item
    /\ Item(x) = Item(d) /\ Place(TailOf(x)) = Place(TailOf(d)) /\ Place(HeadOf(x)) = Place(HeadOf(d))

\* A drive of the map can be begun, unless it leaves a point that was split and that
\* nobody may come in by for it.
Begun(d) ==
    d \in MapDrive /\ Open(d)
    /\ (TailOf(d) \in Split => \E e \in MapDrive : Open(e) /\ Legal(e, d))

\* Every drive that can be begun has one that stands for it, and after what stands for a
\* drive comes what stands for the next one.
WholeInv ==
    /\ map.streets \subseteq graph
    /\ \A x \in Drive : Open(x) =>
          /\ Made(TailOf(x)) => <<Place(TailOf(x))>> \notin pending
          /\ Made(HeadOf(x)) => <<Place(HeadOf(x))>> \notin pending
    /\ \A d : Begun(d) => \E x : StandsFor(x, d)
    /\ \A d \in MapDrive : \A x : StandsFor(x, d) => \A e \in MapDrive : Legal(d, e) =>
          \E y : StandsFor(y, e) /\ TailOf(y) = HeadOf(x)

\* The drives of the map have ends that are places.
LEMMA MapDriveIs ==
    ASSUME map \in Maps, NEW d \in MapDrive
    PROVE  /\ d = <<d[1], d[2]>> /\ d[1] \in map.streets /\ d[2] \in {1, -1} /\ Segment(d[1])
           /\ TailOf(d) = <<Place(TailOf(d))>> /\ HeadOf(d) = <<Place(HeadOf(d))>>
           /\ Place(TailOf(d)) # Place(HeadOf(d))
<1>1. d = <<d[1], d[2]>> /\ d[1] \in map.streets /\ d[2] \in {1, -1}
  BY DEF MapDrive
<1>2. Street(d[1])
  BY <1>1, ConstantsAssumption
<1>3. d[1].start = <<d[1].start[1]>> /\ d[1].end = <<d[1].end[1]>>
  BY <1>2 DEF Street
<1>4. Segment(d[1])
  BY <1>2, StreetSegment
<1>5. TailOf(d) = <<Place(TailOf(d))>> /\ HeadOf(d) = <<Place(HeadOf(d))>>
  BY <1>1, <1>3 DEF TailOf, HeadOf, Place
<1>6. Place(TailOf(d)) # Place(HeadOf(d))
  BY <1>1, <1>4 DEF Segment, TailOf, HeadOf
<1> QED BY <1>1, <1>4, <1>5, <1>6

\* A point is either a place or made, and only places are split.
LEMMA PointIs ==
    ASSUME NEW p, Point(p)
    PROVE  /\ Made(p) \/ p = <<Place(p)>>
           /\ Made(p) => p \notin Restricted
           /\ \A q \in Restricted : q = <<Place(q)>>
<1>1. \A q \in Restricted : q = <<Place(q)>>
  BY DEF Restricted, Place
<1>2. Made(p) => p # <<Place(p)>>
  BY DEF Made, Place
<1> QED BY <1>1, <1>2 DEF Point, Place

\* A graph as route_graph_build leaves it: every drive stands for itself.
LEMMA StreetsWhole ==
    ASSUME map \in Maps, graph = map.streets, pending = Restricted PROVE WholeInv
<1>1. Split = {} /\ Drive = MapDrive
  BY DEF Split, Drive, MapDrive
<1>2. ASSUME NEW x \in Drive PROVE ~Made(TailOf(x)) /\ ~Made(HeadOf(x))
  <2>1. Street(x[1])
    BY <1>1, MapDriveIs, ConstantsAssumption
  <2> QED BY <2>1, StreetSegment DEF TailOf, HeadOf
<1>3. \A d \in MapDrive : Open(d) => StandsFor(d, d)
  BY <1>1, <1>2 DEF StandsFor
<1>4. ASSUME NEW d \in MapDrive, NEW x, StandsFor(x, d), NEW e \in MapDrive, Legal(d, e)
      PROVE  \E y : StandsFor(y, e) /\ TailOf(y) = HeadOf(x)
  <2>1. x \in MapDrive /\ Place(HeadOf(x)) = Place(HeadOf(d))
    BY <1>1, <1>4 DEF StandsFor
  <2>2. HeadOf(x) = HeadOf(d)
    BY <2>1, MapDriveIs
  <2>3. StandsFor(e, e) /\ TailOf(e) = HeadOf(x)
    BY <1>3, <1>4, <2>2 DEF Legal
  <2> QED BY <2>3
<1> QED BY <1>2, <1>3, <1>4 DEF WholeInv, Begun

\* Turns are allowed by the places and the streets.
LEMMA TurnByPlaces ==
    ASSUME NEW d, NEW e, NEW x, NEW y, TurnAllowed(d, e), Item(x) = Item(d), Item(y) = Item(e),
           Place(TailOf(x)) = Place(TailOf(d)), Place(HeadOf(x)) = Place(HeadOf(d)),
           Place(HeadOf(y)) = Place(HeadOf(e))
    PROVE  TurnAllowed(x, y)
  BY DEF TurnAllowed

\* One point is split: the drives that come in there and those that turn from them
LEMMA SplitWhole ==
    ASSUME GraphInv, WholeInv, ProcessRestrictions PROVE WholeInv'
<1>1. PICK p \in pending :
          /\ pending' = pending \ {p}
          /\ graph' = graph \union
                UNION {SplitFor(p, d) : d \in {e \in Drive : HeadOf(e) = p /\ RightWay(e)}}
  BY DEF ProcessRestrictions
<1>2. map' = map
  BY DEF ProcessRestrictions
<1>3. /\ p \in Restricted /\ p = <<Place(p)>> /\ p \notin Split
      /\ Restricted' = Restricted /\ Split' = Split \union {p} /\ MapDrive' = MapDrive
  BY <1>1, <1>2 DEF GraphInv, Split, Restricted, MapDrive, Place
<1>4. /\ \A d : Item(d)' = Item(d) /\ TailOf(d)' = TailOf(d) /\ HeadOf(d)' = HeadOf(d)
      /\ \A d : Open(d)' <=> Open(d)
      /\ \A d, e : Legal(d, e)' <=> Legal(d, e)
      /\ \A q : Place(q)' = Place(q) /\ (Made(q)' <=> Made(q))
  BY <1>2 DEF Item, TailOf, HeadOf, Open, RightWay, Legal, TurnAllowed, Place, Made
<1>5. \A x \in Drive : x \in Drive'
  BY <1>1 DEF Drive
<1>6. \A x \in Drive : /\ x = <<x[1], x[2]>> /\ x[2] \in {1, -1} /\ x[1] \in graph /\ Segment(x[1])
                       /\ Point(TailOf(x)) /\ Point(HeadOf(x)) /\ Place(TailOf(x)) # Place(HeadOf(x))
  BY DriveEnds DEF GraphInv, Drive
<1>7. MapDrive \subseteq Drive
  BY DEF WholeInv, MapDrive, Drive
\* The drive that comes in is cloned,
<1> DEFINE pn(z) == <<Place(p), z[1]>>
           in(z) == <<Clone(z, TailOf(z), pn(z)), z[2]>>
           out(z, y) == <<Clone(y, pn(z), HeadOf(y)), y[2]>>
<1>8. \A z : /\ Made(pn(z)) /\ Point(pn(z)) /\ Place(pn(z)) = Place(p) /\ pn(z)[2] = z[1]
            /\ pn(z) \notin Restricted
  <2>1. \A z : Made(pn(z)) /\ Point(pn(z)) /\ Place(pn(z)) = Place(p) /\ pn(z)[2] = z[1]
    BY DEF Made, Point, Place
  <2> HIDE DEF pn
  <2> QED BY <2>1, PointIs
<1> HIDE DEF pn
<1>9. ASSUME NEW z \in Drive, HeadOf(z) = p, Open(z)
      PROVE  /\ in(z) \in Drive' /\ Open(in(z)) /\ Item(in(z)) = Item(z)
             /\ TailOf(in(z)) = TailOf(z) /\ HeadOf(in(z)) = pn(z)
  <2> DEFINE c == Clone(z, TailOf(z), pn(z))
  <2>1. c \in SplitFor(p, z)
    BY DEF SplitFor, pn
  <2>2. c \in graph'
    BY <1>1, <1>9, <2>1 DEF Open
  <2>3. /\ c.item = z[1].item /\ z[2] \in c.dirs /\ ~c.closed
        /\ c.start = (IF z[2] = 1 THEN TailOf(z) ELSE pn(z))
        /\ c.end = (IF z[2] = 1 THEN pn(z) ELSE TailOf(z))
    BY <1>6, <1>9 DEF Clone, Segment, Open, RightWay
  <2> HIDE DEF c
  <2>4. /\ Open(<<c, z[2]>>) /\ Item(<<c, z[2]>>) = Item(z)
        /\ TailOf(<<c, z[2]>>) = TailOf(z) /\ HeadOf(<<c, z[2]>>) = pn(z)
    BY <1>6, <2>3 DEF Open, RightWay, Item, TailOf, HeadOf
  <2>5. <<c, z[2]>> \in Drive'
    BY <1>6, <2>2 DEF Drive
  <2> QED BY <2>4, <2>5 DEF c
\* and so is each that turns from it.
<1>10. ASSUME NEW z \in Drive, HeadOf(z) = p, Open(z),
              NEW y \in Drive, TailOf(y) = p, Open(y), TurnAllowed(z, y)
       PROVE  /\ out(z, y) \in Drive' /\ Open(out(z, y)) /\ Item(out(z, y)) = Item(y)
              /\ TailOf(out(z, y)) = pn(z) /\ HeadOf(out(z, y)) = HeadOf(y)
  <2> DEFINE c == Clone(y, pn(z), HeadOf(y))
  <2>0. y[1] # z[1]
    BY <1>10 DEF TurnAllowed, Item
  <2>1. c \in SplitFor(p, z)
    BY <1>10, <2>0 DEF SplitFor, pn, Open
  <2>2. c \in graph'
    BY <1>1, <1>10, <2>1 DEF Open
  <2>3. /\ c.item = y[1].item /\ y[2] \in c.dirs /\ ~c.closed
        /\ c.start = (IF y[2] = 1 THEN pn(z) ELSE HeadOf(y))
        /\ c.end = (IF y[2] = 1 THEN HeadOf(y) ELSE pn(z))
    BY <1>6, <1>10 DEF Clone, Segment, Open, RightWay
  <2> HIDE DEF c
  <2>4. /\ Open(<<c, y[2]>>) /\ Item(<<c, y[2]>>) = Item(y)
        /\ TailOf(<<c, y[2]>>) = pn(z) /\ HeadOf(<<c, y[2]>>) = HeadOf(y)
    BY <1>6, <2>3 DEF Open, RightWay, Item, TailOf, HeadOf
  <2>5. <<c, y[2]>> \in Drive'
    BY <1>6, <2>2 DEF Drive
  <2> QED BY <2>4, <2>5 DEF c
<1> HIDE DEF in, out
\* What stood for a drive still does, or its clone that comes in at the point.
<1>11. ASSUME NEW x, NEW d, StandsFor(x, d), TailOf(x) # p
       PROVE  \E y : StandsFor(y, d)' /\ TailOf(y) = TailOf(x)
  <2>1. /\ x \in Drive /\ Open(x) /\ TailOf(x) \notin Split /\ HeadOf(x) \notin Split
        /\ Made(HeadOf(x)) => Item(x) = HeadOf(x)[2].item
        /\ Item(x) = Item(d) /\ Place(TailOf(x)) = Place(TailOf(d)) /\ Place(HeadOf(x)) = Place(HeadOf(d))
    BY <1>11 DEF StandsFor
  <2>2. CASE HeadOf(x) # p
    <3>1. StandsFor(x, d)'
      BY <1>3, <1>4, <1>5, <1>11, <2>1, <2>2 DEF StandsFor
    <3> QED BY <3>1
  <2>3. CASE HeadOf(x) = p
    <3>1. /\ in(x) \in Drive' /\ Open(in(x)) /\ Item(in(x)) = Item(x)
          /\ TailOf(in(x)) = TailOf(x) /\ HeadOf(in(x)) = pn(x)
      BY <1>9, <2>1, <2>3
    <3>2. pn(x) \notin Split' /\ Place(pn(x)) = Place(p) /\ pn(x)[2].item = Item(x)
      BY <1>3, <1>8 DEF Split, Item
    <3>3. StandsFor(in(x), d)'
      BY <1>3, <1>4, <1>11, <2>1, <2>3, <3>1, <3>2 DEF StandsFor
    <3> QED BY <3>1, <3>3
  <2> QED BY <2>2, <2>3
\* What stands for a drive that leaves the point leaves it.
<1>12. ASSUME NEW x, NEW d \in MapDrive, StandsFor(x, d) PROVE TailOf(x) = p <=> TailOf(d) = p
  <2>1. x \in Drive /\ Open(x) /\ Place(TailOf(x)) = Place(TailOf(d))
    BY <1>12 DEF StandsFor
  <2>2. TailOf(d) = <<Place(TailOf(d))>>
    BY MapDriveIs DEF GraphInv
  <2>3. TailOf(x) = p => TailOf(d) = p
    BY <1>3, <2>1, <2>2
  <2>4. ASSUME TailOf(d) = p PROVE TailOf(x) = p
    <3>1. Place(TailOf(x)) = Place(p)
      BY <2>1, <2>4
    <3>2. ~Made(TailOf(x))
      <4>1. <<Place(TailOf(x))>> \in pending
        BY <1>1, <1>3, <3>1
      <4> QED BY <2>1, <4>1 DEF WholeInv
    <3>3. TailOf(x) = <<Place(TailOf(x))>>
      BY <1>6, <2>1, <3>2, PointIs
    <3> QED BY <1>3, <3>1, <3>3
  <2> QED BY <2>3, <2>4
\* From what comes in at the point one gets to what stands for the next drive.
<1>13. ASSUME NEW z \in Drive, HeadOf(z) = p, Open(z), NEW e \in MapDrive, TailOf(e) = p, Open(e),
              TurnAllowed(z, e)
       PROVE  \E y : StandsFor(y, e)' /\ TailOf(y) = pn(z)
  <2>1. Begun(e)
    BY <1>3, <1>13 DEF Begun
  <2>2. PICK y : StandsFor(y, e)
    BY <2>1 DEF WholeInv
  <2>3. /\ y \in Drive /\ Open(y) /\ HeadOf(y) \notin Split /\ Item(y) = Item(e)
        /\ Made(HeadOf(y)) => Item(y) = HeadOf(y)[2].item
        /\ Place(TailOf(y)) = Place(TailOf(e)) /\ Place(HeadOf(y)) = Place(HeadOf(e))
    BY <2>2 DEF StandsFor
  <2>4. TailOf(y) = p
    BY <1>12, <1>13, <2>2
  <2>5. TurnAllowed(z, y)
    BY <1>13, <2>3, TurnByPlaces
  <2>6. /\ out(z, y) \in Drive' /\ Open(out(z, y)) /\ Item(out(z, y)) = Item(y)
        /\ TailOf(out(z, y)) = pn(z) /\ HeadOf(out(z, y)) = HeadOf(y)
    BY <1>10, <1>13, <2>3, <2>4, <2>5
  <2>7. HeadOf(y) # p
    BY <1>6, <2>3, <2>4
  <2>8. pn(z) \notin Split' /\ Place(pn(z)) = Place(p)
    BY <1>3, <1>8 DEF Split
  <2>9. StandsFor(out(z, y), e)'
    BY <1>3, <1>4, <2>3, <2>4, <2>6, <2>7, <2>8 DEF StandsFor
  <2> QED BY <2>6, <2>9
\* The new drives: the street that comes in at the point, one that leaves it, and where
\* they are free each of them backwards.
<1> DEFINE In(x, z) == Open(z) /\ Item(x) = Item(z) /\ TailOf(x) = TailOf(z) /\ HeadOf(x) = pn(z)
           InBack(x, z) == /\ z[1].free /\ ~z[1].closed /\ Item(x) = Item(z)
                           /\ TailOf(x) = pn(z) /\ HeadOf(x) = TailOf(z)
           Out(x, z, y) == Open(y) /\ Item(x) = Item(y) /\ TailOf(x) = pn(z) /\ HeadOf(x) = HeadOf(y)
           OutBack(x, z, y) == /\ Item(x) = Item(y) /\ Item(y) # Item(z) /\ Open(y)
                               /\ TailOf(x) = HeadOf(y) /\ HeadOf(x) = pn(z)
<1>14. ASSUME NEW x \in Drive', x \notin Drive, Open(x)
       PROVE  \E z \in Drive : /\ HeadOf(z) = p
                 /\ \/ In(x, z) \/ InBack(x, z)
                    \/ \E y \in Drive : TailOf(y) = p /\ (Out(x, z, y) \/ OutBack(x, z, y))
  <2>1. x[1] \in graph' /\ x[2] \in {1, -1} /\ x = <<x[1], x[2]>> /\ x[1] \notin graph
    BY <1>14 DEF Drive
  <2>2. PICK z \in Drive : HeadOf(z) = p /\ RightWay(z) /\ x[1] \in SplitFor(p, z)
    BY <1>1, <2>1
  <2>3. Place(TailOf(z)) # Place(pn(z)) /\ Point(TailOf(z)) /\ Point(pn(z)) /\ Segment(z[1])
        /\ z[2] \in {1, -1}
    BY <1>6, <1>8, <2>2
  <2>4. CASE x[1] = Clone(z, TailOf(z), pn(z))
    <3>1. /\ x[1].item = z[1].item /\ ~z[1].closed
          /\ \/ TailOf(x) = TailOf(z) /\ HeadOf(x) = pn(z)
             \/ z[1].free /\ TailOf(x) = pn(z) /\ HeadOf(x) = TailOf(z)
      BY <1>14, <2>1, <2>3, <2>4, CloneIs
    <3>2. In(x, z) \/ InBack(x, z)
      BY <2>2, <3>1 DEF Item, Open
    <3> QED BY <2>2, <3>2
  <2>5. CASE x[1] # Clone(z, TailOf(z), pn(z))
    <3>1. PICK y \in Drive : TailOf(y) = p /\ RightWay(y) /\ TurnAllowed(z, y)
                             /\ x[1] = Clone(y, pn(z), HeadOf(y))
      BY <2>2, <2>5 DEF SplitFor, pn
    <3>2. Place(pn(z)) # Place(HeadOf(y)) /\ Point(HeadOf(y)) /\ Segment(y[1]) /\ y[2] \in {1, -1}
      BY <1>6, <1>8, <3>1
    <3>3. /\ x[1].item = y[1].item /\ ~y[1].closed
          /\ \/ TailOf(x) = pn(z) /\ HeadOf(x) = HeadOf(y)
             \/ TailOf(x) = HeadOf(y) /\ HeadOf(x) = pn(z)
      BY <1>14, <2>1, <2>3, <3>1, <3>2, CloneIs
    <3>4. Out(x, z, y) \/ OutBack(x, z, y)
      BY <3>1, <3>3 DEF Item, Open, TurnAllowed
    <3> QED BY <2>2, <3>1, <3>4
  <2> QED BY <2>4, <2>5
<1>15. ASSUME NEW x \in Drive', Open(x)
       PROVE  /\ Made(TailOf(x)) => <<Place(TailOf(x))>> \notin pending'
              /\ Made(HeadOf(x)) => <<Place(HeadOf(x))>> \notin pending'
  <2>1. \A y \in Drive : Open(y) =>
           /\ Made(TailOf(y)) => <<Place(TailOf(y))>> \notin pending'
           /\ Made(HeadOf(y)) => <<Place(HeadOf(y))>> \notin pending'
    BY <1>1 DEF WholeInv
  <2>2. \A z : <<Place(pn(z))>> \notin pending'
    BY <1>1, <1>3, <1>8
  <2>3. CASE x \in Drive
    BY <1>15, <2>1, <2>3
  <2>4. CASE x \notin Drive
    <3>1. PICK z \in Drive : /\ HeadOf(z) = p
                 /\ \/ In(x, z) \/ InBack(x, z)
                    \/ \E y \in Drive : TailOf(y) = p /\ (Out(x, z, y) \/ OutBack(x, z, y))
      BY <1>14, <1>15, <2>4
    <3>2. CASE In(x, z)
      BY <2>1, <2>2, <3>2
    <3>3. CASE InBack(x, z)
      <4>1. Open(Twin(z)) /\ Twin(z) \in Drive /\ HeadOf(Twin(z)) = TailOf(z)
        BY <1>6, <3>3, FreeTwin
      <4> QED BY <2>1, <2>2, <3>3, <4>1
    <3>4. ASSUME NEW y \in Drive, Out(x, z, y) \/ OutBack(x, z, y)
          PROVE  /\ Made(TailOf(x)) => <<Place(TailOf(x))>> \notin pending'
                 /\ Made(HeadOf(x)) => <<Place(HeadOf(x))>> \notin pending'
      BY <2>1, <2>2, <3>4
    <3> QED BY <3>1, <3>2, <3>3, <3>4
  <2> QED BY <2>3, <2>4
<1>16. ASSUME NEW d, Begun(d)' PROVE \E x : StandsFor(x, d)'
  <2>1. /\ d \in MapDrive /\ Open(d)
        /\ TailOf(d) \in Split' => \E e \in MapDrive : Open(e) /\ Legal(e, d)
    BY <1>3, <1>4, <1>16 DEF Begun
  <2>2. CASE TailOf(d) = p
    <3>1. PICK e \in MapDrive : Open(e) /\ Legal(e, d)
      BY <1>3, <2>1, <2>2
    <3>2. e \in Drive /\ HeadOf(e) = p /\ TurnAllowed(e, d)
      BY <1>7, <2>2, <3>1 DEF Legal
    <3> QED BY <1>13, <2>1, <2>2, <3>1, <3>2
  <2>3. CASE TailOf(d) # p
    <3>1. Begun(d)
      BY <1>3, <2>1, <2>3 DEF Begun
    <3>2. PICK x : StandsFor(x, d)
      BY <3>1 DEF WholeInv
    <3> QED BY <1>11, <1>12, <2>1, <2>3, <3>2
  <2> QED BY <2>2, <2>3
<1>17. ASSUME NEW d \in MapDrive, NEW x, StandsFor(x, d)', NEW e \in MapDrive, Legal(d, e)
       PROVE  \E y : StandsFor(y, e)' /\ TailOf(y) = HeadOf(x)
  <2>1. /\ x \in Drive' /\ Open(x) /\ TailOf(x) \notin Split' /\ HeadOf(x) \notin Split'
        /\ Made(HeadOf(x)) => Item(x) = HeadOf(x)[2].item
        /\ Item(x) = Item(d) /\ Place(TailOf(x)) = Place(TailOf(d)) /\ Place(HeadOf(x)) = Place(HeadOf(d))
    BY <1>4, <1>17 DEF StandsFor
  <2>2. HeadOf(d) = TailOf(e) /\ Open(e) /\ TurnAllowed(d, e)
    BY <1>17 DEF Legal
  <2>3. ASSUME NEW w \in Drive, StandsFor(w, d), HeadOf(w) = HeadOf(x)
        PROVE  \E y : StandsFor(y, e)' /\ TailOf(y) = HeadOf(x)
    <3>1. PICK y : StandsFor(y, e) /\ TailOf(y) = HeadOf(w)
      BY <1>17, <2>3 DEF WholeInv
    <3>2. TailOf(y) # p
      BY <1>3, <2>1, <2>3, <3>1
    <3> QED BY <1>11, <2>3, <3>1, <3>2
  <2>4. CASE x \in Drive
    <3>1. StandsFor(x, d)
      BY <1>3, <2>1, <2>4 DEF StandsFor
    <3> QED BY <2>3, <2>4, <3>1
  <2>5. CASE x \notin Drive
    <3>1. PICK z \in Drive : /\ HeadOf(z) = p
                 /\ \/ In(x, z) \/ InBack(x, z)
                    \/ \E y \in Drive : TailOf(y) = p /\ (Out(x, z, y) \/ OutBack(x, z, y))
      BY <1>14, <2>1, <2>5
    <3>2. CASE In(x, z)
      <4>1. Place(HeadOf(d)) = Place(p) /\ HeadOf(d) = <<Place(HeadOf(d))>>
        BY <1>8, <2>1, <3>2, MapDriveIs DEF GraphInv
      <4>2. TailOf(e) = p
        BY <1>3, <2>2, <4>1
      <4>3. TurnAllowed(z, e)
        BY <2>1, <2>2, <3>1, <3>2, <4>1, TurnByPlaces
      <4> QED BY <1>13, <2>2, <3>1, <3>2, <4>2, <4>3
    <3>3. CASE InBack(x, z)
      <4>1. /\ Twin(z) \in Drive /\ Open(Twin(z)) /\ Item(Twin(z)) = Item(z)
            /\ TailOf(Twin(z)) = p /\ HeadOf(Twin(z)) = TailOf(z)
        BY <1>6, <3>1, <3>3, FreeTwin
      <4>2. StandsFor(Twin(z), d)
        BY <1>3, <1>8, <2>1, <3>3, <4>1 DEF StandsFor
      <4> QED BY <2>3, <3>3, <4>1, <4>2
    <3>4. ASSUME NEW y \in Drive, TailOf(y) = p, Out(x, z, y)
          PROVE  \E w : StandsFor(w, e)' /\ TailOf(w) = HeadOf(x)
      <4>1. StandsFor(y, d)
        BY <1>3, <1>8, <2>1, <3>4 DEF StandsFor
      <4> QED BY <2>3, <3>4, <4>1
    <3>5. ASSUME NEW y \in Drive, OutBack(x, z, y) PROVE FALSE
      BY <1>8, <2>1, <3>5 DEF Item
    <3> QED BY <3>1, <3>2, <3>3, <3>4, <3>5
  <2> QED BY <2>4, <2>5
<1>18. map'.streets \subseteq graph'
  BY <1>1, <1>2 DEF WholeInv
<1>19. \A x \in Drive' : Open(x)' =>
          /\ Made(TailOf(x))' => <<Place(TailOf(x))>>' \notin pending'
          /\ Made(HeadOf(x))' => <<Place(HeadOf(x))>>' \notin pending'
  BY <1>15 DEF Open, RightWay, Made, TailOf, HeadOf, Place
<1>20. \A d \in MapDrive' : \A x : StandsFor(x, d)' => \A e \in MapDrive' : Legal(d, e)' =>
          \E y : StandsFor(y, e)' /\ TailOf(y)' = HeadOf(x)'
  BY <1>3, <1>4, <1>17
<1> QED BY <1>16, <1>18, <1>19, <1>20 DEF WholeInv

\* Every step keeps the turns.
LEMMA WholeNext == GraphInv /\ WholeInv /\ [Next]_vars => WholeInv'
<1> SUFFICES ASSUME GraphInv, WholeInv, [Next]_vars PROVE WholeInv'
  OBVIOUS
<1>0. ASSUME UNCHANGED <<map, pending, graph>> PROVE WholeInv'
  <2>1. /\ \A d : Item(d)' = Item(d) /\ TailOf(d)' = TailOf(d) /\ HeadOf(d)' = HeadOf(d)
        /\ \A d : Open(d)' <=> Open(d)
        /\ \A d, e : Legal(d, e)' <=> Legal(d, e)
        /\ \A q : Place(q)' = Place(q) /\ (Made(q)' <=> Made(q))
        /\ Drive' = Drive /\ MapDrive' = MapDrive /\ Split' = Split
    BY <1>0 DEF Item, TailOf, HeadOf, Open, RightWay, Legal, TurnAllowed, Place, Made, Drive, MapDrive, Split,
                Restricted
  <2>2. /\ \A x, d : StandsFor(x, d)' <=> StandsFor(x, d)
        /\ \A d : Begun(d)' <=> Begun(d)
    BY <2>1 DEF StandsFor, Begun
  <2> QED BY <1>0, <2>1, <2>2 DEF WholeInv
<1>1. CASE ProcessRestrictions
  BY <1>1, SplitWhole
<1>2. CASE Choose
  <2>1. CASE graph' = map.streets /\ pending' = Restricted /\ map' = map
    <3>1. (map \in Maps)' /\ (graph = map.streets)' /\ (pending = Restricted)'
      BY <2>1 DEF GraphInv, Restricted
    <3>2. (map \in Maps /\ graph = map.streets /\ pending = Restricted => WholeInv)'
      BY StreetsWhole, PTL
    <3> QED BY <3>1, <3>2
  <2> QED BY <1>0, <1>2, <2>1 DEF Choose
<1>3. CASE Seed \/ Extract \/ Follow \/ NewPosition \/ UNCHANGED vars
  BY <1>0, <1>3 DEF Seed, Extract, Follow, NewPosition, vars
<1> QED BY <1>1, <1>2, <1>3 DEF Next

\* The costs grow with the drives that have left the heap.
GrowInv ==
    /\ at # "build" => pending = {}
    /\ at # "build" => \A w \in Nat : (\A d \in Drive : Worth(d) <= w) =>
          \A d \in Drive : cost[d] # Inf => cost[d] <= (Cardinality(Done) + 1) * w

\* While ways are short, the street of the position has a cost once it is met; and when
\* there is no path it has none.
ShownInv ==
    /\ at # "build" /\ newGraph /\ found /\ ShortWays =>
          \E d \in Drive : Item(d) = pos.item /\ cost[d] # Inf
    /\ at = "done" /\ path = <<>> => newGraph /\ heap = {} /\ \A d : ~Startable(d)

\* A way goes on at the price of a drive at most.
LEMMA ViaWorth ==
    ASSUME GraphInv, NEW d \in Drive, NEW e, NEW c \in Nat, Via(d, e, 0) # Inf
    PROVE  Via(d, e, c) \in Nat /\ Via(d, e, c) <= c + Worth(d) /\ Worth(d) \in Nat
<1>1. Penalty \in Nat /\ d[1].len \in Nat /\ Inf \in Nat
  BY DriveTwin, ConstantsAssumption DEF GraphInv, Segment
<1>2. Via(d, e, c) = c + Value(e[1], d) /\ Value(e[1], d) # Inf
  BY DEF Via
<1>3. Value(e[1], d) \in Nat /\ Value(e[1], d) <= Worth(d) /\ Worth(d) \in Nat
  BY <1>1, <1>2, ValueNat DEF Value, Worth
<1> QED BY <1>2, <1>3

\* Once more a number
LEMMA TimesNext ==
    ASSUME NEW n \in Nat, NEW w \in Nat
    PROVE  n * w \in Nat /\ (n + 1) * w = n * w + w /\ n * w <= (n + 1) * w
  OBVIOUS

\* The drives that have left the heap are drives; a drive with no cost is not among them.
LEMMA DoneCount ==
    ASSUME FiniteInv
    PROVE  /\ Cardinality(Drive) \in Nat /\ Cardinality(Done) \in Nat
           /\ \A d \in Drive \ Done : Cardinality(Done) + 1 <= Cardinality(Drive)
<1>1. IsFiniteSet(Drive) /\ Cardinality(Drive) \in Nat
  BY DriveFinite, FS_CardinalityType
<1>2. IsFiniteSet(Done) /\ Cardinality(Done) \in Nat
  BY <1>1, FS_Subset, FS_CardinalityType DEF Done
<1>3. ASSUME NEW d \in Drive \ Done PROVE Cardinality(Done) + 1 <= Cardinality(Drive)
  <2>1. Done \union {d} \in SUBSET Drive
    BY DEF Done
  <2>2. Cardinality(Done \union {d}) <= Cardinality(Drive)
    BY <1>1, <2>1, FS_Subset
  <2> QED BY <1>2, <2>2, FS_AddElement
<1> QED BY <1>1, <1>2, <1>3

\* While ways are short and some drive is not done, the sum of a cost and a drive is one.
LEMMA ShortCosts ==
    ASSUME GraphInv, FloodType, FiniteInv, GrowInv, at # "build", ShortWays, Drive \ Done # {},
           NEW d \in Drive, NEW e \in Drive, cost[e] # Inf, Via(d, e, 0) # Inf
    PROVE  Via(d, e, cost[e]) \in Nat /\ Via(d, e, cost[e]) < Inf
<1>1. PICK w \in 0 .. Inf : (Cardinality(Drive) + 1) * w < Inf /\ \A x \in Drive : Worth(x) <= w
  BY DEF ShortWays
<1>2. w \in Nat /\ Inf \in Nat
  BY <1>1, ConstantsAssumption
<1>3. cost[e] \in Nat /\ cost[e] <= (Cardinality(Done) + 1) * w
  BY <1>1, <1>2 DEF GrowInv, FloodType
<1>4. /\ Cardinality(Drive) \in Nat /\ Cardinality(Done) + 1 \in Nat
      /\ Cardinality(Done) + 1 <= Cardinality(Drive)
  BY DoneCount
<1>5. /\ (Cardinality(Done) + 1) * w <= Cardinality(Drive) * w
      /\ Cardinality(Drive) * w + w = (Cardinality(Drive) + 1) * w
      /\ (Cardinality(Done) + 1) * w \in Nat /\ Cardinality(Drive) * w \in Nat
  <2>1. w * (Cardinality(Done) + 1) <= w * Cardinality(Drive)
    BY <1>2, <1>4, TimesMonotone
  <2> QED BY <1>2, <1>4, <2>1, TimesNext
<1>6. Via(d, e, cost[e]) \in Nat /\ Via(d, e, cost[e]) <= cost[e] + Worth(d) /\ Worth(d) \in Nat
      /\ Worth(d) <= w
  BY <1>1, <1>3, ViaWorth
<1> QED BY <1>1, <1>2, <1>3, <1>5, <1>6

\* Every step keeps the bound of the costs.
LEMMA GrowNext ==
    ASSUME GraphInv, LenInv, FloodType, FiniteInv, HeapInv, CostInv, DijkstraInv, GrowInv, [Next]_vars
    PROVE  GrowInv'
<1> USE DEF flooding, following
<1>0. ASSUME UNCHANGED <<pending, graph, cost, handle>>, at # "build" PROVE GrowInv'
  BY <1>0 DEF GrowInv, Done, Drive, Worth
<1>1. CASE ProcessRestrictions
  BY <1>1 DEF ProcessRestrictions, GrowInv
<1>2. CASE Seed
  <2>1. /\ at' = "flood" /\ UNCHANGED <<map, dst, graph, pending>> /\ handle' = Seeds /\ pending = {}
        /\ cost' = [d \in Drive |-> SeedCost(d)] /\ Drive' = Drive
    BY <1>2 DEF Seed, Drive
  <2>2. Done' = {} /\ Cardinality({}) = 0
    BY <2>1, FS_EmptySet DEF Done, Seeds
  <2>3. ASSUME NEW w \in Nat, NEW d \in Drive, Worth(d) <= w, SeedCost(d) # Inf
        PROVE  SeedCost(d) <= (0 + 1) * w
    <3>1. d[1].len \in Nat /\ Penalty \in Nat /\ Inf \in Nat
      BY DriveTwin, ConstantsAssumption DEF GraphInv, Segment
    <3>2. Value(NoSeg, d) # Inf /\ SeedCost(d) = (Value(NoSeg, d) * Before(d, dst)) \div 100
      BY <2>3 DEF SeedCost
    <3>3. Value(NoSeg, d) = d[1].len
      <4>1. ~ (d[1].limited /\ NoSeg # NoSeg /\ ~NoSeg.limited)
        OBVIOUS
      <4>2. Value(NoSeg, d) = d[1].len + 0
        BY <3>2, <4>1 DEF Value
      <4> QED BY <3>1, <4>2
    <3>4. Before(d, dst) \in 0 .. 100
      <4>1. dst.percent \in 0 .. 100
        BY ConstantsAssumption DEF FloodType
      <4> QED BY <4>1 DEF Before
    <3>5. SeedCost(d) \in Nat /\ SeedCost(d) <= d[1].len
      BY <3>1, <3>2, <3>3, <3>4, Part
    <3>6. d[1].len <= Worth(d) /\ Worth(d) \in Nat
      BY <3>1 DEF Worth
    <3> QED BY <2>3, <3>1, <3>5, <3>6
  <2>4. \A d : Worth(d)' = Worth(d)
    BY DEF Worth
  <2>5. ASSUME NEW w \in Nat, \A d \in Drive' : Worth(d)' <= w, NEW d \in Drive', cost'[d] # Inf
        PROVE  cost'[d] <= (Cardinality(Done') + 1) * w
    BY <2>1, <2>2, <2>3, <2>4, <2>5
  <2> QED BY <2>1, <2>5 DEF GrowInv
<1>3. CASE Extract
  <2>1. at = "flood" /\ at' = "flood" /\ UNCHANGED <<map, dst, graph, pending>>
    BY <1>3, ExtractIs
  <2>2. PICK m, D : Round(m, D)
    BY <1>3, ExtractIs
  <2>3. /\ Drive' = Drive /\ m \notin D /\ m \notin Done /\ Done' = Done \union {m}
        /\ \A d \in Drive : cost'[d] \in Nat /\ cost'[d] <= cost[d]
        /\ \A d \in D : cost'[d] = Via(d, m, cost[m])
        /\ \A d \in Drive \ D : cost'[d] = cost[d]
    BY <2>1, <2>2, RoundKeeps
  <2>4. /\ m \in Drive /\ cost[m] # Inf /\ cost[m] \in Nat
        /\ \A d \in D : d \in Drive /\ Via(d, m, 0) # Inf
    BY <2>1, <2>2 DEF Round, DijkstraInv, FloodType
  <2>5. Cardinality(Done) \in Nat /\ Cardinality(Done') = Cardinality(Done) + 1
    <3>1. IsFiniteSet(Done)
      BY DriveFinite, FS_Subset DEF Done
    <3> QED BY <2>3, <3>1, FS_AddElement, FS_CardinalityType
  <2>6. \A d : Worth(d)' = Worth(d)
    BY DEF Worth
  <2>7. ASSUME NEW w \in Nat, \A d \in Drive : Worth(d) <= w, NEW d \in Drive, cost'[d] # Inf
        PROVE  cost'[d] <= (Cardinality(Done') + 1) * w
    <3> DEFINE n == Cardinality(Done) + 1
    <3>0. n \in Nat /\ Cardinality(Done') + 1 = n + 1
      BY <2>5
    <3>1. \A x \in Drive : cost[x] # Inf => cost[x] <= n * w
      BY <2>1, <2>7 DEF GrowInv
    <3> HIDE DEF n
    <3>2. n * w \in Nat /\ (n + 1) * w = n * w + w /\ n * w <= (n + 1) * w
      BY <3>0, TimesNext
    <3>3. CASE d \in D
      <4>1. Via(d, m, cost[m]) \in Nat /\ Via(d, m, cost[m]) <= cost[m] + Worth(d) /\ Worth(d) \in Nat
        BY <2>4, <3>3, ViaWorth
      <4>2. cost[m] <= n * w /\ Worth(d) <= w
        BY <2>4, <2>7, <3>1
      <4>3. cost'[d] <= n * w + w
        BY <2>3, <2>4, <3>2, <3>3, <4>1, <4>2
      <4> QED BY <3>0, <3>2, <4>3
    <3>4. CASE d \notin D
      <4>1. cost'[d] <= n * w /\ cost'[d] \in Nat
        BY <2>3, <2>7, <3>1, <3>4
      <4>2. (n + 1) * w \in Nat
        BY <3>0
      <4> QED BY <3>0, <3>2, <4>1, <4>2
    <3> QED BY <3>3, <3>4
  <2> QED BY <2>1, <2>3, <2>6, <2>7 DEF GrowInv
<1>4. CASE Choose
  <2>1. CASE at' = "build"
    BY <2>1 DEF GrowInv
  <2> QED BY <1>0, <1>4, <2>1 DEF Choose
<1>5. CASE Follow \/ NewPosition
  BY <1>0, <1>5 DEF Follow, NewPosition
<1>6. CASE UNCHANGED vars
  <2>1. CASE at = "build"
    BY <1>6, <2>1 DEF vars, GrowInv
  <2> QED BY <1>0, <1>6, <2>1 DEF vars
<1> QED BY <1>1, <1>2, <1>3, <1>4, <1>5, <1>6 DEF Next

\* Every step keeps what is known when there is no path.
LEMMA ShownNext ==
    ASSUME GraphInv, LenInv, FloodType, FiniteInv, HeapInv, CostInv, DijkstraInv, GrowInv, PathInv,
           MetInv, ShownInv, [Next]_vars
    PROVE  ShownInv'
<1> USE DEF flooding, following
<1>0. ASSUME UNCHANGED <<pos, graph, cost, newGraph, found>>, at # "build", ~(at' = "done" /\ path' = <<>>)
      PROVE  ShownInv'
  BY <1>0 DEF ShownInv, ShortWays, Worth, Item, Drive
<1>1. CASE ProcessRestrictions
  BY <1>1 DEF ProcessRestrictions, ShownInv
<1>2. CASE Seed
  BY <1>2 DEF Seed, ShownInv, MetInv
<1>3. CASE Extract
  <2>1. at = "flood" /\ at' = "flood" /\ UNCHANGED <<map, pos, dst, graph, newGraph>>
    BY <1>3, ExtractIs
  <2>2. PICK m, D : Round(m, D)
    BY <1>3, ExtractIs
  <2>3. /\ Drive' = Drive /\ m \notin Done
        /\ \A d \in Drive : cost'[d] \in Nat /\ cost'[d] <= cost[d]
        /\ \A d \in D : cost'[d] = Via(d, m, cost[m])
    BY <2>1, <2>2, RoundKeeps
  <2>4. \A d \in Drive : cost[d] \in Nat /\ cost[d] <= Inf
    BY <2>1 DEF FloodType, CostInv
  <2>5. (ShortWays' <=> ShortWays) /\ \A d : Item(d)' = Item(d)
    BY <2>1 DEF ShortWays, Drive, Worth, Item
  <2>6. SUFFICES ASSUME newGraph, found', ShortWays
                 PROVE  \E d \in Drive : Item(d) = pos.item /\ cost'[d] # Inf
    BY <2>1, <2>3, <2>5 DEF ShownInv
  <2>7. CASE found
    <3>1. PICK d \in Drive : Item(d) = pos.item /\ cost[d] # Inf
      BY <2>1, <2>6, <2>7 DEF ShownInv
    <3> QED BY <2>3, <2>4, <3>1, ConstantsAssumption
  <2>8. CASE ~found
    <3>1. PICK d \in Drive : /\ Item(d) = pos.item /\ Via(d, m, 0) # Inf
                             /\ d \in D \/ ~(Via(d, m, cost[m]) < cost[d])
      BY <2>2, <2>6, <2>8 DEF Round
    <3>2. CASE d \in Done
      BY <2>3, <2>4, <3>1, <3>2, ConstantsAssumption DEF Done
    <3>3. CASE d \notin Done
      <4>1. m \in Drive /\ cost[m] # Inf
        BY <2>1, <2>2 DEF Round, DijkstraInv
      <4>2. Via(d, m, cost[m]) \in Nat /\ Via(d, m, cost[m]) < Inf
        BY <2>1, <2>6, <3>1, <3>3, <4>1, ShortCosts
      <4> QED BY <2>3, <2>4, <3>1, <4>2, ConstantsAssumption
    <3> QED BY <3>2, <3>3
  <2> QED BY <2>7, <2>8
<1>4. CASE Choose
  <2>1. at = "flood" /\ heap = {} /\ UNCHANGED <<map, pos, heap>> /\ path' = <<>>
    BY <1>4 DEF Choose
  <2>2. CASE at' = "build"
    BY <2>2 DEF ShownInv
  <2>3. CASE at' = "follow"
    BY <1>0, <1>4, <2>1, <2>3 DEF Choose
  <2>4. CASE at' = "done"
    <3>1. newGraph /\ next' = NoDrive /\ UNCHANGED <<graph, cost, newGraph, found>>
      BY <1>4, <2>4 DEF Choose
    <3>2. PICK f \in OneOf(Starts(1)), b \in OneOf(Starts(-1)) :
             next' = IF b = NoDrive \/ (f # NoDrive /\ Forwards(f, b)) THEN f ELSE b
      BY <1>4 DEF Choose
    <3>3. f = NoDrive /\ b = NoDrive
      BY <3>1, <3>2
    <3>4. \A k \in {1, -1} : \A s \in Starts(k) : s # NoDrive
      <4> SUFFICES ASSUME NEW k \in {1, -1}, NEW s \in Starts(k) PROVE s # NoDrive
        OBVIOUS
      <4>1. s \in Drive
        BY DEF Starts
      <4>2. s = <<s[1], s[2]>> /\ s[2] \in {1, -1}
        BY <4>1, DriveTwin
      <4>3. \A u, v : <<u, v>> # <<>>
        OBVIOUS
      <4> QED BY <4>2, <4>3 DEF NoDrive
    <3>5. Starts(1) = {} /\ Starts(-1) = {}
      BY <3>2, <3>3, <3>4 DEF OneOf
    <3>6. ASSUME NEW d, Startable(d) PROVE FALSE
      <4>1. d \in Drive /\ d[2] \in {1, -1}
        BY <3>6, DriveTwin DEF Startable
      <4> QED BY <2>1, <3>5, <3>6, <4>1, StartsIs
    <3>7. \A d : Startable(d)' <=> Startable(d)
      BY <2>1, <3>1 DEF Startable, Value, Restricted, Item, Open, RightWay, TailOf, Drive
    <3>8. /\ newGraph' /\ found' /\ ShortWays' =>
                \E d \in Drive' : Item(d)' = pos'.item /\ cost'[d] # Inf
      BY <2>1, <3>1 DEF ShownInv, ShortWays, Worth, Item, Drive
    <3> QED BY <2>1, <2>4, <3>1, <3>6, <3>7, <3>8 DEF ShownInv
  <2> QED BY <1>4, <2>2, <2>3, <2>4 DEF Choose
<1>5. CASE Follow
  <2>1. path' # <<>>
    BY <1>5 DEF Follow, PathInv
  <2> QED BY <1>0, <1>5, <2>1 DEF Follow
<1>6. CASE NewPosition
  BY <1>6 DEF NewPosition, ShownInv
<1>7. CASE UNCHANGED vars
  <2>1. UNCHANGED <<map, pos, graph, cost, heap, newGraph, found, at, path>>
    BY <1>7 DEF vars
  <2> QED BY <2>1 DEF ShownInv, ShortWays, Worth, Startable, Value, Restricted, Item, Open, RightWay, TailOf, Drive
<1> QED BY <1>1, <1>2, <1>3, <1>4, <1>5, <1>6, <1>7 DEF Next

\* The drives of the map within n turns, by recursion
Entrances == {d \in MapDrive : Entered(d)}
UpToTurn(f, n) ==
    f = [i \in 0 .. n |-> IF i = 0 THEN Entrances ELSE LET Q == f[i - 1] IN Spread(Q)]

\* There are as many turns as one likes.
LEMMA TurnsExist == ASSUME NEW n \in Nat PROVE \E f : UpToTurn(f, n)
<1> DEFINE ok == {k \in Nat : \E f : UpToTurn(f, k)}
<1>1. 0 \in ok
  <2> DEFINE f == [i \in 0 .. 0 |-> Entrances]
  <2>1. f = [i \in 0 .. 0 |-> IF i = 0 THEN Entrances ELSE LET Q == f[i - 1] IN Spread(Q)]
    OBVIOUS
  <2> QED BY <2>1 DEF UpToTurn
<1>2. ASSUME NEW k \in Nat, k \in ok PROVE k + 1 \in ok
  <2>1. PICK f : UpToTurn(f, k)
    BY <1>2
  <2> DEFINE g == [i \in 0 .. k + 1 |-> IF i = 0 THEN Entrances ELSE Spread(f[i - 1])]
  <2>2. \A i \in 0 .. k : g[i] = f[i]
    <3> SUFFICES ASSUME NEW i \in 0 .. k PROVE g[i] = f[i]
      OBVIOUS
    <3>1. f[i] = IF i = 0 THEN Entrances ELSE Spread(f[i - 1])
      BY <2>1, Zenon DEF UpToTurn
    <3>2. i \in 0 .. k + 1
      OBVIOUS
    <3> QED BY <3>1, <3>2, Zenon
  <2>3. g = [i \in 0 .. k + 1 |-> IF i = 0 THEN Entrances ELSE LET Q == g[i - 1] IN Spread(Q)]
    <3> HIDE DEF g
    <3>1. \A i \in 0 .. k + 1 : i # 0 => g[i - 1] = f[i - 1]
      <4>1. \A i \in 0 .. k + 1 : i # 0 => i - 1 \in 0 .. k
        OBVIOUS
      <4> QED BY <2>2, <4>1
    <3>2. g = [i \in 0 .. k + 1 |-> IF i = 0 THEN Entrances ELSE Spread(g[i - 1])]
      BY <3>1, Zenon DEF g
    <3> QED BY <3>2
  <2>4. UpToTurn(g, k + 1)
    <3> HIDE DEF g
    <3> QED BY <2>3, Zenon DEF UpToTurn
  <2> HIDE DEF g
  <2> QED BY <2>4
<1> HIDE DEF ok
<1>3. n \in ok
  BY <1>1, <1>2, AllNat
<1> QED BY <1>3 DEF ok

\* What the drives of the map within so many turns are
LEMMA WithinIs ==
    ASSUME map \in Maps
    PROVE  /\ Cardinality(MapDrive) \in Nat /\ Within[0] = Entrances
           /\ \A n \in 0 .. Cardinality(MapDrive) - 1 : Within[n + 1] = Spread(Within[n])
<1> DEFINE K == Cardinality(MapDrive)
<1>0. K \in Nat
  <2>1. IsFiniteSet(map.streets)
    BY ConstantsAssumption
  <2>2. IsFiniteSet({1, -1})
    <3>1. IsFiniteSet({1} \cup {-1})
      BY FS_Singleton, FS_AddElement
    <3>2. {1, -1} = {1} \cup {-1}
      OBVIOUS
    <3> QED BY <3>1, <3>2
  <2>3. IsFiniteSet(MapDrive)
    BY <2>1, <2>2, FS_Product DEF MapDrive
  <2> QED BY <2>3, FS_CardinalityType
<1>1. \E f : f = [i \in 0 .. K |-> IF i = 0 THEN Entrances ELSE LET Q == f[i - 1] IN Spread(Q)]
  <2>1. PICK f : UpToTurn(f, K)
    BY <1>0, TurnsExist
  <2> QED BY <2>1, Zenon DEF UpToTurn
<1>2. Within = CHOOSE f : f = [i \in 0 .. K |-> IF i = 0 THEN Entrances ELSE LET Q == f[i - 1] IN Spread(Q)]
  BY Zenon DEF Within, Entrances
<1>3. Within = [i \in 0 .. K |-> IF i = 0 THEN Entrances ELSE LET Q == Within[i - 1] IN Spread(Q)]
  BY <1>1, <1>2, Zenon
<1>4. \A i \in 0 .. K : Within[i] = IF i = 0 THEN Entrances ELSE Spread(Within[i - 1])
  BY <1>3, Zenon
<1> HIDE DEF K
<1>5. Within[0] = Entrances
  <2>1. 0 \in 0 .. K
    BY <1>0
  <2> QED BY <1>4, <2>1, Zenon
<1>6. ASSUME NEW n \in 0 .. K - 1 PROVE Within[n + 1] = Spread(Within[n])
  <2>1. n + 1 \in 0 .. K /\ n + 1 # 0 /\ n + 1 - 1 = n
    BY <1>0
  <2> QED BY <1>4, <2>1
<1> QED BY <1>0, <1>5, <1>6 DEF K

-----------------------------------------------------------------------------
(* A path if there is any: the theorem *)

WIInv == WholeInv /\ GrowInv /\ ShownInv

\* The invariants of whole ways hold, too.
LEMMA WholeInvariant == Spec => [](FIInv /\ LIInv /\ WIInv)
<1>1. Init => WIInv
  <2> SUFFICES ASSUME Init PROVE WIInv
    OBVIOUS
  <2>1. WholeInv
    BY StreetsWhole DEF Init
  <2>2. at = "build"
    BY DEF Init
  <2> QED BY <2>1, <2>2 DEF WIInv, GrowInv, ShownInv
<1>2. FIInv /\ LIInv /\ WIInv /\ [Next]_vars => WIInv'
  <2> SUFFICES ASSUME FIInv, LIInv, WIInv, [Next]_vars PROVE WIInv'
    OBVIOUS
  <2>1. WholeInv'
    BY WholeNext DEF FIInv, WIInv
  <2>2. GrowInv' /\ ShownInv'
    BY GrowNext, ShownNext DEF FIInv, LIInv, WIInv
  <2> QED BY <2>1, <2>2 DEF WIInv
<1> QED BY <1>1, <1>2, LeastInvariant, PTL DEF Spec

\* While ways are short no drive costs INT_MAX.
LEMMA ShortDrives ==
    ASSUME GraphInv, FiniteInv, ShortWays, NEW x \in Drive
    PROVE  Worth(x) \in Nat /\ Worth(x) < Inf /\ x[1].len \in Nat /\ x[1].len < Inf
<1>1. PICK w \in 0 .. Inf : (Cardinality(Drive) + 1) * w < Inf /\ \A y \in Drive : Worth(y) <= w
  BY DEF ShortWays
<1>2. Inf \in Nat /\ Penalty \in Nat /\ x[1].len \in Nat /\ w \in Nat
  BY <1>1, DriveTwin, ConstantsAssumption DEF GraphInv, Segment
<1>3. Worth(x) \in Nat /\ Worth(x) <= w /\ x[1].len <= w
  BY <1>1, <1>2 DEF Worth
<1>4. Cardinality(Drive) \in Nat
  BY DoneCount
<1>5. w <= (Cardinality(Drive) + 1) * w /\ (Cardinality(Drive) + 1) * w \in Nat
  <2>1. Cardinality(Drive) * w \in Nat /\ (Cardinality(Drive) + 1) * w = Cardinality(Drive) * w + w
    BY <1>2, <1>4, TimesNext
  <2> QED BY <1>2, <2>1
<1> QED BY <1>1, <1>2, <1>3, <1>5

\* When there is no path, no drive that one can get to has a cost.
LEMMA NoneReachable ==
    ASSUME FIInv, LIInv, WIInv, ShortWays, at = "done", path = <<>>
    PROVE  \A d \in Reachable : \E x : StandsFor(x, d) /\ cost[x] = Inf
<1>1. newGraph /\ heap = {} /\ pending = {} /\ handle = {} /\ \A d : ~Startable(d)
  BY DEF FIInv, WIInv, ShownInv, GrowInv, HeapInv
<1>2. ~found
  BY <1>1 DEF LIInv, WIInv, ShownInv, DijkstraInv, Startable
<1>3. Split = Restricted
  BY <1>1 DEF Split
<1>4. \A x \in Drive : Worth(x) \in Nat /\ Worth(x) < Inf /\ x[1].len \in Nat
  BY ShortDrives DEF FIInv, LIInv
<1>5. ASSUME NEW x, NEW d, StandsFor(x, d), NEW s, x[1] # s PROVE Value(s, x) # Inf
  <2>1. x \in Drive /\ Open(x) /\ TailOf(x) \notin Restricted
    BY <1>3, <1>5 DEF StandsFor
  <2>2. Inf \in Nat /\ Penalty \in Nat
    BY ConstantsAssumption
  <2>3. Value(s, x) = x[1].len + (IF x[1].limited /\ s # NoSeg /\ ~s.limited THEN Penalty ELSE 0)
    BY <1>5, <2>1 DEF Value
  <2> QED BY <1>4, <2>1, <2>2, <2>3 DEF Worth
<1> DEFINE shown == {n \in Nat : n <= Cardinality(MapDrive) =>
                        \A d \in Within[n] : d \in MapDrive /\ \E x : StandsFor(x, d) /\ cost[x] = Inf}
<1>6. 0 \in shown
  <2> SUFFICES ASSUME NEW d \in Within[0]
               PROVE  d \in MapDrive /\ \E x : StandsFor(x, d) /\ cost[x] = Inf
    OBVIOUS
  <2>1. d \in MapDrive /\ Entered(d)
    BY WithinIs DEF FIInv, GraphInv, Entrances
  <2>2. Begun(d)
    BY <1>3, <2>1 DEF Begun, Entered
  <2>3. PICK x : StandsFor(x, d)
    BY <2>2 DEF WIInv, WholeInv
  <2>4. x \in Drive /\ Item(x) = pos.item
    BY <2>1, <2>3 DEF StandsFor, Entered
  <2>5. Value(NoSeg, x) # Inf
    <3>1. x[1] # NoSeg
      BY <2>4, DriveTwin DEF FIInv, GraphInv, Segment, NoSeg
    <3> QED BY <1>5, <2>3, <3>1
  <2>6. cost[x] = Inf
    BY <1>1, <2>4, <2>5 DEF Startable
  <2> QED BY <2>1, <2>3, <2>6
<1>7. ASSUME NEW n \in Nat, n \in shown PROVE n + 1 \in shown
  <2> SUFFICES ASSUME n + 1 <= Cardinality(MapDrive), NEW e \in Within[n + 1]
               PROVE  e \in MapDrive /\ \E y : StandsFor(y, e) /\ cost[y] = Inf
    OBVIOUS
  <2>1. Cardinality(MapDrive) \in Nat /\ Within[n + 1] = Spread(Within[n])
    BY WithinIs DEF FIInv, GraphInv
  <2>2. \A d \in Within[n] : d \in MapDrive /\ \E x : StandsFor(x, d) /\ cost[x] = Inf
    BY <1>7, <2>1
  <2>3. CASE e \in Within[n]
    BY <2>2, <2>3
  <2>4. CASE e \notin Within[n]
    <3>1. PICK d \in Within[n] : e \in MapDrive /\ Legal(d, e)
      BY <2>1, <2>4 DEF Spread
    <3>2. PICK x : StandsFor(x, d) /\ cost[x] = Inf
      BY <2>2
    <3>3. PICK y : StandsFor(y, e) /\ TailOf(y) = HeadOf(x)
      BY <2>2, <3>1, <3>2 DEF WIInv, WholeInv
    <3>4. x \in Drive /\ y \in Drive /\ Item(x) # Item(y)
      BY <3>1, <3>2, <3>3 DEF StandsFor, Legal, TurnAllowed
    <3>5. ASSUME cost[y] # Inf PROVE FALSE
      <4>1. Value(y[1], x) # Inf
        BY <1>5, <3>2, <3>4 DEF Item
      <4>2. Value(y[1], x) \in Nat
        BY <3>4, <4>1, ValueNat DEF FIInv
      <4>3. Via(x, y, 0) # Inf
        BY <3>4, <4>1, <4>2 DEF Via
      <4>4. x \in Drive \ Done /\ y \in Done /\ Drive \ Done # {}
        BY <1>1, <3>2, <3>4, <3>5 DEF Done
      <4>5. Via(x, y, cost[y]) \in Nat /\ Via(x, y, cost[y]) < Inf
        BY <3>4, <3>5, <4>3, <4>4, ShortCosts DEF FIInv, LIInv, WIInv
      <4>6. cost[x] <= Via(x, y, cost[y])
        BY <1>2, <3>3, <3>4, <4>3, <4>4 DEF LIInv, DijkstraInv
      <4> QED BY <3>2, <4>5, <4>6, ConstantsAssumption
    <3> QED BY <3>1, <3>3, <3>5
  <2> QED BY <2>3, <2>4
<1> HIDE DEF shown
<1>8. Cardinality(MapDrive) \in Nat /\ Cardinality(MapDrive) \in shown
  BY <1>6, <1>7, AllNat, WithinIs DEF FIInv, GraphInv
<1> QED BY <1>8 DEF shown, Reachable

\* route_path_new finds a legal way to the destination whenever there is one, if no way
\* costs INT_MAX.
THEOREM FloodLeadsToDst == Spec => [](ShortWays => LeadsToDst)
<1>1. FIInv /\ LIInv /\ WIInv /\ ShortWays => PathIfAny
  <2> SUFFICES ASSUME FIInv, LIInv, WIInv, ShortWays, at = "done", path = <<>>,
                      NEW d \in Reachable, Item(d) = dst.item
               PROVE  FALSE
    BY DEF PathIfAny
  <2>1. PICK x : StandsFor(x, d) /\ cost[x] = Inf
    BY NoneReachable
  <2>2. /\ x \in Drive /\ Open(x) /\ TailOf(x) \notin Restricted /\ Item(x) = dst.item
        /\ cost[x] <= SeedCost(x) /\ cost[x] \in Nat
    <3>1. pending = {}
      BY DEF WIInv, GrowInv
    <3> QED BY <2>1, <3>1 DEF StandsFor, Split, FIInv, FloodType, LIInv, DijkstraInv
  <2>3. x[1].len \in Nat /\ x[1].len < Inf /\ Inf \in Nat
    BY <2>2, ShortDrives, ConstantsAssumption DEF FIInv, LIInv
  <2>4. Value(NoSeg, x) = x[1].len
    <3>1. x[1] # NoSeg
      BY <2>2, DriveTwin DEF FIInv, GraphInv, Segment, NoSeg
    <3>2. ~ (x[1].limited /\ NoSeg # NoSeg /\ ~NoSeg.limited)
      OBVIOUS
    <3>3. Value(NoSeg, x) = x[1].len + 0
      BY <2>2, <3>1, <3>2 DEF Value
    <3> QED BY <2>3, <3>3
  <2>5. Before(x, dst) \in 0 .. 100
    <3>1. dst.percent \in 0 .. 100
      BY ConstantsAssumption DEF FIInv, FloodType
    <3>2. \A k \in 0 .. 100 : 100 - k \in 0 .. 100
      OBVIOUS
    <3> QED BY <3>1, <3>2, Zenon DEF Before
  <2>6. SeedCost(x) = (x[1].len * Before(x, dst)) \div 100
    BY <2>2, <2>3, <2>4 DEF SeedCost
  <2>7. SeedCost(x) \in Nat /\ SeedCost(x) <= x[1].len
    BY <2>3, <2>5, <2>6, Part
  <2> QED BY <2>1, <2>2, <2>3, <2>7, ConstantsAssumption
<1>2. FIInv => LegalPath
  BY DEF FIInv, PathInv, LegalPath, Way
<1>3. FIInv /\ LIInv /\ WIInv /\ NoLoop => (ShortWays => LeadsToDst)
  BY <1>1, <1>2 DEF LeadsToDst
<1> QED BY <1>3, WholeInvariant, FloodNoLoop, PTL

\* The sums that route_graph_flood makes, of the cost of a segment that waits in the heap
\* and of one before it, stay below INT_MAX.
SumsFit ==
    at # "build" => \A e \in handle : \A d \in Drive : Via(d, e, 0) # Inf => Via(d, e, cost[e]) < Inf

\* No sum of route_graph_flood overflows, if no way costs INT_MAX: that the model adds
\* without a width leaves nothing out then.
THEOREM FloodSumsFit == Spec => [](ShortWays => SumsFit)
<1>1. FIInv /\ LIInv /\ WIInv => (ShortWays => SumsFit)
  <2> SUFFICES ASSUME FIInv, LIInv, WIInv, ShortWays, at # "build",
                      NEW e \in handle, NEW d \in Drive, Via(d, e, 0) # Inf
               PROVE  Via(d, e, cost[e]) < Inf
    BY DEF SumsFit
  <2>1. e \in Drive /\ e \notin Done /\ cost[e] # Inf
    BY DEF FIInv, FloodType, LIInv, DijkstraInv, Done
  <2> QED BY <2>1, ShortCosts DEF FIInv, LIInv, WIInv
<1> QED BY <1>1, WholeInvariant, PTL
=============================================================================

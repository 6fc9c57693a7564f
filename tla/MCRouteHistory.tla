--------------------------- MODULE MCRouteHistory ---------------------------
(* RouteUpdate with a history variable, for the property that the code      *)
(* keeps only while nobody takes the position off the streets of the graph  *)
(* or imports a list, and no freed block is written to: each of these leads *)
(* to calls that test nothing.                                              *)
EXTENDS MCRouteUpdate

VARIABLE strayed    \* one of these has happened

historyVars == <<vars, strayed>>

Strays ==
    \/ importing' \/ graph'.hit
    \/ ~graph'.covers \/ (pos' # pos /\ pos' # "street")

HistoryInit == Init /\ strayed = FALSE
HistoryNext == Next /\ strayed' = (strayed \/ Strays)
HistorySpec == HistoryInit /\ [][HistoryNext]_historyVars /\ Fairness

-----------------------------------------------------------------------------
(* Properties *)

\* A flood has both its ends: route_graph_flood reads the street of the position,
\* its segment in the graph and the destination without a test.  Nothing in the
\* code prevents a crash; this is all that can lead to one.
FloodHasBothEnds == strayed \/ pc # "crashed"

Settled ==
    pc = "ready" /\ (destinations = <<>> \/ route_status \in Done \union {"not_found"})

\* The commands that throw the route away. Recalculate(FALSE) is no more than a
\* position update.
StartOver ==
    \/ \E d \in DestLists : SetDestinations(d)
    \/ \E id \in DestId : AddDestination(id)
    \/ Recalculate(TRUE) \/ StartCalc

\* When the user does not start over, the route is found or known not to exist again
\* and again - between handlers, where the user sees it - however often positions
\* and reached waypoints come in between, and also after imports have ended.
RouteSettles ==
    <>[][~StartOver]_vars
        => []<>(Settled \/ pos = "none" \/ importing \/ pc = "crashed")

=============================================================================

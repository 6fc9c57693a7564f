--------------------------- MODULE MCRouteClaims ---------------------------
(* RouteUpdate with history variables for two things that comments of the   *)
(* code say of it.                                                          *)
EXTENDS MCRouteUpdate

VARIABLES
    kept,          \* the list was changed since the graph was last flooded
    recalculated   \* message 73 has come after a search that failed

claimVars == <<vars, kept, recalculated>>

Keeps ==
    IF ~graph'.exists \/ graph' = NewGraph \/ graph'.flood # graph.flood THEN FALSE
    ELSE kept \/ destinations' # destinations

\* Only position updates and the route's own work have followed that message.
Recalculates ==
    \/ route_status = "not_found" /\ graph.exists /\ ~graph.building /\ Recalculate(TRUE)
    \/ recalculated /\ (PositionUpdate \/ Build \/ Handler)

ClaimsInit == Init /\ kept = FALSE /\ recalculated = FALSE
ClaimsNext == Next /\ kept' = Keeps /\ recalculated' = Recalculates
ClaimsSpec == ClaimsInit /\ [][ClaimsNext]_claimVars

-----------------------------------------------------------------------------
(* Properties *)

\* "The route graph has to be destroyed if the route's destination is changed
\* somewhere": no position update extracts a path from a graph that was kept
\* while the list changed, with the costs of a destination no longer in it.
GraphDestroyedOnChange ==
    pc = "done" /\ frame = "update" /\ kept => graph.flood \in Range(destinations)

\* Message 73 "destroys the route graph and calcs everything totally new": the
\* route it finds leads past all waypoints to the last destination.
RecalculatedWhole ==
    recalculated /\ pc = "ready" /\ pos # "none" /\ route_status \in Done =>
        Len(path2) = Len(destinations)

=============================================================================

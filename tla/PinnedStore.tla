---------------------------- MODULE PinnedStore ----------------------------
(***************************************************************************)
(* What the cache of map data promises to the code that reads map files:   *)
(* a read returns data that stays in memory until the reader gives it      *)
(* back, and to make room the store throws out at most one entry per read, *)
(* one that nobody has in hand. Which entry goes is left open; see         *)
(* ArcCache for the policy of cache.c.                                     *)
(***************************************************************************)
EXTENDS Naturals

CONSTANT Id        \* identities of pieces of map data

VARIABLES
    resident,      \* the pieces whose data is in memory
    held           \* how often a piece is in the hands of readers

vars == <<resident, held>>

Init ==
    /\ resident = {}
    /\ held = [id \in Id |-> 0]

Unheld == {id \in resident : held[id] = 0}

\* A piece is brought into memory, or found there; at most one other goes.
Keep(id) == \E out \in {{}} \union {{o} : o \in Unheld \ {id}} :
                resident' = (resident \ out) \union {id}

\* A reader gets the piece.
Acquire(id) ==
    /\ Keep(id)
    /\ held' = [held EXCEPT ![id] = @ + 1]

\* The file could not be read: the place is made, and nobody holds it.
Fail(id) ==
    /\ id \notin resident
    /\ Keep(id)
    /\ UNCHANGED held

\* A reader gives the piece back, and the store may keep it ...
Release(id) ==
    /\ held[id] > 0
    /\ held' = [held EXCEPT ![id] = @ - 1]
    /\ UNCHANGED resident

\* ... or must not, since its only reader says that it is out of date.
Discard(id) ==
    /\ held[id] = 1
    /\ held' = [held EXCEPT ![id] = 0]
    /\ resident' = resident \ {id}

Next == \E id \in Id : Acquire(id) \/ Fail(id) \/ Release(id) \/ Discard(id)

Spec == Init /\ [][Next]_vars
=============================================================================

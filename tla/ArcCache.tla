------------------------------ MODULE ArcCache ------------------------------
(***************************************************************************)
(* The cache of map data: cache.c, an adaptive replacement cache, as       *)
(* file.c uses it for every read of a map file.                            *)
(*                                                                         *)
(* Two lists hold data, t1 (read once) and t2 (read again); two lists of   *)
(* ghosts, b1 and b2, remember what was thrown out of them. t1_target says *)
(* how much of the room t1 should have and follows the ghosts that are     *)
(* asked for. A reader works on the data in place, so an entry with        *)
(* readers (usage > 0) must not be thrown out, however the lists are       *)
(* turned over.                                                            *)
(*                                                                         *)
(* Lists are sequences, the most recently used entry first. An entry is    *)
(* known by the id it is read with (file, offset and length).              *)
(*                                                                         *)
(* Abstracted: the data itself, the hash function, the statistics. The     *)
(* operators that model the functions of cache.c take the cache and give   *)
(* the cache that the function leaves behind.                              *)
(***************************************************************************)
EXTENDS Integers, Sequences, FiniteSetsExt

CONSTANTS
    Id,           \* what is read: pieces of map files
    DataSize,     \* bytes of a piece
    EntrySize,    \* bytes of an entry without data
    CacheSize,    \* cache_size_file
    MaxHeld       \* bound on the pieces in the hands of readers at a time

ASSUME SizesAssumption ==
    /\ IsFiniteSet(Id)
    /\ DataSize \in [Id -> Nat \ {0}]
    /\ EntrySize \in Nat \ {0} /\ CacheSize \in Nat /\ MaxHeld \in Nat

VARIABLES
    cache,        \* struct cache
    held          \* pointers to the data of a piece that readers have

vars == <<cache, held>>

DataList == {"t1", "t2"}
GhostList == {"b1", "b2"}
List == DataList \union GhostList
GhostsOf == [l \in DataList |-> IF l = "t1" THEN "b1" ELSE "b2"]
Other == [l \in DataList |-> IF l = "t1" THEN "t2" ELSE "t1"]

\* struct cache_entry; where: the list it is in.
Entry == [usage : Nat, size : Nat, where : List \union {"none"}]
NoEntry == [usage |-> 0, size |-> 0, where |-> "none"]

TypeOK ==
    /\ cache \in [list : [List -> Seq(Id)], size : [List -> Int],
                  entry : [Id -> Entry], hash : SUBSET Id, t1_target : Int]
    /\ held \in [Id -> Nat]

Init ==
    /\ cache = [list |-> [l \in List |-> <<>>], size |-> [l \in List |-> 0],
                entry |-> [id \in Id |-> NoEntry], hash |-> {}, t1_target |-> 0]
    /\ held = [id \in Id |-> 0]

-----------------------------------------------------------------------------
(* Lists and entries *)

Members(s) == {s[i] : i \in DOMAIN s}

InsertMru(c, l, id) ==
    [c EXCEPT !.list[l] = <<id>> \o @,
              !.size[l] = @ + c.entry[id].size,
              !.entry[id].where = l]

Position(s, id) == CHOOSE i \in DOMAIN s : s[i] = id

Unlink(c, id) ==
    LET l == c.entry[id].where
        i == Position(c.list[l], id)
    IN  [c EXCEPT !.list[l] = SubSeq(@, 1, i - 1) \o SubSeq(@, i + 1, Len(@)),
                  !.size[l] = @ - c.entry[id].size]

\* Mutant: the hash keeps pointing to memory given back.
RemoveKeepsHash(c, id) == [c EXCEPT !.entry[id] = NoEntry]

\* The entry leaves the hash and its memory is given back.
Remove(c, id) == [c EXCEPT !.hash = @ \ {id}, !.entry[id] = NoEntry]

\* Mutant: readers do not protect an entry.
UnusedAny(c, l) == DOMAIN c.list[l]

\* Positions of a list whose entries have no readers.
Unused(c, l) == {i \in DOMAIN c.list[l] : c.entry[c.list[l][i]].usage = 0}

\* The one of them that is nearest to the end.
LruPos(c, l) == CHOOSE i \in Unused(c, l) : \A j \in Unused(c, l) : j <= i

Lru(c, l) == c.list[l][LruPos(c, l)]

\* Used entries at the end are moved to the head until an unused one is last,
\* which is taken out.
TakeLru(c, l) ==
    LET i == LruPos(c, l) IN
    [c EXCEPT !.list[l] = SubSeq(@, i + 1, Len(@)) \o SubSeq(@, 1, i - 1),
              !.size[l] = @ - c.entry[Lru(c, l)].size]

\* Nothing happens if all entries have readers: the list went once around.
RemoveLru(c, l) == IF Unused(c, l) = {} THEN c ELSE Remove(TakeLru(c, l), Lru(c, l))

\* Mutant: the new entry keeps the size of the old one.
TrimKeepsSize(c, id) == c

\* The data goes, the entry stays.
Trim(c, id) == [c EXCEPT !.entry[id].size = EntrySize]

Move(c, from, to) == InsertMru(Trim(TakeLru(c, from), Lru(c, from)), to, Lru(c, from))

Larger(a, b) == IF a > b THEN a ELSE b
Smaller(a, b) == IF a > b THEN b ELSE a

\* Mutant: the second list is used up too although the first gave an entry.
ReplaceBoth(c) ==
    LET m == IF Unused(c, "t1") # {} THEN Move(c, "t1", "b1") ELSE c
    IN  IF Unused(m, "t2") # {} THEN Move(m, "t2", "b2") ELSE m

\* Makes a ghost of an entry of t1 or t2, of the other list if the one that
\* should give up room has only entries with readers.
Replace(c) ==
    LET first == IF c.size["t1"] >= Larger(1, c.t1_target) THEN "t1" ELSE "t2"
        second == Other[first]
    IN  CASE Unused(c, first) # {} -> Move(c, first, GhostsOf[first])
          [] Unused(c, first) = {} /\ Unused(c, second) # {} ->
                Move(c, second, GhostsOf[second])
          [] OTHER -> c

Total(c) == c.size["t1"] + c.size["t2"] + c.size["b1"] + c.size["b2"]

\* Mutant: ghosts of t2 are never forgotten.
MakeRoomKeepsGhosts(c) ==
    IF c.size["t1"] + c.size["b1"] >= CacheSize
    THEN IF c.size["t1"] < CacheSize
         THEN Replace(RemoveLru(c, "b1"))
         ELSE RemoveLru(c, "t1")
    ELSE IF Total(c) >= CacheSize THEN Replace(c) ELSE c

\* Mutant: room is made only when the ghosts have filled theirs, too.
MakeRoomLate(c) ==
    IF c.size["t1"] + c.size["b1"] >= CacheSize
    THEN IF c.size["t1"] < CacheSize
         THEN Replace(RemoveLru(c, "b1"))
         ELSE RemoveLru(c, "t1")
    ELSE IF Total(c) >= 2 * CacheSize THEN Replace(RemoveLru(c, "b2")) ELSE c

\* What cache_insert does before it inserts into t1.
MakeRoom(c) ==
    IF c.size["t1"] + c.size["b1"] >= CacheSize
    THEN IF c.size["t1"] < CacheSize
         THEN Replace(RemoveLru(c, "b1"))
         ELSE RemoveLru(c, "t1")
    ELSE IF Total(c) >= CacheSize
         THEN Replace(IF Total(c) >= 2 * CacheSize THEN RemoveLru(c, "b2") ELSE c)
         ELSE c

\* Mutant: the reader is not counted.
NewEntryUnused(c, l, id) ==
    InsertMru([c EXCEPT !.entry[id] = [usage |-> 0, size |-> EntrySize + DataSize[id],
                                       where |-> "none"],
                        !.hash = @ \union {id}], l, id)

\* The entry of a piece that was not in memory, with one reader.
NewEntry(c, l, id) ==
    InsertMru([c EXCEPT !.entry[id] = [usage |-> 1, size |-> EntrySize + DataSize[id],
                                       where |-> "none"],
                        !.hash = @ \union {id}], l, id)

\* cache_entry_destroy: a reader less.
Unuse(c, id) == [c EXCEPT !.entry[id].usage = @ - 1]

\* Mutant: the bounds are forgotten.
AdaptedUnbounded(c, id) ==
    IF c.entry[id].where = "b1" THEN c.t1_target + 1 ELSE c.t1_target - 1

\* t1_target after a ghost was asked for.
Adapted(c, id) ==
    LET ratio(other, own) == Larger(c.size[other] \div c.size[own], 1) IN
    IF c.entry[id].where = "b1"
    THEN Smaller(c.t1_target + ratio("b2", "b1"), CacheSize)
    ELSE Larger(c.t1_target - ratio("b1", "b2"), 0)

-----------------------------------------------------------------------------
(* What readers of map files do *)

Where(id) == IF id \in cache.hash THEN cache.entry[id].where ELSE "none"

MayHold == SumFunctionOnSet(held, Id) < MaxHeld

\* file_data_read of a piece in memory.
Hit(id) ==
    /\ Where(id) \in DataList
    /\ MayHold
    /\ cache' = [InsertMru(Unlink(cache, id), "t2", id) EXCEPT !.entry[id].usage = @ + 1]
    /\ held' = [held EXCEPT ![id] = @ + 1]

\* After the entry is made the file is read; if that fails the reader gets
\* nothing and the entry stays, without readers. That is file_data_read: when a
\* compressed or encrypted piece cannot be read the code gives a pointer into the
\* entry to g_free, which is undefined and left out.
Filled(id, c) ==
    \/ /\ cache' = c
       /\ held' = [held EXCEPT ![id] = @ + 1]
    \/ /\ cache' = Unuse(c, id)
       /\ UNCHANGED held

\* file_data_read of a piece that is remembered as a ghost.
Refetch(id) ==
    /\ Where(id) \in GhostList
    /\ MayHold
    /\ LET found == Unlink([cache EXCEPT !.t1_target = Adapted(cache, id)], id)
       IN  Filled(id, NewEntry(Remove(Replace(found), id), "t2", id))

\* file_data_read of a piece the cache does not know.
Fetch(id) ==
    /\ Where(id) = "none"
    /\ MayHold
    /\ Filled(id, NewEntry(MakeRoom(cache), "t1", id))

\* file_data_free
Free(id) ==
    /\ held[id] > 0
    /\ cache' = Unuse(cache, id)
    /\ held' = [held EXCEPT ![id] = @ - 1]

\* file_data_remove by the only reader of the piece.
Discard(id) ==
    /\ held[id] = 1
    /\ cache' = Remove(Unlink(cache, id), id)
    /\ held' = [held EXCEPT ![id] = 0]

Next == \E id \in Id : Hit(id) \/ Refetch(id) \/ Fetch(id) \/ Free(id) \/ Discard(id)

Spec == Init /\ [][Next]_vars

-----------------------------------------------------------------------------
(* Properties *)

Resident == Members(cache.list["t1"]) \union Members(cache.list["t2"])

\* The cache is a store that never throws out data a reader has in hand, and
\* throws out at most one piece per read.
Store == INSTANCE PinnedStore WITH resident <- Resident

StoreSpec == Store!Spec

\* The hash knows exactly the entries that are in a list, no entry is in two
\* lists or in one twice, and where says in which one it is.
HashMatchesLists ==
    /\ cache.hash = UNION {Members(cache.list[l]) : l \in List}
    /\ \A l \in List :
          /\ \A i, j \in DOMAIN cache.list[l] :
                cache.list[l][i] = cache.list[l][j] => i = j
          /\ \A id \in Members(cache.list[l]) : cache.entry[id].where = l

\* The data that readers have is in memory, the entry counts them, and a ghost
\* has none.
HeldIsResident ==
    \A id \in Id :
        /\ held[id] > 0 => id \in Resident
        /\ id \in cache.hash => cache.entry[id].usage = held[id]

\* The bytes of an entry in a list.
Bytes(l) == [id \in Id |-> IF l \in DataList THEN EntrySize + DataSize[id] ELSE EntrySize]

\* The byte counts of the lists are the sizes of their entries, with data in t1
\* and t2 and without in b1 and b2.
BytesAddUp ==
    \A l \in List : cache.size[l] = SumFunctionOnSet(Bytes(l), Members(cache.list[l]))

\* The room meant for t1 is never negative nor more than all.
TargetInRange == cache.t1_target \in 0 .. CacheSize

\* Pieces of one size, and readers that hold, before one of them reads, less
\* than the cache is meant for: without either nothing bounds the memory in use.
LargestData == Max({DataSize[id] : id \in Id})
LargestPiece == EntrySize + LargestData
EqualPieces == \E n \in Nat : {DataSize[id] : id \in Id} = {n}
FewReaders == (MaxHeld - 1) * LargestPiece < CacheSize

\* Then the data in memory fits into the configured size, but for the piece that
\* was read last.
ResidentFits == cache.size["t1"] + cache.size["t2"] < CacheSize + LargestPiece

\* ... and all that is remembered, ghosts too, into twice that size, but for two
\* entries and the data of one piece per reader.
TotalFits == Total(cache) < 2 * (CacheSize + EntrySize) + MaxHeld * LargestData
=============================================================================

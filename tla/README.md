# ZANavi in TLA+

A verification project for ZANavi, the Android navigation program derived from Navit.  It models the
parts of the program where order, interleaving or long sequences of calls decide whether it works, checks
them with TLC on small instances and proves the main results with TLAPS for every instance.

`N/` stands for `src/navit/`, `J/` for `src/navit/android/src/com/zoffcc/applications/zanavi/`.

| module | models | checked by | proved in |
| --- | --- | --- | --- |
| `EventTimers` | timers of the Android event backend | `timers` | `EventTimersProofs` |
| `RouteUpdate` | the route controller of `route.c` | `route`, `route_import`, `route_stray_write`, `route_whole` | `RouteUpdateProofs`, `RouteHistoryProofs` |
| `RouteFlood` | turn restrictions, flood and path extraction of `route.c` | `route_flood` | `RouteFloodProofs` |
| `WorkerThread` | `CWorkerThread`, the queues into the C core | `worker_fixes`, `worker_flood`, `worker_served` | `WorkerThreadProofs` |
| `ArcCache` | the cache of map data (`cache.c`, `file.c`) | `arc_safety`, `arc_equal` | `ArcCacheProofs` |
| `PinnedStore` | what that cache promises its readers (abstract) | implemented by `ArcCache` | `ArcCacheProofs` |
| `MapDownload` | the map downloader and its service | `map_download` | `MapDownloadProofs` |

`Counting` holds what the proofs share: induction over the naturals, sums and sizes of finite sets.
The `MC*` modules give values to constants; `MCRouteHistory` and `MCRouteClaims` add history variables to `RouteUpdate`.  In the
component modules a definition named after another (`DropNewest`, `RebuildKeepsPath`, ...) and introduced by
"Variant" or "Mutant" is a
plausible bug in the same place; nothing uses it but the mutation runs, which show that a property would
notice the bug.

## 1. Inventory

ZANavi is a C core (`N/*.c`, some 30 files in the Android build) below a Java front end (`J/*.java`).  One
Java thread, `CWorkerThread`, is meant to be the only one inside the core; all other threads put a request
on one of its eight queues and interrupt it.  Inside the core everything is a call, often through a
callback; long work is cut into slices by idle callbacks, which are timers.

    location listener, tunnel    UI thread      timer threads (NavitTimeout)
              |                     |                  |
            queue6          queue, 5, 3, 7, 8, 2    queue4          offer, then interrupt
              +---------------------+------------------+
                                    v
                    CWorkerThread: rounds over the queues     (WorkerThread)
                                    |  JNI
          +-------------------------+------------------------+
          v                         v                        v
    TimeoutCallback           messages, fixes            drawing
    (EventTimers)                   v                        |
          |            navit.c, vehicle.c, track.c           |
          +---------> route.c (RouteUpdate) ---------> map drivers
                          graph, flood, path                 v
                                 |                   file.c, cache.c (ArcCache)
                                 +--> navigation.c --> speech

| component | state | operations | with whom | what is hard | what makes it correct |
| --- | --- | --- | --- | --- | --- |
| worker thread (`J/Navit.java` 7700-8570) | eight queues, interrupt status, place in the round | the producers' offer and interrupt, the loops of `run` | all Java threads, the core | the test before the sleep sees two queues of eight; size test and poll are apart; floods | no lost wakeup, order of fixes, no starvation, nothing before `NavitMain` |
| event timers (`J/NavitTimeout.java`, `N/graphics/android/graphics_android.c`) | a thread, `running` and a C callback per timer | arm, remove, tick, dispatch | worker (queue4), every client of `event_add_timeout`/`event_add_idle` | ticks in flight when a timer is removed and its callback freed | a freed callback is never called, ticks do not block the round |
| route controller (`N/route.c` 930-1100, 1500-1900, 5060-5250) | destinations, position, graph, chain of paths, status | commands, position updates, build slices, flood, extraction | navit.c, track.c, map drivers, timers | any command between two slices of a build; re-entrant callbacks; imports by messages | path, graph and status agree, the route settles |
| flood and extraction (`N/route.c` 4138-4710, 4875-5047) | graph points, segments, costs, a heap | restrictions, flood, `route_path_new` | route controller | two loops that stop at different times; heap elements that do not name a direction; old costs for new positions | least costs where they matter, a legal path whenever there is one |
| cache of map data (`N/cache.c`, `N/file.c`) | four lists, a hash, sizes, a target | read, give back, remove | map drivers | data in place in the hands of readers while others are thrown out | no data is lost to its reader, the lists, hash and counts agree, bounded memory |
| callback lists (`N/callback.c`) | a list of callbacks by type | add, remove, call | everything | callbacks that change the list they are called from | every callback present throughout is called once |
| map downloader (`J/NavitMapDownloader.java`, `J/ZANaviMapDownloaderService.java`) | temporary and final files, kept MD5 sums, static flags; per thread a range and a position | start, cancel, the end of the service, delete, kill and restart; the steps of a thread | network, storage, the list of maps | threads that share files, broken connections, splits, cancels and overlaps at any point | what is taken for up to date or is listed is whole, cancels are heeded, nothing stays behind |
| navigation (`N/navigation.c`) | the manoeuvres of the path, announcement levels | update, announce | route, speech | following a changed path | an announcement once per level |
| tracking (`N/track.c`) | current line, last position | update | vehicle, route | numerics | - |
| navit object (`N/navit.c`) | views, vehicles, bookmarks | attributes, handlers | all | size | - |
| drawing (`N/graphics.c`, `J/NavitGraphics.java`) | display list, canvas buffers, a mutex around `do_draw` | draw, cancel | worker, UI thread | two threads at the buffers | no half drawn buffer is shown |
| map drivers (`N/map/`), search (`N/search.c`), objects and configuration (`N/attr.c`, `item.c`, `mapset.c`, `xmlconfig.c`), geometry (`N/transform.c`), commands and displays (`N/command.c`, `gui/`, `osd/`), vehicles and speech | - | parsing, enumeration, floating point | - | data, not control | - |
| file watches (`J/NavitWatch.java`) | - | - | - | dead: `run` never leaves `Looper.loop()` | - |
| map compiler (`N/maptool/`) | files | phases of a batch run | - | volume | - |

`PROJECT.json` lists the same components with their status, and the hazards, each at its line with the
properties that watch it or the reason why none does.

## 2. Plan

Done, in this order, by weight in the program and by how little a test would reach:

1. `EventTimers` - the carrier of all deferred work.
2. `RouteUpdate` - the core of a navigation program and its most intricate control.
3. `WorkerThread` - the way of every event into the core.
4. `ArcCache` over `PinnedStore` - below every map access.

5. `MapDownload` - the one component that survives kills, and the one with the most threads at the same files.
6. `RouteFlood` - what `RouteUpdate` leaves open: whether and which path is found.

Left, in this order:

7. `CallbackList` - calls of a list whose callbacks add and remove (`callback.c`); abstract specification: the
   set called.
8. An abstract specification of timers refined by `EventTimers`, and of a queue into the core refined by
   `WorkerThread`; the two then compose, ticks of the former being the "tick" events of the latter.
9. Announcements (`navigation.c`) and the drawing mutex.

The project keeps the number of runs small: a new component gets one run for all its properties, and a
violation run gives way when its place is needed.

## 3. The modules and the code

### EventTimers

A value of `Timer` is a `NavitTimeout` object.  `thread[t]` is the place in `NavitTimeout.run`, one action
per access to shared state: `ThreadLoop` (`while (running)`), `ThreadWake` (the sleep ends), `ThreadTest`
(`if (running)`, where a single-shot timer stops itself), `ThreadOffer` (`TimeoutCallback2`,
`queue4.offer`), `ThreadEnd`.  The worker's share is the queue4 loop: `WorkerPoll`, `WorkerCheck` (the test
of `running` and `event_multi`) and the call.  Clients run inside any handler: `AddTimeout`, and a takedown
that may destroy the callback before (`vehicle_destroy`) or after (`route_graph_build_done`,
`vehicle_set_cursor`) or not at all (`command_saved`).  `Collect` lets a used object be used again.
Periods are abstracted: a sleep may end at any time.  The clients' rule that the model takes from all
active callers: only repeating timers are removed.

* `DispatchLive` - the callback is live at every call.
* `RoundEnds`, `TimerServed` - the loop over the ticks ends although timers go on; a repeating timer is
  called again and again until it is removed.

### RouteUpdate

The state is that of `struct route`: `pos`, `destinations`, `current_dst`, `graph` (`busy`, whether the idle
event of a build is registered, the slices done, the destination the flood began at), `path2` with its
`next` chain, `link_path`, `try_harder`, `route_status`.  A path is represented by the destination it leads
to, and whether one is found is open.  One thread runs all this, but commands come between any two slices
of a build, and inside a handler the functions call each other: `pc` and `frame` are that call stack
(`BuildDone` -> `Flood` -> `route_path_update_done` (`DoneLink`, `DonePath`, `DoneHarder`, `DoneNotFound`) ->
`Flood` ... -> `Return` to `route_path_update` or `route_graph_build_done`).  `route_path_update` is an
operator because every command ends in it.  Imports (`*_no_calc`, one message per destination and one to
start) are on with `Osrm`.

The graph is built for an area around the position of that time.  `covers` says whether it has the street the
position is on now: a position update may yield a street that the graph does not have ("far").  `route_graph_flood`
looks for the position's segment in the graph (`route_graph_get_segment`, which returns NULL when it is not there) and
dereferences it without a test, as it does with the street and the destination; each of these is the state `crashed`.

Undefined behaviour is explicit: a status read from an uninitialised variable may be anything
(`Undefined` included), and the write of `route_graph_build_done` to a freed graph (`route.c:5108`) clears `busy` of the
new graph when the allocator gave it the same block (`FreedBlockReused`).  `hit` remembers that this
has happened to the graph; nothing the model does depends on it.

Properties are stated between handlers, where users and other components look, and hold whether or not freed blocks are
reused.

* `PathHasGraph`, `BusyUnlessHit`, `PathLeadsToNext`, `GraphServesDst`, `StatusHonest` - path, graph,
  list and status agree; the last three are suspended while an import is going on and hold again with its
  last message.  What the stray write can do is part of them: it clears `busy` of no graph but that of the search over a
  larger area, until its build is done (`BusyUnlessHit`); in that time a path may be shown over a graph that is not built, and
  position updates may read one without costs (`PathHasGraph`, `GraphServesDst`).
* `FloodHasBothEnds` - the ends of a flood exist as long as the position stays on streets of the graph, nothing is
  imported and no stray write has hit a graph.  The code does not see to it: each of the exceptions can crash, and the
  property says that nothing else can.
* `RouteSettles` - when the user stops starting over, the route is found or known not to exist again and
  again, however often positions change and waypoints are reached (or the program has crashed).

The last two are stated in `MCRouteHistory`, which remembers whether one of the exceptions has happened.
`MCRouteClaims` has the history that two comments of the code are about.

### RouteFlood

The map is streets with a length, the directions one may drive, "no through traffic", and turn
restrictions between places.  `ProcessRestrictions` is `route_graph_process_restrictions` for one point (the
points come in the order of a hash table): for each street that comes in, the point gets a copy, with clones of
the streets one may turn into, and the point itself is closed (`Restricted`).  `Seed` puts the street of the
destination into the heap, `Extract` is one round of the flood, `Choose` and `Follow` are `route_path_new`.  A
drive is a segment with a direction: `cost`, `from` and `handle` are `seg_start_out_cost`/`seg_end_out_cost`,
`end_from_seg`/`start_from_seg` and `el_start`/`el_end`.  The heap's elements name a segment only, and `Cheaper` is how
the code guesses the direction; `heap` keeps the true one.  What a profile makes of one-way flags is
`route_get_real_oneway_mask`: a car heeds all, a bicycle none, or all but those of some streets (`free`), and a street may be closed
to a vehicle altogether (`closed`); `Open` are the drives a vehicle may make.  As a clone is a one-way copy by nothing but such a flag,
the clone of a free street can be driven both ways.  The order of lists is open, and
with it where the shortcut (`max_cost`, `found`) cuts the second loop of a round.  `NewPosition` is
`route_path_update` with a path: the costs stay, and a new graph is built only when they give no path.

* `ElementsInHeap` - `fh_replacekey` never gets an element that has left the heap, in spite of the guess.
* `LeastFirst` - the flood is Dijkstra's until it meets the street of the position.
* `LeadsToDst` - the path is legal (`LegalPath`: for a bicycle but for turns out of free streets, see below) and ends at
  the destination, no drive is on it twice (`NoLoop`: the loop of
  `route_path_new` has no bound of its own, and streets may cost nothing), and there is one whenever there is a way in
  the map, as it was before points were split; with old costs too.  `Reachable` are the drives that a vehicle on the street
  of the position gets to, by any number of turns.
* `NearBest` - the shortcut costs no more than a length of the first street, its penalty, and a turn.

What the code does not keep, found while these were written: a bicycle can be led over a forbidden turn, by a clone of a free
street that is taken backwards (without the exception in `Taken` TLC shows it violated on the junctions of the run);
because of the shortcut a path is not always the
best one (`Best` with equality, and `Best` plus a length without the turn, are violated; in the square of the
run, from a position on street e; with a higher penalty so is `Best` plus a length and a turn: the direction
that is met first can be the one that pays for through traffic); and a path on the street of the destination itself goes
on to the end of
the street (`route.c:4671` compares a segment with a successor the flood never sets): `LeadsToDst` still says that there
is one and that it is legal, but not that it stops at the destination.

The model adds costs without a width, the code adds `int`s.  `ShortWays` says that the two are the same: all drives of
the graph together, each as dear as the dearest, and one more, cost less than `INT_MAX`.  Nothing in the code tests it
(costs are tenths of a second: a graph of 100 000 drives may have one of half an hour), so it is no assumption of the module but
a hypothesis of the theorems that need it; it holds in every state of the run, with an `Inf` of 2000.

### WorkerThread

`queue[k]` for the eight kinds, named for their contents, in the order of a round.  A producer goes through
`Begin`, for fixes `TestFixes`/`DropFix` (`VehicleCallback3` tests the size and polls in separate steps),
`Offer` and `Interrupt`.  The worker goes through `Top` (the test of queue4 and queue6), `Awake`
(`Thread.sleep(2000)` ends by time or interrupt and clears the status), `Start` (`NavitMain`), and for each
queue the loop `Take`, `Returned`, `Leave`, with `Draw` between the poll of a motion and the test of the queue's size that
decides whether it is drawn (others may be offered in between), and `FixBetween` where the code looks at queue6 between two
events.  Several threads may have fixes (the listener, and the tunnel or demo thread).

Assumed: nothing in the core consumes the interrupt status; `stop_me`, which nothing calls, is left out;
`StartMain` is one action.

* `NoLostWakeup`, `CoreFirst`, `FixesBounded`, `FixesInOrder`, `NewestFixKept`, `LastMotionDrawn`,
  `FixServed`, `AllServed` - see the comments in the module.

### ArcCache and PinnedStore

`cache` is `struct cache`: the lists t1, t2 and the ghosts b1, b2 (the most recent first), their byte counts,
the entries (`usage`, `size`, `where`), the hash and the target of t1.  The functions of `cache.c` are
operators from caches to caches, and the actions are the calls of `file.c`: a read is `Hit`, `Refetch` (a
ghost) or `Fetch`, each with a failing variant; `Free` and `Discard` give data back.  All divisions and
list searches of the code are kept; data, hash function and statistics are not.

`PinnedStore` is what readers rely on: a set of resident pieces and a count of hands per piece; a read
keeps all but at most one piece that nobody holds.  `ArcCache` implements it with
`resident <- Resident` (the members of t1 and t2).

Assumed: `file.c` is the only user, a reader gives a datum back once, `file_data_remove` is called by the
only reader (the driver's update of maps with an url, `binfile.c:1199`, is not configured in the
application), one thread is in the core, the cache exists before the first read.  Failing reads are those of
`file_data_read`; when a compressed or encrypted piece cannot be read or uncompressed, the code gives a pointer into an
entry to `g_free` (`file.c:784-930`, `974-1030`), which is undefined and left out.

* `HashMatchesLists`, `HeldIsResident`, `BytesAddUp`, `TargetInRange`, `StoreSpec`.
* `ResidentFits`, `TotalFits` - with pieces of one size (`EqualPieces`), and readers whose pieces fill less than the
  configured size `C` (`FewReaders`), the data in memory stays below `C` and one piece, and all entries below `2C`, two
  entries and the data of one piece per reader.  `2C` and one piece, which the tests of `cache_insert` suggest, is
  not true: when b2 is empty and t1, t2 have `2C` together with b1, room is made by one more ghost.  Without
  `EqualPieces` nothing holds: each read makes room for one entry, whatever the new one needs (`navit.h:114` says no
  more than "cache size in bytes"); without `FewReaders` neither: a cache in the hands of its readers cannot shrink.

### MapDownload

One map of the server, fetched by downloads that may overlap.  `at[d]` is the place of the download thread, from
`onStartCommand` (`Begin`) through `ProgressThread.run` and `download_osm_map` (`Reset` to `Cleanup`) to the
message at its end (`HandleEnd`); mirrors are searched before the threads start (`Search`, then `Prepare`).
`thread[d][k]` is a `MultiStreamDownloaderThread` with its range, its position and the file it has open, one action per test
of the flags and per use of a file: `Enter` (the flag) and `Open`, `Attempt` (both flags) and `Connect` (the position to go on
at, the file closed and opened again, and only then the flag again), `Read` (one buffer, up to the border of a split file),
`Split`.  A cancel may come between the flag and the file, which is then made anew.
A file is the set of its bytes by the version that wrote them; an open file goes with its name when
it is renamed and to nowhere when it is deleted, as on Linux (`Redirected`).  The main thread has `Cancel` and
`OnDestroy` (both in two steps, `StopThread` and `StopThreadEnd`, as in the code), and the deletion of a map from the list in three
(`Delete` takes its line out of the catalogue, `DeleteFiles` its files, `DeleteSum` its MD5 file); `Kill` is the end of the
process at any point and `init_cat_file` afterwards; `Publish` is a new version on the server.

`UpToDate` is what the user relies on: a map that is not downloaded again because its kept MD5 sum is that of
the server is there.  It does not hold without exception; `disturbed` records what breaks it:

* a cancel (or the end of the service) after the check of the file and before the renames are done: the sum of
  a map that is gone is kept;
* two downloads at a time, which share the temporary files;
* a mirror that offers another version: `find_file_on_other_mapserver` saves its sum over that of the chosen
  server;
* a map that `init_cat_file` found without knowing its name, deleted by the user: its MD5 file stays;
* a kill while a map is being deleted, after its files and before its MD5 file: the sum stays and the map is gone, which
  the property would show without that exception (a download, a deletion, a kill: 23 steps).

Between these two steps of a deletion `UpToDateUndisturbed` says nothing either.  (The files of a map are deleted in one
step; a kill among them leaves the sum as well.)
Everything else - errors, retries, failed writes, kills at any point of a download, cancels at any other - keeps it.  The flags of
a cancelled download are cleared when another begins; what becomes of it then is not promised (`disturbed`), except that
no temporary files stay (`TempGone`).

* `UpToDateUndisturbed`, `InstalledIsWhole` - see above; and what gets listed was checked.
* `RangeFetched` - a thread that ends well has brought its range but for the last byte.
* `TempGone`, also when disturbed; `CancelHeeded`.

## 4. The runs

| run | instance | shows | distinct states |
| --- | --- | --- | --- |
| `timers` | 2 timers, 2 ticks per round, queue of 2 | `TypeOK`, `DispatchLive`, `RoundEnds`, `TimerServed` | 152 000 |
| `route` | 3 destinations, 2 slices per build before the last, any position, imports, freed blocks reused or not | `TypeOK`, `PathHasGraph`, `PathLeadsToNext`, `GraphServesDst`, `BusyUnlessHit`, `StatusHonest`, `FloodHasBothEnds`, `RouteSettles` | 108 000 |
| `route_import` | as `route`, on streets | violation of `GraphDestroyedOnChange` | - |
| `route_stray_write` | freed blocks are reused | violation of `BusyMeansBuilding` | - |
| `route_whole` | on streets | violation of `RecalculatedWhole` | - |
| `worker_fixes` | 2 threads with fixes, 4 fixes and 4 motions | `FixesBounded`, `FixesInOrder`, `NewestFixKept`, `LastMotionDrawn` | 439 000 |
| `worker_flood` | messages, ticks and position requests without end, 2 fixes | `TypeOK`, `NoLostWakeup`, `CoreFirst`, `FixServed` | 59 000 |
| `worker_served` | ticks without end, messages, motions, position requests | `AllServed` | 53 000 |
| `arc_safety` | 4 pieces of sizes 1, 1, 2, 3, room for 6, 3 readers | all safety properties and `StoreSpec` | 66 000 |
| `arc_equal` | 6 pieces of one size, symmetric, 2 readers | `ResidentFits`, `TotalFits` | 806 |
| `map_download` | 2 downloads, 2 threads, 4 bytes in 2 files, 2 versions, 2 slots, 2 acts | `TypeOK`, `UpToDateUndisturbed`, `InstalledIsWhole`, `RangeFetched`, `TempGone`, `CancelHeeded` | 4 231 000 |
| `route_flood` | 7 maps of 4 places and 4 or 5 streets, all positions and destinations, 1 new position | `TypeOK`, `ElementsInHeap`, `LeastFirst`, `LeadsToDst`, `NearBest` | 238 000 |

**Bounds.**  *Timers*: with two timers and a queue of two, a tick can be queued, a second about to be queued
and a third in the worker's hands when a timer is removed, and the other timer is there to be starved or
confused; timers do not otherwise interact.  *Route*: three destinations give a first, a middle and a last
leg, a list that is replaced by one with other, with the same or with reordered addresses; a build with one
slice before its last has a point for commands in between, and more slices are alike (the proofs hold for
any number).  *Worker*: one fix is kept where the code keeps five, two ticks (one) are handled per round
where the code handles ten: all tests on these numbers are passed on both sides with two or three events.
The loops of queue8, queue5 and queue2 are alike and like that of queue3; the kinds of each run are those its
properties tell apart.  *Cache*: four pieces and room for six units fill all four lists, every branch of the
evictions is taken, also the one where every entry is held, and pieces bigger than the room left occur.
*Downloads*: two downloads give an earlier and a later one, overlapping or not; four bytes in files of three make two
ranges, one of which crosses the border of a file; a buffer of two crosses it in its middle; going back by one
byte crosses it backwards.  What is out of the ordinary (cancels, kills, deletions, new versions, mirrors with
another sum, failed writes, overlaps, a second thread) is limited to two in a behaviour (`MaxActs`): what the code gets wrong takes one
or two of them, and the proofs hold for any number.  *Flood*: the square has two ways around and a diagonal; lengths are
such that the direct way is not always the shortest, zero occurs, restrictions of both kinds are at neighbouring
points, and positions lie in the middle (ties) and off it; two maps are a junction for a bicycle, with free and closed streets.

**Deadlock** is checked where the system cannot stop (timers, worker, cache; the worker always runs its
rounds); in the route runs the controller may be at rest, downloads end, and so does a search, so the check is
off there.

**Violations.**  Three runs show where the code and its comments differ.
`route_import`: a comment at `route.c:1036` demands that the graph is destroyed when the destination
changes; the `no_calc` functions keep it.  The run has a route to one destination, the first message of an import, which
replaces the list by another, and a position update, which reads a path from the graph that was kept, with the costs of
the destination that is gone.  (The last message repairs it: `GraphServesDst`.)
`route_stray_write`: `busy` is "the graph is being built" (`route.c:209`); `route_graph_build_done` clears it
(`route.c:5108`) after a callback that may have destroyed the graph and begun another.
`route_whole`: message 73 ("calcs everything totally new", `android.c:3295`) does not reset `current_dst`.  The run has a
route over a waypoint, of which the first leg is not found; then message 73 recalculates the legs up to that waypoint
only, and a finished route is reported that ends there.

## 5. Fairness

* *Timers*: threads are scheduled, sleeps end (WF); the worker goes on (SF, because a takedown disables it
  for a while), and a takedown that has begun ends (WF): C handlers have no loop that arms and removes for
  ever.  `ThreadOffer` has SF only because the model bounds the queue.  Nothing obliges a client to arm or
  remove, nor the collector to collect.
* *Route*: handlers run to their end and the idle timer of a build ticks (`timers`, `TimerServed`).
* *Worker*: the worker is scheduled and a thread that has begun to hand over an event goes on; nobody has
  to have events.

## 6. Proofs

All theorems hold for every value of the constants that the modules' assumptions admit: any number of
timers, destinations, threads, pieces, any bounds.

* **EventTimersProofs** - `TimersDispatchLive`.  What the worker tests (`running` or not `event_multi`) says
  nothing of the callback by itself; the invariant `IInv` adds when a callback can be gone: a running repeating
  timer keeps its own until its takedown (`CallbackKept`), an ended thread left `running` false
  (`StoppedAtEnd`), only repeating timers are taken down (`ClosingRepeats`) and no tick refers to a
  collected object (`TicksReferToTimers`).
* **RouteUpdateProofs** - whatever block `malloc` returns.  `IInv` says who owns the graph in which state:
  between handlers no frame is left (`Idle`), `busy` and the registered build differ only while the done
  callback is on the stack (`BuildFrame`) or a stray write has cleared the former (`StrayFrame`), floods work on built
  graphs (`Flooding`, `StartKnown`), no path
  outlives the start of a build (`PathOver`).  It gives `RouteTypeOK`, `RoutePathHasGraph` and
  `RouteBusyUnlessHit`.  The second invariant `ChainInv` follows the recursion over the legs: while legs are put
  together from the last to the first, the chain holds exactly the destinations after `current_dst`
  (`ChainFits`), floods start in the list (`StartInList`) and the graph carries the costs of the last start
  (`FloodFits`).  It may fail during an import; `WInv` is `IInv`, `LinkIdle` and "importing or `ChainInv`", and
  the last message restores the latter from nothing but `LinkIdle`.  It gives `RoutePathLeadsToNext` and
  `RouteGraphServesDst`.  A third, `StatusInv`, says what a status promises outside an import: a graph is under
  construction exactly when the status says so, no finished status without a path, and nothing to route to
  without a graph; the last message of an import restores it too.  It gives `RouteStatusHonest`.
* **RouteHistoryProofs** - on top of these, with the history of `MCRouteHistory`: as long as no list was imported, the
  position never left the streets of the graph and no stray write hit a graph, a graph implies both ends of its flood
  (`EndsInv`, with `ChainInv` for the destination).  It gives `RouteFloodHasBothEnds`.  Nothing in the code keeps the position in
  the area of the graph, so this is no reason for `route_graph_flood` not to test its ends.
* **WorkerThreadProofs** - `NoLostWakeup` from `WakeupInv`: an event that waits is `Noticed`, by a pending interrupt, by a thread
  about to interrupt, or because the round has not passed its queue.  `FixesInOrder` from: numbers in the queue rise
  and lie between the last delivered and the last offered.  `FixesBounded` counts the threads between their
  test and their offer: the queue holds at most the kept fixes and one per thread, even if all of them
  tested before any offered.  `NewestFixKept` from `NewestInv`: once every thread with fixes is past its offer, the
  last fix offered waits or was delivered, with the two invariants before it.  With it, that `Draw` is
  only decided on in the loop over motions (`MotionInv`) makes `LastMotionDrawn` inductive.
* **ArcCacheProofs** - `ArcIInv`: the four lists, the hash, counts, ghost sizes and the target fit together between
  any two calls; the operators of `cache.c` are each shown to keep its parts (with an entry out of all lists in
  between), then the actions are put together.  It gives type correctness (no division by zero),
  `HashMatchesLists`, `HeldIsResident`, `BytesAddUp`, `TargetInRange`, and `ArcImplementsStore`: every step of the
  cache is a step of `PinnedStore` under the refinement mapping.  `ArcResidentFits` and `ArcTotalFits` have the
  hypotheses `EqualPieces` and `FewReaders`; sizes then count entries (`SizesCount`), and `Fits` bounds, by the numbers
  of entries with data and of ghosts, the data, the entries and both.  `Outcome` sums up what room a read makes: a piece
  replaces another, or takes the place of a ghost while the data is small, or leaves one more ghost, or comes on top,
  the last two only if what the code tested was small enough.  That nothing can be thrown out only when readers have
  everything (`AllUsed`) is where `FewReaders` comes in.
* **MapDownloadProofs** - `MapInvariant`, from six parts.  `FlowInv`: undisturbed downloads do not overlap, and those that were
  told to stop have passed `Reset` with the flag still up; it gives `MapCancelHeeded`.  `TypeInv`: types, and no range
  shorter than what a thread goes back (from the assumption on the sizes, by the division in `Started`).
  `JoinInv`: threads run only while their download waits; with it `QuietInv` gives `MapTempGone`.  `ToInv`: no thread
  of an undisturbed download has an installed file open, which is why `InstallInv` - where the map is between the
  check of its sum, the two renames and the catalogue, and that no sum but an older one is kept meanwhile - survives
  the threads, and kills at any point of a download.  In it `KeptInv` is what is known of the kept sum: that its map is there,
  unless a deletion has left the sum for last.  It gives `MapInstalledIsWhole` and `MapUpToDate`.
  `MapRangeFetched` has two more parts.  `WideInv`: every range has room to go back in it, for
  any division of a size among threads.  `BringInv`: what is before the position of a thread is in the files, up to
  the border while it is between two of them, and a thread that reads has the file of its position open.  Each of
  the four steps of a thread is shown to keep the latter (a buffer crosses one border at most, as no buffer is longer
  than a file), and the others to lose nothing.
* **RouteFloodProofs** - for every map and every order of lists and of equal costs.  `GraphInv`: a point that was made for
  the restrictions remembers the street one comes in by; only that street enters it, and only turns that are allowed
  from there leave it, also over clones of clones - except along free streets, whose clones enter it from both sides.
  `HeapInv`: the drive an element was made for and the drive that
  remembers an element differ only in pairs, the two drives of one segment, at the same and the least cost; this gives
  `FloodElementsInHeap`.  `FromInv` (the successor of a drive has a way itself and may be driven after it) and
  `PathInv` give `FloodLegalPath`, the first part of `LeadsToDst`, which needs nothing more.  `LenInv` (as many points
  are left to be split as
  the lengths have room for below `INT_MAX`) and `CostInv` give `FloodTypeOK`.

  `FloodLeastFirst` and `FloodNearBest` compare the costs with the least ones, which are defined by rounds of
  improvement.  They are caught between two things.  A *potential*, costs that respect every segment and the ends,
  is nowhere above the least ones (`LeastAbove`, by induction over the rounds); and the rounds are nowhere above the
  costs of the flood, as after n drives have left the heap every drive has at most the cost of the n-th round
  (`LeastInv`; there are as many rounds as drives, `LeastBelow`).  `DijkstraInv` is the order of the flood: what has
  left the heap is no dearer than what is in it, and was relaxed while nothing was met.  From it, the lesser of the
  cost of a drive and (the cost k of the drive just taken out, plus its own length) is a potential (`AtLeast`): a drive
  without its least cost has k and its length before it.  With k the least cost in the heap this is `LeastFirst`; with
  k the cost of the drive from which the street of the position was met it is `MetInv`, which the rest of the flood
  keeps, and with `ChosenInv` (the beginning that is chosen is the cheapest by the costs there are) it bounds what the
  shortcut loses.

  That the search ends is shown by what goes down.  `FloodEnds`: a round takes out one drive, and what it makes cheaper
  had not left the heap before (`RoundKeeps`), so the drives that have not left it become fewer.  `RankInv`: number the
  drives in the order in which they leave the heap; the successor of a drive has left it, with a lower number than the
  drive, and a path goes down the numbers.  Costs would not do, as they are equal along streets without length.  This
  is `FloodNoLoop`, in which there is no assumption about the costs either.

  `FloodLeadsToDst` is the whole of `LeadsToDst`, in every state with `ShortWays`.  Its first part is `WholeInv`: a
  drive of the graph *stands for* one of the map when it is of the same street between the same places and ends at no
  point that was split.  Every drive of the map that can be begun has one, and after one that stands for a drive comes
  one that stands for whatever may be driven next, however far the splitting has come and in whichever order.  The
  second part is the flood: by `GrowInv` a drive costs at most (the number of drives that have left the heap, plus one)
  times the dearest drive, so that under `ShortWays` no sum comes to `INT_MAX` (`FloodSumsFit`), and what leads to a
  drive with a cost gets one (`ShortCosts`).  `ShownInv`: when there is no path, the costs are new and no drive of the
  street of the position has one; so the flood did not stop early.  Then, turn by turn from the position
  (`NoneReachable`), whatever can be reached is stood for by a drive without a cost, while a drive of the street of the
  destination has one from the start: the destination cannot be reached.

Only model-checked: all liveness (`RoundEnds`, `TimerServed`, `RouteSettles`, `FixServed`, `AllServed`),
which the installed provers cannot do under fairness.  Every safety property of a run is stated by a theorem.

## 7. Not modelled

The components without a module in the table above, for the reasons in `PROJECT.json`; in short: floating
point and geometry, parsing and data conversion, drawing of pixels and vendored code are out of reach or
not worth it (most of the lines of the repository are of these kinds, `maptool` with its copy of SQLite alone
is half of them); the rest is left by the plan (section 2).  Of the modelled components: time (all durations), memory
exhaustion, calls of the UI thread into the core past the worker (`Navit.java:5626` and four more places,
`CallbackGeoCalc`), which are data races with everything the core does, and the deferral of path updates while
a reader holds the path (`route.c:6370-6470`); a mapset without any map, with which `route_graph_build` floods at once
(`route.c:5253-5256`); the choice of a download server, the index file and the check for
free space; and in the flood the profiles in detail, streets with inner points or loops, and off-road ways.

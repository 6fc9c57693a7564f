-------------------------- MODULE MapDownloadProofs --------------------------
(***************************************************************************)
(* Proofs about MapDownload, for any number of downloads, threads, slots,  *)
(* versions, and any sizes that SizesAssumption allows.                    *)
(*                                                                         *)
(* The first invariant has six parts: FlowInv (who is where, and what was  *)
(* told to stop), TypeInv (types, with ranges that are long enough to go   *)
(* back in), JoinInv (threads run only while their download waits for      *)
(* them), QuietInv (nothing is left behind), ToInv (no thread writes to an *)
(* installed map) and InstallInv (where the map is at each step of its     *)
(* installation, and which sums are kept meanwhile). What a thread brings  *)
(* follows at the end: the check of the sum does not rest on it.           *)
(***************************************************************************)
EXTENDS MapDownload, Counting

\* What the quotient of two naturals is.
LEMMA DivBounds ==
    ASSUME NEW a \in Nat, NEW n \in Nat \ {0}
    PROVE  /\ a \div n \in Nat
           /\ n * (a \div n) <= a /\ a < n * (a \div n) + n
  OBVIOUS

\* A larger number has no smaller quotient.
LEMMA DivMonotone ==
    ASSUME NEW a \in Nat, NEW b \in Nat, NEW n \in Nat \ {0}, a <= b
    PROVE  a \div n <= b \div n
<1> DEFINE p == a \div n
           q == b \div n
<1>1. p \in Nat /\ q \in Nat /\ n * p <= a /\ b < n * q + n
  BY DivBounds
<1> HIDE DEF p, q
<1>2. ASSUME p > q PROVE FALSE
  <2>1. p >= q + 1
    BY <1>1, <1>2
  <2>2. n * p >= n * (q + 1)
    BY <1>1, <2>1
  <2> QED BY <1>1, <2>2
<1> QED BY <1>1, <1>2 DEF p, q

\* A share of more threads is smaller
LEMMA DivSmaller ==
    ASSUME NEW a \in Nat, NEW m \in Nat \ {0}, NEW n \in Nat \ {0}, m <= n
    PROVE  a \div n <= a \div m
<1> DEFINE p == a \div n
           q == a \div m
<1>1. p \in Nat /\ q \in Nat /\ n * p <= a /\ a < m * q + m
  BY DivBounds
<1> HIDE DEF p, q
<1>2. ASSUME p > q PROVE FALSE
  <2>1. p >= q + 1
    BY <1>1, <1>2
  <2>2. n * p >= m * p /\ m * p >= m * (q + 1)
    BY <1>1, <2>1
  <2> QED BY <1>1, <2>2
<1> QED BY <1>1, <1>2 DEF p, q

\* Every position of the map is in one of its files (MultiStreamDownloaderThread).
LEMMA FileType == ASSUME NEW p \in 0 .. Size PROVE FileOf(p) \in File
<1>1. p \div SplitSize \in Nat /\ Size \div SplitSize \in Nat /\ p \div SplitSize <= Size \div SplitSize
  BY SizesAssumption, DivMonotone, DivBounds
<1> QED BY <1>1 DEF FileOf, File

\* The ranges that download_osm_map computes are ranges of the map, and none is
\* shorter than what a thread goes back.
LEMMA StartedType ==
    ASSUME NEW n \in 1 .. MaxThreads, NEW k \in 1 .. n
    PROVE  Started(k, n) \in Thread /\ Rewind <= Started(k, n).last
<1> DEFINE diff == Size \div n
           least == Size \div MaxThreads
<1>1. n \in Nat \ {0} /\ k \in Nat \ {0} /\ k <= n /\ Size \in Nat \ {0} /\ MaxThreads \in Nat \ {0}
      /\ Rewind \in Nat /\ n <= MaxThreads
  BY SizesAssumption
<1>2. diff \in Nat /\ least \in Nat /\ n * diff <= Size /\ least <= diff /\ Rewind < least
  BY <1>1, SizesAssumption, DivBounds, DivSmaller
<1> HIDE DEF diff, least
<1>3. diff * (k - 1) \in Nat /\ diff * (k - 1) = diff * k - diff /\ diff * k <= diff * n /\ diff * k >= diff
  BY <1>1, <1>2
<1>4. diff * (k - 1) \in Pos /\ diff * k - 1 \in Pos /\ Size - 1 \in Pos
      /\ Rewind <= diff * k - 1 /\ Rewind <= Size - 1
  BY <1>1, <1>2, <1>3 DEF Pos
<1>5. 0 \in File /\ Closed \in Closed .. Slots /\ diff * (k - 1) \in 0 .. Size
  BY <1>4, SizesAssumption, FileType DEF Closed, Pos, File
<1>6. Started(k, n) = [NoThread EXCEPT !.at = "outer", !.start = diff * (k - 1), !.pos = diff * (k - 1),
                     !.last = IF k = n THEN Size - 1 ELSE diff * k - 1]
  BY DEF Started, diff
<1> QED BY <1>4, <1>5, <1>6 DEF Thread, NoThread

\* The threads of the other downloads can be counted.
LEMMA OthersNat == ASSUME NEW d \in Download PROVE Others(d) \in Nat
<1> DEFINE S == (Download \ {d}) \X (1 .. MaxThreads)
<1>1. IsFiniteSet(Download \ {d}) /\ IsFiniteSet(1 .. MaxThreads)
  <2>1. IsFiniteSet(Download) /\ IsFiniteSet(1 .. MaxThreads)
    BY SizesAssumption, FS_Interval DEF Download
  <2> QED BY <2>1, FS_Subset
<1>2. IsFiniteSet(S)
  BY <1>1, FS_Product
<1> QED BY <1>2, FS_Subset, FS_CardinalityType DEF Others

\* The name for a map is one of the slots (find_lowest_mapnumber_free).
LEMMA NameType == NameFor \in Slot
<1> DEFINE known == {s \in Slot : listed[s] = "known"}
           free == {s \in Slot : listed[s] = "no"}
           Q(s) == IF known # {} THEN s \in known
                   ELSE IF free # {} THEN s \in free /\ \A t \in free : s <= t
                   ELSE s = Slots
<1>1. \E s \in Slot : Q(s)
  <2>1. CASE known # {}
    BY <2>1
  <2>2. CASE known = {} /\ free # {}
    <3>1. free \subseteq Nat
      BY SizesAssumption DEF Slot
    <3> HIDE DEF free
    <3>2. PICK x \in free : \A t \in free : x <= t
      BY <2>2, <3>1, LeastNat
    <3>3. x \in Slot
      BY <3>2 DEF free
    <3> QED BY <2>2, <3>2, <3>3
  <2>3. CASE known = {} /\ free = {}
    BY <2>3, SizesAssumption DEF Slot
  <2> QED BY <2>1, <2>2, <2>3
<1>2. NameFor = CHOOSE s \in Slot : Q(s)
  BY DEF NameFor
<1> HIDE DEF Q
<1> QED BY <1>1, <1>2

\* A map without files.
LEMMA NoFilesType == NoFiles \in Files /\ NoBytes \in [Pos -> 0 .. MaxVersion]
  BY SizesAssumption DEF NoFiles, NoBytes, Files

\* Deleted files are files.
LEMMA WithoutType ==
    ASSUME NEW files \in Files, NEW fs PROVE Without(files, fs) \in Files
  BY NoFilesType DEF Without, Files

\* Written files are files.
LEMMA WrittenType ==
    ASSUME NEW files \in Files, NEW f \in File, NEW a, NEW b, offered \in Version
    PROVE  Written(files, f, a, b) \in Files
<1>1. offered \in 0 .. MaxVersion
  BY SizesAssumption DEF Version
<1>2. [p \in Pos |-> IF p \in a .. b - 1 THEN offered ELSE files.data[f][p]] \in [Pos -> 0 .. MaxVersion]
  BY <1>1 DEF Files
<1> QED BY <1>2 DEF Written, Files

\* Opened files are files.
LEMMA OpenedType ==
    ASSUME temp \in Files, NEW p \in 0 .. Size PROVE Opened(p) \in Files
  BY FileType DEF Opened, Files

Threads == [Download -> [1 .. MaxThreads -> Thread]]

\* Where a thread may write.
LEMMA Targets == /\ Temp \in Closed .. Slots /\ Nowhere \in Closed .. Slots
                 /\ Closed \in Closed .. Slots /\ Slot \subseteq Closed .. Slots
                 /\ Slots \in Slot /\ 1 \in Slot
  BY SizesAssumption DEF Temp, Nowhere, Closed, Slot

\* The record of a thread that does not run.
LEMMA NoThreadType == NoThread \in Thread
<1>1. 0 \in 0 .. Size /\ 0 \in Pos
  BY SizesAssumption DEF Pos
<1>2. 0 \in File
  BY SizesAssumption, DivBounds DEF File
<1> QED BY <1>1, <1>2, Targets DEF NoThread, Thread

\* What does not change in the threads when their files are renamed or deleted
SameButTo(u, t) ==
    /\ u.at = t.at /\ u.start = t.start /\ u.last = t.last /\ u.pos = t.pos
    /\ u.file = t.file /\ u.again = t.again /\ u.failed = t.failed /\ u.gap = t.gap

\* Files that are deleted or renamed change nothing in a thread but where it writes.
LEMMA RedirectedType ==
    ASSUME NEW th \in Threads, NEW fs, NEW to, NEW new \in Closed .. Slots
    PROVE  /\ Redirected(th, fs, to, new) \in Threads
           /\ \A d \in Download, k \in 1 .. MaxThreads :
                 SameButTo(Redirected(th, fs, to, new)[d][k], th[d][k])
<1>1. ASSUME NEW d \in Download, NEW k \in 1 .. MaxThreads
      PROVE  /\ [th[d][k] EXCEPT !.to = new] \in Thread
             /\ SameButTo([th[d][k] EXCEPT !.to = new], th[d][k])
  <2>1. th[d][k] \in Thread
    BY DEF Threads
  <2> QED BY <2>1 DEF Thread, SameButTo
<1>2. \A d \in Download : DOMAIN th[d] = 1 .. MaxThreads
  BY DEF Threads
<1>3. \A d \in Download, k \in 1 .. MaxThreads :
         Redirected(th, fs, to, new)[d][k] =
            IF th[d][k].to = to /\ th[d][k].file \in fs
            THEN [th[d][k] EXCEPT !.to = new] ELSE th[d][k]
  BY <1>2 DEF Redirected
<1>4. \A d \in Download, k \in 1 .. MaxThreads : th[d][k] \in Thread
  BY DEF Threads
<1>5. Redirected(th, fs, to, new) \in Threads
  <2>1. Redirected(th, fs, to, new) =
          [d \in Download |-> [k \in 1 .. MaxThreads |->
             IF th[d][k].to = to /\ th[d][k].file \in fs
             THEN [th[d][k] EXCEPT !.to = new] ELSE th[d][k]]]
    BY <1>2 DEF Redirected
  <2> QED BY <2>1, <1>1, <1>4 DEF Threads
<1>6. ASSUME NEW d \in Download, NEW k \in 1 .. MaxThreads
      PROVE  SameButTo(Redirected(th, fs, to, new)[d][k], th[d][k])
  <2>1. SameButTo(th[d][k], th[d][k])
    BY DEF SameButTo
  <2> QED BY <2>1, <1>1, <1>3
<1> QED BY <1>5, <1>6

-----------------------------------------------------------------------------
(* Who is where. *)

\* The steps of a download between Reset and the check of its file.
Unchecked == {"setup", "prepare", "join", "check"}

\* Undisturbed downloads do not overlap: the current one is the only one.
AloneInv == ~disturbed => \A d \in Download : Active(d) => current = d

\* Downloads that were told to stop have passed Reset, and the flag stays.
ToldInv ==
    /\ \A d \in told : at[d] \notin {"idle", "run"}
    /\ ~disturbed => \A d \in told : at[d] \in Unchecked => stopAll

FlowInv ==
    /\ at \in [Download -> {"idle", "message"} \union Busy \union Finished]
    /\ current \in 0 .. MaxDownloads /\ (service # "down" => current # 0)
    /\ told \subseteq Download
    /\ AloneInv /\ ToldInv /\ CancelHeeded

\* FlowInv holds at the start.
LEMMA FlowInit == Init => FlowInv
BY SizesAssumption DEF Init, FlowInv, AloneInv, ToldInv, CancelHeeded, Active, Finished, Renaming,
  Download, Unchecked

\* Every step keeps FlowInv.
LEMMA FlowNext == FlowInv /\ [Next]_vars => FlowInv'
<1> SUFFICES ASSUME FlowInv, [Next]_vars PROVE FlowInv'
  OBVIOUS
<1> USE DEF FlowInv, AloneInv, ToldInv, CancelHeeded, Active, Finished, Renaming, Busy,
            Installing, Unchecked, Goto
<1>0. ASSUME current # 0, at' = at, current' = current, StopThread PROVE FlowInv'
  <2>1. current \in Download
    BY <1>0, SizesAssumption DEF Download
  <2>2. /\ stopAll' = TRUE
        /\ told' = IF at[current] \in {"idle", "run"} THEN told ELSE told \union {current}
        /\ disturbed' = (disturbed \/ at[current] \in Renaming)
    BY <1>0 DEF StopThread
  <2>3. told' \subseteq Download /\ \A d \in told' : at[d] \notin {"idle", "run"}
    BY <2>1, <2>2
  <2>4. ~disturbed' => \A d \in told' : at[d] \notin Renaming
    BY <2>2
  <2> QED BY <1>0, <2>2, <2>3, <2>4
<1>1. CASE Publish
  BY <1>1 DEF Publish, flags, ui, downloads, past
<1>2. CASE Kill
  <2>1. at' \in [Download -> {"idle", "message"} \union Busy \union Finished]
    BY <1>2 DEF Kill
  <2>2. \A d \in Download : at'[d] \in {"idle", "done", "killed"} /\ (at[d] # "idle" => at'[d] # "idle")
    BY <1>2 DEF Kill
  <2>3. current' = 0 /\ service' = "down" /\ told' = told
    BY <1>2 DEF Kill
  <2> QED BY <2>1, <2>2, <2>3, SizesAssumption
<1>3. CASE Cancel
  <2>1. current # 0 /\ at' = at /\ StopThread /\ current' = current
    BY <1>3 DEF Cancel
  <2> QED BY <2>1, <1>0
<1>4. CASE OnDestroy
  <2>1. current # 0 /\ at' = at /\ StopThread /\ current' = current
    BY <1>4 DEF OnDestroy
  <2> QED BY <2>1, <1>0
<1>5. CASE StopThreadEnd
  BY <1>5 DEF StopThreadEnd, flags, ui, downloads, past
<1>6. ASSUME NEW d \in Download, HandleEnd(d) PROVE FlowInv'
  BY <1>6 DEF HandleEnd, StopService, flags, ui, downloads, past
<1>7. ASSUME \/ \E s \in Slot : Delete(s)
             \/ DeleteFiles
             \/ DeleteSum
      PROVE  FlowInv'
  <2>1. UNCHANGED <<stopAll, service, current, at, told>>
    BY <1>7 DEF Delete, DeleteFiles, DeleteSum, flags, downloads, past
  <2>2. disturbed => disturbed'
    BY <1>7 DEF Delete, DeleteFiles, DeleteSum, past
  <2> QED BY <2>1, <2>2
<1>8. ASSUME NEW d \in Download, Begin(d) PROVE FlowInv'
  <2>1. /\ at[d] = "idle" /\ at' = [at EXCEPT ![d] = "run"]
        /\ current' = d /\ told' = told /\ stopAll' = stopAll
        /\ disturbed' = (disturbed \/ \E e \in Download : Active(e))
    BY <1>8 DEF Begin, flags
  <2>2. current' \in 0 .. MaxDownloads /\ current' # 0
    BY <2>1, SizesAssumption DEF Download
  <2> QED BY <2>1, <2>2
<1>9. ASSUME NEW d \in Download, DownloadStep(d) PROVE FlowInv'
  <2>1. CASE Reset(d)
    BY <2>1 DEF Reset, flags, ui, downloads, past
  <2>2. CASE Setup(d)
    BY <2>2 DEF Setup, flags, ui, downloads, past
  <2>12. CASE Search(d)
    BY <2>12 DEF Search, flags, ui, downloads
  <2>3. CASE Prepare(d)
    BY <2>3 DEF Prepare, flags, ui, downloads, past
  <2>4. CASE Join(d)
    BY <2>4 DEF Join, flags, ui, downloads, past
  <2>5. CASE Check(d)
    BY <2>5 DEF Check, flags, ui, downloads, past
  <2>6. CASE DeleteOld(d)
    BY <2>6 DEF DeleteOld, flags, ui, downloads, past
  <2>7. CASE Rename(d)
    BY <2>7 DEF Rename, flags, ui, downloads, past
  <2>8. CASE Mark(d)
    BY <2>8 DEF Mark, flags, ui, downloads, past
  <2>9. CASE Index(d)
    BY <2>9 DEF Index, flags, ui, downloads, past
  <2>10. CASE Leave(d)
    BY <2>10 DEF Leave, StopService, flags, ui, downloads, past
  <2>11. CASE Cleanup(d)
    BY <2>11 DEF Cleanup, flags, ui, downloads, past
  <2> QED BY <1>9, <2>1, <2>2, <2>3, <2>4, <2>5, <2>6, <2>7, <2>8, <2>9, <2>10, <2>11, <2>12
       DEF DownloadStep
<1>10. ASSUME NEW d \in Download, NEW k \in 1 .. MaxThreads, ThreadStep(d, k) PROVE FlowInv'
  <2>1. UNCHANGED <<stopAll, ui, downloads, past>>
    BY <1>10 DEF ThreadStep, Enter, Open, Attempt, Connect, Read, Split, ThreadKeeps
  <2> QED BY <2>1 DEF ui, downloads, past
<1>11. CASE UNCHANGED vars
  BY <1>11 DEF vars, flags, ui, downloads, past
<1> QED BY <1>1, <1>2, <1>3, <1>4, <1>5, <1>6, <1>7, <1>8, <1>9, <1>10, <1>11 DEF Next, MainStep

-----------------------------------------------------------------------------
(* Types *)

\* A range is long enough for a thread that goes back in it.
RangeInv ==
    \A d \in Download, k \in 1 .. MaxThreads :
        thread[d][k].at # "none" => Rewind <= thread[d][k].last

TypeInv == TypeOK /\ RangeInv

\* The threads of th differ from those of the state in their files only.
SameThreads(th) ==
    /\ th \in Threads
    /\ \A d \in Download, k \in 1 .. MaxThreads : SameButTo(th[d][k], thread[d][k])

\* Threads that differ in their files only keep their types and ranges.
LEMMA SameRange ==
    ASSUME TypeInv, NEW th, SameThreads(th)
    PROVE  /\ th \in [Download -> [1 .. MaxThreads -> Thread]]
           /\ \A d \in Download, k \in 1 .. MaxThreads :
                 th[d][k].at # "none" => Rewind <= th[d][k].last
  BY DEF SameThreads, SameButTo, Threads, TypeInv, RangeInv

\* The threads as they are.
LEMMA SameAsBefore ==
    ASSUME TypeInv PROVE SameThreads(thread)
  BY DEF SameThreads, SameButTo, Threads, TypeInv, TypeOK

\* Types after temporary files were deleted.
LEMMA DeleteTempType ==
    ASSUME TypeInv, NEW fs, DeleteTemp(fs)
    PROVE  temp' \in Files /\ SameThreads(thread')
<1>1. temp \in Files /\ thread \in Threads
  BY DEF TypeInv, TypeOK, Threads
<1>2. temp' = Without(temp, fs) /\ thread' = Redirected(thread, fs, Temp, Nowhere)
  BY DEF DeleteTemp
<1> QED BY <1>1, <1>2, WithoutType, RedirectedType, Targets DEF SameThreads

\* Types after a map was deleted.
LEMMA DeleteSlotType ==
    ASSUME TypeInv, NEW s, thread' = Redirected(thread, File, s, Nowhere)
    PROVE  SameThreads(thread')
<1>1. thread \in Threads
  BY DEF TypeInv, TypeOK, Threads
<1> QED BY <1>1, RedirectedType, Targets DEF SameThreads

\* Types after temporary files were renamed into a slot.
LEMMA RenameTempType ==
    ASSUME TypeInv, NEW fs, NEW s \in Slot, RenameTemp(fs, s)
    PROVE  temp' \in Files /\ final' \in [Slot -> Files] /\ SameThreads(thread')
<1> DEFINE have == fs \intersect temp.there
           replaced == Redirected(thread, have, s, Nowhere)
<1>1. temp \in Files /\ thread \in Threads /\ final \in [Slot -> Files]
  BY DEF TypeInv, TypeOK, Threads
<1>2. /\ temp' = Without(temp, have)
      /\ final' = [final EXCEPT ![s] =
               [there |-> @.there \union have,
                data |-> [f \in File |-> IF f \in have THEN temp.data[f] ELSE @.data[f]]]]
      /\ thread' = Redirected(replaced, have, Temp, s)
  BY DEF RenameTemp
<1>3. temp' \in Files
  BY <1>1, <1>2, WithoutType
<1>4. final' \in [Slot -> Files]
  <2>1. have \subseteq File
    BY <1>1 DEF Files
  <2>2. [there |-> final[s].there \union have,
         data |-> [f \in File |-> IF f \in have THEN temp.data[f] ELSE final[s].data[f]]] \in Files
    BY <1>1, <2>1 DEF Files
  <2> QED BY <1>1, <1>2, <2>2
<1>5. SameThreads(thread')
  <2>1. replaced \in Threads /\ \A d \in Download, k \in 1 .. MaxThreads : SameButTo(replaced[d][k], thread[d][k])
    BY <1>1, RedirectedType, Targets
  <2> HIDE DEF replaced
  <2>2. thread' \in Threads /\ \A d \in Download, k \in 1 .. MaxThreads : SameButTo(thread'[d][k], replaced[d][k])
    BY <1>2, <2>1, RedirectedType, Targets
  <2> QED BY <2>1, <2>2 DEF SameThreads, SameButTo
<1> QED BY <1>3, <1>4, <1>5

\* The types of what the threads do not have a part in, with the threads and their
\* files left to the lemmas above.
RestType ==
    /\ offered \in Version
    /\ stopAll \in BOOLEAN /\ error \in BOOLEAN
    /\ service \in {"down", "up", "stopping"}
    /\ current \in 0 .. MaxDownloads
    /\ deleting \in BOOLEAN /\ removing \in Removal
    /\ at \in [Download -> {"idle", "message"} \union Busy \union Finished]
    /\ stop_me \in [Download -> BOOLEAN]
    /\ name \in [Download -> Slot]
    /\ md5 \in [Download -> 0 .. MaxVersion]
    /\ md5temp \in 0 .. MaxVersion /\ md5final \in 0 .. MaxVersion
    /\ listed \in [Slot -> {"no", "known", "unknown"}]
    /\ acts \in 0 .. MaxActs
    /\ told \subseteq Download
    /\ disturbed \in BOOLEAN
FilesType == temp \in Files /\ final \in [Slot -> Files]
ThreadsType == thread \in [Download -> [1 .. MaxThreads -> Thread]]

\* The three parts are the type invariant.
LEMMA TypeParts == TypeOK <=> RestType /\ FilesType /\ ThreadsType
  BY DEF TypeOK, RestType, FilesType, ThreadsType

\* The types follow for a step that changes no thread but in its files.
LEMMA TypeOf ==
    ASSUME RestType', FilesType', TypeInv, SameThreads(thread')
    PROVE  TypeInv'
<1>1. ThreadsType' /\ RangeInv'
  BY SameRange DEF ThreadsType, RangeInv
<1> QED BY <1>1 DEF TypeInv, TypeOK, RestType, FilesType, ThreadsType

\* The types hold at the start.
LEMMA TypeInit == Init => TypeInv
<1> SUFFICES ASSUME Init PROVE TypeInv
  OBVIOUS
<1>1. RestType
  <2>1. 1 \in Version /\ 0 \in 0 .. MaxVersion /\ 0 \in 0 .. MaxDownloads /\ 0 \in 0 .. MaxActs
    BY SizesAssumption DEF Version
  <2>2. NoRemoval \in Removal
    BY Targets DEF NoRemoval, Removal
  <2> QED BY <2>1, <2>2, Targets DEF Init, RestType, Busy, Finished
<1>2. FilesType
  BY NoFilesType DEF Init, FilesType
<1>4. ThreadsType /\ RangeInv
  BY NoThreadType DEF Init, Idle, ThreadsType, RangeInv, NoThread
<1> QED BY <1>1, <1>2, <1>4, TypeParts DEF TypeInv

\* A step of the thread k of the download d makes it u, of which the rest follows.
LEMMA TypeOfThread ==
    ASSUME TypeInv, RestType', FilesType', NEW d \in Download, NEW k \in 1 .. MaxThreads,
           NEW u \in Thread, u.at # "none" => Rewind <= u.last, Becomes(d, k, u)
    PROVE  TypeInv'
<1>1. thread' = [thread EXCEPT ![d] = [thread[d] EXCEPT ![k] = u]]
  BY DEF Becomes
<1>2. ThreadsType /\ RangeInv
  BY TypeParts DEF TypeInv
<1>3. ThreadsType'
  BY <1>1, <1>2 DEF ThreadsType
<1>4. RangeInv'
  BY <1>1, <1>2 DEF ThreadsType, RangeInv
<1> QED BY <1>3, <1>4 DEF TypeInv, TypeOK, RestType, FilesType, ThreadsType

\* Types of a thread at its ends and between two attempts.
LEMMA EndTypes ==
    ASSUME NEW t \in Thread
    PROVE  /\ Failed(t) \in Thread /\ Failed(t).last = t.last
           /\ Again(t) \in Thread /\ Again(t).last = t.last
           /\ AtEnd(t) \in Thread /\ AtEnd(t).last = t.last
           /\ [AtEnd(t) EXCEPT !.failed = TRUE] \in Thread
           /\ [AtEnd(t) EXCEPT !.failed = TRUE].last = t.last
<1>1. Failed(t) \in Thread /\ Failed(t).last = t.last
  BY Targets DEF Failed, Thread
<1>2. Again(t) \in Thread /\ Again(t).last = t.last
  BY Targets DEF Again, Thread
<1>3. AtEnd(t) \in Thread /\ AtEnd(t).last = t.last
  BY <1>2, Targets DEF AtEnd, Thread
<1>4. \A u \in Thread : [u EXCEPT !.failed = TRUE] \in Thread
                          /\ [u EXCEPT !.failed = TRUE].last = u.last
  BY DEF Thread
<1> QED BY <1>1, <1>2, <1>3, <1>4

\* A thread that is connected, with its file at hand, goes on, tries again or stops.
Connected(d, k, w) ==
    \/ Becomes(d, k, Failed(w)) /\ error' = TRUE
    \/ /\ \E l \in {Again(w), [w EXCEPT !.at = "read"]} : Becomes(d, k, l)
       /\ error' = error

\* Every step of a thread keeps the types.
LEMMA ThreadType ==
    ASSUME TypeInv, NEW d \in Download, NEW k \in 1 .. MaxThreads, ThreadStep(d, k)
    PROVE  TypeInv'
<1> DEFINE t == thread[d][k]
<1>1. RestType /\ FilesType /\ t \in Thread /\ MaxVersion \in Nat
      /\ Size \in Nat \ {0} /\ MaxActs \in Nat /\ Rewind \in Nat
  BY TypeParts, SizesAssumption DEF TypeInv, ThreadsType
<1>2. t.at # "none" => Rewind <= t.last
  BY DEF TypeInv, RangeInv
<1>3. offered \in Version
  BY <1>1 DEF RestType
<1>4. ASSUME Fails(d, k), acts' = acts, ThreadKeeps, t.at # "none" PROVE TypeInv'
  <2>1. RestType' /\ FilesType'
    BY <1>1, <1>4 DEF Fails, ThreadKeeps, RestType, FilesType, ui, downloads, past, installed
  <2> QED BY <1>1, <1>2, <1>4, <2>1, EndTypes, TypeOfThread DEF Fails
<1>9. ASSUME NEW l \in {"outer", "open", "connect"}, Becomes(d, k, [t EXCEPT !.at = l]),
             UNCHANGED <<error, temp, installed, acts>>, ThreadKeeps, t.at # "none"
      PROVE  TypeInv'
  <2>1. [t EXCEPT !.at = l] \in Thread /\ [t EXCEPT !.at = l].last = t.last
    BY <1>1 DEF Thread
  <2>2. RestType' /\ FilesType'
    BY <1>1, <1>9 DEF ThreadKeeps, RestType, FilesType, ui, downloads, past, installed
  <2> QED BY <1>2, <1>9, <2>1, <2>2, TypeOfThread
<1>10. CASE Enter(d, k) \/ Attempt(d, k)
  BY <1>4, <1>9, <1>10 DEF Enter, Attempt
<1>5. CASE Open(d, k)
  <2>1. CASE Fails(d, k)
    BY <1>4, <1>5, <2>1 DEF Open
  <2>2. CASE ~Fails(d, k)
    <3> DEFINE u == [t EXCEPT !.at = "loop", !.pos = t.start, !.again = FALSE,
                              !.file = FileOf(t.start), !.to = Temp]
    <3>1. Becomes(d, k, u) /\ temp' = Opened(t.start) /\ t.at # "none"
          /\ UNCHANGED <<error, installed, acts>> /\ ThreadKeeps
      BY <1>5, <2>2 DEF Open
    <3>2. t.start \in 0 .. Size
      BY <1>1 DEF Thread, Pos
    <3>3. u \in Thread /\ u.last = t.last
      BY <1>1, <3>2, FileType, Targets DEF Thread
    <3>4. RestType' /\ FilesType'
      BY <1>1, <3>1, <3>2, OpenedType DEF ThreadKeeps, RestType, FilesType, ui, downloads, past, installed
    <3> QED BY <1>2, <3>1, <3>3, <3>4, TypeOfThread
  <2> QED BY <2>1, <2>2
<1>6. CASE Connect(d, k)
  <2> DEFINE p == Resume(t)
             u == [t EXCEPT !.pos = p, !.again = TRUE]
             v == [u EXCEPT !.file = FileOf(p), !.to = Temp]
             c == [u EXCEPT !.to = Closed]
  <2>1. /\ t.at = "connect" /\ ThreadKeeps /\ UNCHANGED <<installed, acts>>
        /\ \E w \in {u, v, c} : Connected(d, k, w)
        /\ temp' \in {temp, Opened(p)}
    BY <1>6 DEF Connect, Connected
  <2>2. p \in 0 .. Size
    BY <1>1, <1>2, <2>1 DEF Thread, Pos, Resume
  <2> HIDE DEF p
  <2>3. u \in Thread /\ v \in Thread /\ c \in Thread
        /\ u.last = t.last /\ v.last = t.last /\ c.last = t.last
    BY <1>1, <2>2, FileType, Targets DEF Thread
  <2> HIDE DEF u, v, c
  <2>4. PICK w \in {u, v, c} : Connected(d, k, w)
    BY <2>1
  <2>5. w \in Thread /\ w.last = t.last
    BY <2>3
  <2>6. /\ [w EXCEPT !.at = "read"] \in Thread /\ [w EXCEPT !.at = "read"].last = t.last
        /\ Again(w) \in Thread /\ Again(w).last = t.last
        /\ Failed(w) \in Thread /\ Failed(w).last = t.last
    BY <2>5, EndTypes DEF Thread
  <2>7. error' \in BOOLEAN /\ \E x \in {[w EXCEPT !.at = "read"], Again(w), Failed(w)} : Becomes(d, k, x)
    BY <1>1, <2>4 DEF Connected, RestType
  <2>8. RestType' /\ FilesType'
    BY <1>1, <2>1, <2>2, <2>7, OpenedType DEF ThreadKeeps, RestType, FilesType, ui, downloads, past, installed
  <2> QED BY <1>2, <2>1, <2>6, <2>7, <2>8, TypeOfThread
<1>7. CASE Read(d, k)
  <2>1. t.at = "read" /\ ThreadKeeps /\ UNCHANGED <<md5final, listed>>
    BY <1>7 DEF Read
  <2>2. CASE /\ error' \in BOOLEAN /\ UNCHANGED <<temp, final, acts>>
             /\ \E u \in {Again(t), AtEnd(t), [AtEnd(t) EXCEPT !.failed = TRUE]} : Becomes(d, k, u)
    <3>1. RestType' /\ FilesType'
      BY <1>1, <2>1, <2>2 DEF ThreadKeeps, RestType, FilesType, ui, downloads, past
    <3> QED BY <1>1, <1>2, <2>1, <2>2, <3>1, EndTypes, TypeOfThread
  <2>3. ASSUME NEW n \in 1 .. Least(Buffer, t.last + 1 - t.pos), Buffered(d, k, n), error' = error
        PROVE  TypeInv'
    <3> DEFINE p == t.pos + n
               border == IF p > SplitSize - 1 THEN FileOf(p) * SplitSize ELSE 0
    <3>1. p \in 0 .. Size
      BY <1>1, <2>3, SizesAssumption DEF Thread, Pos, Least
    <3>2. \/ /\ Becomes(d, k, [t EXCEPT !.pos = p]) /\ Put(t, t.pos, p) /\ acts' = acts
          \/ /\ Becomes(d, k, [t EXCEPT !.at = "split", !.pos = p, !.to = Closed])
             /\ Put(t, t.pos, border) /\ acts' = acts
          \/ /\ Becomes(d, k, [Again(t) EXCEPT !.pos = p, !.gap = TRUE]) /\ Act
             /\ UNCHANGED <<temp, final>>
      BY <2>3 DEF Buffered
    <3> HIDE DEF p, border
    <3> DEFINE u1 == [t EXCEPT !.pos = p]
               u2 == [t EXCEPT !.at = "split", !.pos = p, !.to = Closed]
               u3 == [Again(t) EXCEPT !.pos = p, !.gap = TRUE]
    <3>31. u1 \in Thread /\ u1.last = t.last
      BY <1>1, <3>1 DEF Thread
    <3>32. u2 \in Thread /\ u2.last = t.last
      BY <1>1, <3>1, Targets DEF Thread
    <3>33. u3 \in Thread /\ u3.last = t.last
      BY <1>1, <3>1, Targets DEF Thread, Again
    <3> HIDE DEF u1, u2, u3
    <3>4. ASSUME NEW a, NEW b, Put(t, a, b) PROVE FilesType'
      <4>1. t.file \in File
        BY <1>1 DEF Thread
      <4>2. \A files \in Files : Written(files, t.file, a, b) \in Files
        BY <1>3, <4>1, WrittenType
      <4> QED BY <1>1, <3>4, <4>2 DEF Put, FilesType
    <3>5. FilesType'
      BY <1>1, <3>2, <3>4 DEF FilesType
    <3>6. RestType'
      BY <1>1, <2>1, <2>3, <3>2 DEF ThreadKeeps, RestType, ui, downloads, past, Act
    <3>7. \E w \in {u1, u2, u3} : Becomes(d, k, w)
      BY <3>2 DEF u1, u2, u3
    <3> QED BY <1>2, <2>1, <3>31, <3>32, <3>33, <3>5, <3>6, <3>7, TypeOfThread
  <2>4. \/ /\ error' = TRUE /\ UNCHANGED <<temp, final, acts>>
           /\ Becomes(d, k, [AtEnd(t) EXCEPT !.failed = TRUE])
        \/ /\ error' = error
           /\ \E n \in 1 .. Least(Buffer, t.last + 1 - t.pos) : Buffered(d, k, n)
        \/ /\ UNCHANGED <<error, temp, final, acts>>
           /\ \E u \in {AtEnd(t), Again(t)} : Becomes(d, k, u)
    BY <1>7 DEF Read
  <2>5. error \in BOOLEAN
    BY <1>1 DEF RestType
  <2> QED BY <2>2, <2>3, <2>4, <2>5
<1>8. CASE Split(d, k)
  <2> DEFINE next == FileOf(t.pos)
             u == [t EXCEPT !.at = "read", !.file = next, !.to = Temp]
             v == [Again(t) EXCEPT !.gap = TRUE]
  <2>1. t.at = "split" /\ ThreadKeeps /\ UNCHANGED <<error, installed>>
    BY <1>8 DEF Split
  <2>2. \/ /\ Becomes(d, k, u) /\ acts' = acts
           /\ temp' = Written(Opened(t.pos), next, next * SplitSize, t.pos)
        \/ Becomes(d, k, v) /\ Act /\ UNCHANGED temp
    BY <1>8 DEF Split
  <2>3. t.pos \in 0 .. Size
    BY <1>1 DEF Thread
  <2>4. next \in File
    BY <2>3, FileType
  <2> HIDE DEF next
  <2>5. u \in Thread /\ v \in Thread /\ u.last = t.last /\ v.last = t.last
    BY <1>1, <2>4, Targets DEF Thread, Again
  <2> HIDE DEF u, v
  <2>6. FilesType'
    <3>1. Opened(t.pos) \in Files
      BY <1>1, <2>3, OpenedType DEF FilesType
    <3>2. Written(Opened(t.pos), next, next * SplitSize, t.pos) \in Files
      BY <1>3, <2>4, <3>1, WrittenType
    <3> QED BY <1>1, <2>1, <2>2, <3>2 DEF FilesType, installed
  <2>7. RestType'
    BY <1>1, <2>1, <2>2 DEF ThreadKeeps, RestType, ui, downloads, past, Act, installed
  <2> QED BY <1>2, <2>1, <2>2, <2>5, <2>6, <2>7, TypeOfThread
<1> QED BY <1>5, <1>6, <1>7, <1>8, <1>10 DEF ThreadStep

\* Every step keeps the types.
LEMMA TypeNext == FlowInv /\ TypeInv /\ [Next]_vars => TypeInv'
<1> SUFFICES ASSUME FlowInv, TypeInv, [Next]_vars PROVE TypeInv'
  OBVIOUS
<1>0. TypeOK /\ RestType /\ FilesType /\ ThreadsType /\ SameThreads(thread) /\ MaxVersion \in Nat
  BY TypeParts, SameAsBefore, SizesAssumption DEF TypeInv
<1>01. FlowInv'
  BY FlowNext
<1> USE DEF RestType, Goto, Busy, Finished, Installing, Renaming, flags, ui, downloads,
            installed, disk, past
<1>1. CASE Publish
  <2>1. RestType'
    <3>1. offered' \in Version /\ acts' \in 0 .. MaxActs
      BY <1>0, <1>1, SizesAssumption DEF Publish, Act, Version
    <3> QED BY <1>0, <1>1, <3>1 DEF Publish
  <2>2. FilesType' /\ thread' = thread
    BY <1>0, <1>1 DEF Publish, FilesType
  <2> QED BY <1>0, <2>1, <2>2, TypeOf
<1>2. CASE Kill
  <2>1. RestType'
    <3>1. at' \in [Download -> {"idle", "message"} \union Busy \union Finished]
      BY <1>0, <1>2 DEF Kill, Active
    <3>2. name' \in [Download -> Slot] /\ md5' \in [Download -> 0 .. MaxVersion]
      BY <1>0, <1>2, Targets DEF Kill
    <3>3. listed' \in [Slot -> {"no", "known", "unknown"}]
      BY <1>0, <1>2 DEF Kill
    <3>4. acts' \in 0 .. MaxActs
      BY <1>0, <1>2, SizesAssumption DEF Kill, Act
    <3>5. current' \in 0 .. MaxDownloads /\ removing' \in Removal
      BY <1>2, SizesAssumption, Targets DEF Kill, NoRemoval, Removal
    <3>6. disturbed' \in BOOLEAN
      BY <1>2, Zenon DEF Kill
    <3>7. /\ UNCHANGED <<offered, md5temp, md5final, told>> /\ service' = "down"
          /\ stopAll' = FALSE /\ error' = FALSE /\ deleting' = FALSE
          /\ stop_me' = [d \in Download |-> FALSE]
      BY <1>2 DEF Kill
    <3> QED BY <1>0, <3>1, <3>2, <3>3, <3>4, <3>5, <3>6, <3>7
  <2>2. FilesType'
    BY <1>0, <1>2 DEF Kill, FilesType
  <2>3. ThreadsType' /\ RangeInv'
    BY <1>2, NoThreadType DEF Kill, Idle, ThreadsType, RangeInv, NoThread
  <2>4. TypeOK'
    BY <2>1, <2>2, <2>3 DEF TypeOK, FilesType, ThreadsType
  <2> QED BY <2>3, <2>4 DEF TypeInv
<1>3. CASE Cancel
  <2>1. RestType'
    BY <1>0, <1>3, SizesAssumption DEF Cancel, Act, StopThread, StopService, Download
  <2>2. FilesType' /\ SameThreads(thread')
    BY <1>0, <1>3, DeleteTempType DEF Cancel, StopThread, FilesType
  <2> QED BY <2>1, <2>2, TypeOf
<1>5. CASE StopThreadEnd
  <2>1. RestType'
    <3>1. md5temp' \in 0 .. MaxVersion
      BY <1>0, <1>5 DEF StopThreadEnd
    <3>2. deleting' \in BOOLEAN
      BY <1>5, Zenon DEF StopThreadEnd
    <3> QED BY <1>0, <1>5, <3>1, <3>2 DEF StopThreadEnd
  <2>2. FilesType' /\ thread' = thread
    BY <1>0, <1>5 DEF StopThreadEnd, FilesType
  <2> QED BY <1>0, <2>1, <2>2, TypeOf
<1>6. ASSUME NEW d \in Download, HandleEnd(d) PROVE TypeInv'
  <2>1. RestType'
    BY <1>0, <1>6 DEF HandleEnd, StopService
  <2>2. FilesType' /\ thread' = thread
    BY <1>0, <1>6 DEF HandleEnd, FilesType
  <2> QED BY <1>0, <2>1, <2>2, TypeOf
<1>7. ASSUME NEW s \in Slot, Delete(s) PROVE TypeInv'
  <2>1. acts' \in 0 .. MaxActs /\ removing' \in Removal /\ listed' \in [Slot -> {"no", "known", "unknown"}]
    BY <1>0, <1>7, SizesAssumption DEF Delete, Act, Removal
  <2>2. RestType'
    BY <1>0, <1>7, <2>1 DEF Delete
  <2>3. FilesType' /\ thread' = thread
    BY <1>0, <1>7 DEF Delete, FilesType
  <2> QED BY <1>0, <2>2, <2>3, TypeOf
<1>12. CASE DeleteFiles
  <2>1. removing' \in Removal /\ removing.slot \in Slot
    BY <1>0, <1>12, Targets DEF DeleteFiles, Removal, NoRemoval
  <2>2. disturbed' \in BOOLEAN
    BY <1>12, Zenon DEF DeleteFiles
  <2>3. RestType'
    BY <1>0, <1>12, <2>1, <2>2 DEF DeleteFiles
  <2>4. FilesType' /\ SameThreads(thread')
    BY <1>0, <1>12, <2>1, DeleteSlotType, NoFilesType DEF DeleteFiles, FilesType
  <2> QED BY <2>3, <2>4, TypeOf
<1>13. CASE DeleteSum
  <2>1. removing' \in Removal /\ md5final' \in 0 .. MaxVersion
    BY <1>0, <1>13, Targets DEF DeleteSum, Removal, NoRemoval
  <2>2. RestType'
    BY <1>0, <1>13, <2>1 DEF DeleteSum
  <2>3. FilesType' /\ thread' = thread
    BY <1>0, <1>13 DEF DeleteSum, FilesType
  <2> QED BY <1>0, <2>2, <2>3, TypeOf
<1>8. ASSUME NEW d \in Download, Begin(d) PROVE TypeInv'
  <2>1. acts' \in 0 .. MaxActs /\ current' \in 0 .. MaxDownloads
    BY <1>0, <1>8, SizesAssumption DEF Begin, Act, Download
  <2>2. RestType'
    BY <1>0, <1>8, <2>1 DEF Begin
  <2>3. FilesType' /\ thread' = thread
    BY <1>0, <1>8 DEF Begin, FilesType
  <2> QED BY <1>0, <2>2, <2>3, TypeOf
<1>4. CASE OnDestroy
  <2>1. RestType'
    <3>1. told' \subseteq Download
      BY <1>01 DEF FlowInv
    <3>2. stop_me' \in [Download -> BOOLEAN]
      BY <1>0, <1>4 DEF OnDestroy, StopThread
    <3> QED BY <1>0, <1>4, <3>1, <3>2 DEF OnDestroy, StopThread
  <2>2. FilesType' /\ SameThreads(thread')
    BY <1>0, <1>4, DeleteTempType DEF OnDestroy, StopThread, FilesType
  <2> QED BY <2>1, <2>2, TypeOf
<1>9. ASSUME NEW d \in Download, DownloadStep(d) PROVE TypeInv'
  <2>1. CASE Reset(d)
    <3>1. RestType'
      BY <1>0, <2>1, NameType DEF Reset
    <3> QED BY <1>0, <2>1, <3>1, TypeOf DEF Reset, FilesType
  <2>2. CASE Setup(d)
    <3>1. RestType'
      BY <1>0, <2>2 DEF Setup, Version
    <3> QED BY <1>0, <2>2, <3>1, TypeOf DEF Setup, FilesType
  <2>12. CASE Search(d)
    <3>1. /\ md5temp' \in 0 .. MaxVersion /\ disturbed' \in BOOLEAN
          /\ acts' \in 0 .. MaxActs
      BY <1>0, <2>12, SizesAssumption DEF Search, Act, Version
    <3>2. RestType'
      BY <1>0, <2>12, <3>1 DEF Search
    <3> QED BY <1>0, <2>12, <3>2, TypeOf DEF Search, FilesType
  <2>3. CASE Prepare(d)
    <3>1. /\ acts' \in 0 .. MaxActs
          /\ at' = [at EXCEPT ![d] = "join"] /\ error' = FALSE
      BY <1>0, <2>3, SizesAssumption DEF Prepare, Act
    <3>2. RestType'
      BY <1>0, <2>3, <3>1 DEF Prepare
    <3>3. FilesType'
      BY <1>0, <2>3, WithoutType DEF Prepare, FilesType
    <3>4. PICK n \in 1 .. MaxThreads - Others(d) :
             thread' = [Redirected(thread, File, Temp, Nowhere) EXCEPT ![d] =
                 [k \in 1 .. MaxThreads |-> IF k <= n THEN Started(k, n) ELSE NoThread]]
      BY <2>3 DEF Prepare
    <3> DEFINE th == Redirected(thread, File, Temp, Nowhere)
               new == [k \in 1 .. MaxThreads |-> IF k <= n THEN Started(k, n) ELSE NoThread]
    <3>5. n \in 1 .. MaxThreads
      BY OthersNat, SizesAssumption
    <3>6. /\ new \in [1 .. MaxThreads -> Thread]
          /\ \A k \in 1 .. MaxThreads : new[k].at # "none" => Rewind <= new[k].last
      BY <3>5, StartedType, NoThreadType, SizesAssumption DEF NoThread
    <3>7. SameThreads(th)
      BY <1>0, RedirectedType, Targets DEF SameThreads, ThreadsType, Threads
    <3> HIDE DEF th, new
    <3>8. ThreadsType' /\ RangeInv'
      BY <3>4, <3>6, <3>7, SameRange DEF ThreadsType, RangeInv, th, new
    <3> QED BY <3>2, <3>3, <3>8 DEF TypeInv, TypeOK, FilesType, ThreadsType
  <2>4. CASE Join(d)
    <3>1. RestType'
      BY <1>0, <2>4 DEF Join
    <3>2. ThreadsType' /\ RangeInv'
      BY <1>0, <2>4, NoThreadType DEF Join, Idle, ThreadsType, RangeInv, TypeInv, NoThread
    <3>3. FilesType'
      BY <1>0, <2>4 DEF Join, FilesType
    <3> QED BY <3>1, <3>2, <3>3 DEF TypeInv, TypeOK, FilesType, ThreadsType
  <2>5. CASE Check(d)
    <3>1. RestType'
      BY <1>0, <2>5 DEF Check
    <3>2. FilesType' /\ SameThreads(thread')
      BY <1>0, <2>5, DeleteTempType DEF Check, FilesType
    <3> QED BY <3>1, <3>2, TypeOf
  <2>6. CASE DeleteOld(d)
    <3>1. RestType'
      BY <1>0, <2>6 DEF DeleteOld
    <3>2. FilesType' /\ SameThreads(thread')
      BY <1>0, <2>6, DeleteSlotType, NoFilesType DEF DeleteOld, FilesType
    <3> QED BY <3>1, <3>2, TypeOf
  <2>7. CASE Rename(d)
    <3>1. RestType'
      BY <1>0, <2>7 DEF Rename
    <3>2. FilesType' /\ SameThreads(thread')
      BY <1>0, <2>7, RenameTempType DEF Rename, FilesType
    <3> QED BY <3>1, <3>2, TypeOf
  <2>8. CASE Mark(d)
    <3>1. RestType'
      BY <1>0, <2>8 DEF Mark
    <3> QED BY <1>0, <2>8, <3>1, TypeOf DEF Mark, FilesType
  <2>9. CASE Index(d)
    <3>1. RestType'
      BY <1>0, <2>9 DEF Index
    <3> QED BY <1>0, <2>9, <3>1, TypeOf DEF Index, FilesType
  <2>10. CASE Leave(d)
    <3>1. RestType'
      BY <1>0, <2>10 DEF Leave, StopService
    <3> QED BY <1>0, <2>10, <3>1, TypeOf DEF Leave, FilesType
  <2>11. CASE Cleanup(d)
    <3>1. RestType'
      BY <1>0, <2>11, Targets DEF Cleanup
    <3>2. FilesType' /\ SameThreads(thread')
      BY <1>0, <2>11, DeleteTempType DEF Cleanup, FilesType
    <3> QED BY <3>1, <3>2, TypeOf
  <2> QED BY <1>9, <2>1, <2>2, <2>3, <2>4, <2>5, <2>6, <2>7, <2>8, <2>9, <2>10, <2>11, <2>12
       DEF DownloadStep
<1>10. ASSUME NEW d \in Download, NEW k \in 1 .. MaxThreads, ThreadStep(d, k) PROVE TypeInv'
  BY <1>10, ThreadType
<1>11. CASE UNCHANGED vars
  BY <1>0, <1>11, TypeOf DEF vars, FilesType
<1> QED BY <1>1, <1>2, <1>3, <1>4, <1>5, <1>6, <1>7, <1>8, <1>9, <1>10, <1>11, <1>12, <1>13
     DEF Next, MainStep

-----------------------------------------------------------------------------
(* The temporary files and the installation *)

\* Threads run only while their download waits for them.
JoinInv == \A d \in Download, k \in 1 .. MaxThreads : Runs(d, k) => at[d] = "join"

\* Nothing is being downloaded, and something was.
Quiet ==
    /\ \A d \in Download : at[d] \in {"idle", "run", "message", "done"}
    /\ \E d \in Download : at[d] \in {"message", "done"}
QuietInv == Quiet => temp.there = {} /\ md5temp = 0

\* The bytes of the map in the files fs are those of the version v.
WholeIn(files, fs, v) ==
    \A p \in Pos : FileOf(p) \in fs => /\ FileOf(p) \in files.there
                                       /\ files.data[FileOf(p)][p] = v
Splits == 1 .. (Size - 1) \div SplitSize

\* Where the map is between the check of its file and the catalogue
PlaceInv(d) ==
    /\ at[d] \in {"delete", "rename"} => Whole(temp, md5[d])
    /\ at[d] = "splits" => /\ WholeIn(final[name[d]], {0}, md5[d])
                           /\ WholeIn(temp, Splits, md5[d])
    /\ at[d] \in {"mark", "index"} => Whole(final[name[d]], md5[d])

\* Which sums are kept: those of the version that is being downloaded, or none,
\* in the temporary file, and of an older version, if any, in its place.
SumInv(d) ==
    /\ md5[d] <= offered
    /\ at[d] \in {"prepare", "join", "check"} \union Renaming =>
          md5temp \in {0, md5[d]} /\ md5final < md5[d]
    /\ at[d] = "index" => md5final \in {0, md5[d]}

\* No thread of an undisturbed download writes to an installed map.
ToInv ==
    ~disturbed =>
        \A d \in Download, k \in 1 .. MaxThreads : Runs(d, k) => thread[d][k].to \notin Slot

\* Only a map that is being deleted may be gone while its sum is kept.
KeptInv == md5final <= offered /\ (removing.next # "sum" => UpToDate)

InstallInv ==
    ~disturbed =>
        /\ KeptInv
        /\ \A d \in Download : PlaceInv(d) /\ SumInv(d)

\* What a step of a thread changes
LEMMA ThreadShape ==
    ASSUME TypeInv, NEW d \in Download, NEW k \in 1 .. MaxThreads, ThreadStep(d, k)
    PROVE  /\ Runs(d, k) /\ ThreadKeeps /\ UNCHANGED <<md5final, listed>>
           /\ \E u : Becomes(d, k, u) /\ u.to \in {Temp, Closed, thread[d][k].to}
           /\ thread[d][k].to \notin Slot => final' = final
<1> DEFINE t == thread[d][k]
<1>1. t \in Thread
  BY TypeParts DEF TypeInv, ThreadsType
<1>2. CASE Fails(d, k) /\ ThreadKeeps /\ Runs(d, k)
  <2>1. Failed(t).to = Closed
    BY <1>1 DEF Failed, Thread
  <2> QED BY <1>2, <2>1 DEF Fails, installed
<1>3. \A to \in {Temp, Closed} : [t EXCEPT !.to = to].to = to
  BY <1>1 DEF Thread
<1>8. CASE Enter(d, k) \/ Attempt(d, k)
  <2>1. Runs(d, k) /\ ThreadKeeps
    BY <1>8 DEF Enter, Attempt, Runs
  <2>2. \A l : [t EXCEPT !.at = l].to = t.to
    BY <1>1 DEF Thread
  <2>3. CASE ~Fails(d, k)
    <3>1. UNCHANGED installed /\ \E l : Becomes(d, k, [t EXCEPT !.at = l])
      BY <1>8, <2>3 DEF Enter, Attempt, installed
    <3> QED BY <2>1, <2>2, <3>1 DEF installed
  <2> QED BY <1>2, <2>1, <2>3
<1>4. CASE Open(d, k)
  <2>1. Runs(d, k) /\ ThreadKeeps
    BY <1>4 DEF Open, Runs
  <2>2. [t EXCEPT !.at = "loop", !.pos = t.start, !.again = FALSE,
                  !.file = FileOf(t.start), !.to = Temp].to = Temp
    BY <1>1 DEF Thread
  <2> QED BY <1>2, <1>4, <2>1, <2>2 DEF Open, installed
<1>5. CASE Connect(d, k)
  <2>1. Runs(d, k) /\ ThreadKeeps /\ UNCHANGED installed
    BY <1>5 DEF Connect, Runs
  <2> DEFINE p == Resume(t)
             u == [t EXCEPT !.pos = p, !.again = TRUE]
             v == [u EXCEPT !.file = FileOf(p), !.to = Temp]
             c == [u EXCEPT !.to = Closed]
  <2>2. PICK w \in {u, v, c} : Connected(d, k, w)
    BY <1>5 DEF Connect, Connected
  <2> HIDE DEF p
  <2>3. w.to \in {Temp, Closed, t.to} /\ [w EXCEPT !.at = "read"].to = w.to
        /\ Again(w).to = Closed /\ Failed(w).to = Closed
    BY <1>1, <2>2 DEF Thread, Again, Failed
  <2> HIDE DEF u, v, c
  <2> QED BY <2>1, <2>2, <2>3 DEF installed, Connected
<1>6. CASE Read(d, k)
  <2>1. Runs(d, k) /\ ThreadKeeps /\ UNCHANGED <<md5final, listed>>
    BY <1>6 DEF Read, Runs
  <2>2. /\ [AtEnd(t) EXCEPT !.failed = TRUE].to = AtEnd(t).to
        /\ AtEnd(t).to = Closed /\ Again(t).to = Closed
    BY <1>1 DEF Thread, AtEnd, Again
  <2>3. ASSUME NEW n, Buffered(d, k, n)
        PROVE  /\ \E u : Becomes(d, k, u) /\ u.to \in {Closed, t.to}
               /\ t.to \notin Slot => final' = final
    <3> DEFINE p == t.pos + n
               border == IF p > SplitSize - 1 THEN FileOf(p) * SplitSize ELSE 0
    <3>1. \/ Becomes(d, k, [t EXCEPT !.pos = p]) /\ Put(t, t.pos, p)
          \/ /\ Becomes(d, k, [t EXCEPT !.at = "split", !.pos = p, !.to = Closed])
             /\ Put(t, t.pos, border)
          \/ Becomes(d, k, [Again(t) EXCEPT !.pos = p, !.gap = TRUE]) /\ UNCHANGED final
      BY <2>3 DEF Buffered
    <3> HIDE DEF p, border
    <3>2. /\ [t EXCEPT !.pos = p].to = t.to
          /\ [t EXCEPT !.at = "split", !.pos = p, !.to = Closed].to = Closed
          /\ [Again(t) EXCEPT !.pos = p, !.gap = TRUE].to = Closed
      BY <1>1 DEF Thread, Again
    <3> QED BY <3>1, <3>2 DEF Put
  <2>4. \/ final' = final /\ \E u \in {AtEnd(t), Again(t), [AtEnd(t) EXCEPT !.failed = TRUE]} : Becomes(d, k, u)
        \/ \E n \in 1 .. Least(Buffer, t.last + 1 - t.pos) : Buffered(d, k, n)
    BY <1>6 DEF Read
  <2> QED BY <2>1, <2>2, <2>3, <2>4
<1>7. CASE Split(d, k)
  <2>1. Runs(d, k) /\ ThreadKeeps /\ UNCHANGED installed
    BY <1>7 DEF Split, Runs
  <2> DEFINE u == [t EXCEPT !.at = "read", !.file = FileOf(t.pos), !.to = Temp]
             v == [Again(t) EXCEPT !.gap = TRUE]
  <2>2. Becomes(d, k, u) \/ Becomes(d, k, v)
    BY <1>7 DEF Split
  <2>3. u.to = Temp /\ v.to = Closed
    BY <1>1 DEF Thread, Again
  <2> HIDE DEF u, v
  <2> QED BY <2>1, <2>2, <2>3 DEF installed
<1> QED BY <1>4, <1>5, <1>6, <1>7, <1>8 DEF ThreadStep

\* Steps that leave the threads and the waiting downloads alone keep JoinInv.
LEMMA JoinKept ==
    ASSUME TypeInv, JoinInv, SameThreads(thread'),
           \A d \in Download : at[d] = "join" => at'[d] = "join"
    PROVE  JoinInv'
  BY DEF SameThreads, SameButTo, JoinInv, Runs

\* Every step keeps JoinInv.
LEMMA JoinNext == FlowInv /\ TypeInv /\ JoinInv /\ [Next]_vars => JoinInv'
<1> SUFFICES ASSUME FlowInv, TypeInv, JoinInv, [Next]_vars PROVE JoinInv'
  OBVIOUS
<1>0. SameThreads(thread)
  BY SameAsBefore
<1>01. ThreadsType /\ at \in [Download -> {"idle", "message"} \union Busy \union Finished]
  BY TypeParts DEF TypeInv, RestType
<1> USE DEF Goto, flags, ui, downloads, past
<1>1. CASE Publish
  BY <1>0, <1>1, JoinKept DEF Publish
<1>2. CASE Kill
  BY <1>2 DEF Kill, Idle, NoThread, JoinInv, Runs
<1>3. CASE Cancel \/ OnDestroy
  BY <1>3, DeleteTempType, JoinKept DEF Cancel, OnDestroy, StopThread
<1>4. CASE StopThreadEnd
  BY <1>0, <1>4, JoinKept DEF StopThreadEnd
<1>5. ASSUME NEW d \in Download, HandleEnd(d) PROVE JoinInv'
  BY <1>0, <1>01, <1>5, JoinKept DEF HandleEnd
<1>6. CASE DeleteFiles
  BY <1>6, DeleteSlotType, JoinKept DEF DeleteFiles
<1>11. CASE DeleteSum \/ \E s \in Slot : Delete(s)
  BY <1>0, <1>11, JoinKept DEF DeleteSum, Delete
<1>7. ASSUME NEW d \in Download, Begin(d) PROVE JoinInv'
  BY <1>0, <1>01, <1>7, JoinKept DEF Begin
<1>8. ASSUME NEW d \in Download, DownloadStep(d) PROVE JoinInv'
  <2>1. CASE Reset(d) \/ Setup(d) \/ Search(d) \/ Mark(d) \/ Index(d) \/ Leave(d)
    BY <1>0, <1>01, <2>1, JoinKept DEF Reset, Setup, Search, Mark, Index, Leave
  <2>2. CASE Prepare(d)
    <3> DEFINE th == Redirected(thread, File, Temp, Nowhere)
    <3>1. SameThreads(th)
      BY <1>01, RedirectedType, Targets DEF SameThreads, ThreadsType, Threads
    <3>2. PICK new : thread' = [th EXCEPT ![d] = new]
      BY <2>2 DEF Prepare
    <3>3. at' = [at EXCEPT ![d] = "join"]
      BY <2>2 DEF Prepare
    <3> HIDE DEF th
    <3>4. \A e \in Download \ {d} : thread'[e] = th[e] /\ at'[e] = at[e]
      BY <3>1, <3>2, <3>3, <1>01
    <3>5. at'[d] = "join"
      BY <3>3, <1>01
    <3> QED BY <3>1, <3>4, <3>5 DEF JoinInv, Runs, SameThreads, SameButTo
  <2>3. CASE Join(d)
    <3>1. thread' = [thread EXCEPT ![d] = Idle] /\ \E l : at' = [at EXCEPT ![d] = l]
      BY <2>3 DEF Join
    <3>2. \A k \in 1 .. MaxThreads : Idle[k].at = "none"
      BY DEF Idle, NoThread
    <3>3. \A e \in Download \ {d} : thread'[e] = thread[e] /\ at'[e] = at[e]
      BY <3>1, <1>01 DEF ThreadsType
    <3>4. thread'[d] = Idle
      BY <3>1, <1>01 DEF ThreadsType
    <3> QED BY <3>2, <3>3, <3>4 DEF JoinInv, Runs
  <2>4. CASE Check(d)
    <3>1. SameThreads(thread')
      BY <1>0, <2>4, DeleteTempType DEF Check
    <3> QED BY <1>01, <2>4, <3>1, JoinKept DEF Check
  <2>5. CASE DeleteOld(d)
    <3>1. SameThreads(thread')
      BY <2>5, DeleteSlotType DEF DeleteOld
    <3> QED BY <1>01, <2>5, <3>1, JoinKept DEF DeleteOld
  <2>6. CASE Rename(d)
    <3>1. name[d] \in Slot
      BY TypeParts DEF TypeInv, RestType
    <3>2. SameThreads(thread')
      BY <2>6, <3>1, RenameTempType DEF Rename
    <3> QED BY <1>01, <2>6, <3>2, JoinKept DEF Rename
  <2>7. CASE Cleanup(d)
    <3>1. SameThreads(thread')
      BY <2>7, DeleteTempType DEF Cleanup
    <3> QED BY <1>01, <2>7, <3>1, JoinKept DEF Cleanup
  <2> QED BY <1>8, <2>1, <2>2, <2>3, <2>4, <2>5, <2>6, <2>7 DEF DownloadStep
<1>9. ASSUME NEW d \in Download, NEW k \in 1 .. MaxThreads, ThreadStep(d, k) PROVE JoinInv'
  <2>1. at[d] = "join" /\ at' = at
    BY <1>9, ThreadShape DEF JoinInv, ThreadKeeps
  <2>2. PICK u : thread' = [thread EXCEPT ![d][k] = u]
    BY <1>9, ThreadShape DEF Becomes
  <2>3. \A e \in Download \ {d} : thread'[e] = thread[e]
    BY <2>2, <1>01 DEF ThreadsType
  <2> QED BY <2>1, <2>3 DEF JoinInv, Runs
<1>10. CASE UNCHANGED vars
  BY <1>10 DEF vars, JoinInv, Runs
<1> QED BY <1>1, <1>2, <1>3, <1>4, <1>5, <1>6, <1>7, <1>8, <1>9, <1>10, <1>11 DEF Next, MainStep

\* Every step keeps QuietInv.
LEMMA QuietNext == FlowInv /\ TypeInv /\ JoinInv /\ QuietInv /\ [Next]_vars => QuietInv'
<1> SUFFICES ASSUME FlowInv, TypeInv, JoinInv, QuietInv, [Next]_vars PROVE QuietInv'
  OBVIOUS
<1>1. temp.there \subseteq File /\ at \in [Download -> {"idle", "message"} \union Busy \union Finished]
  BY TypeParts DEF TypeInv, RestType, FilesType, Files
<1>2. ASSUME NEW fs, temp' = Without(temp, fs) PROVE temp'.there = temp.there \ fs
  BY <1>2 DEF Without
<1> USE DEF Goto, flags, ui, downloads, past, disk, QuietInv, Quiet
<1>3. CASE Publish \/ StopThreadEnd
  BY <1>3 DEF Publish, StopThreadEnd
<1>4. CASE Kill
  <2>1. \A d \in Download : at'[d] = IF Active(d) THEN "killed" ELSE at[d]
    BY <1>4 DEF Kill
  <2>2. Quiet' => Quiet
    BY <2>1 DEF Active, Finished
  <2> QED BY <1>4, <2>2 DEF Kill
<1>5. CASE Cancel \/ OnDestroy
  BY <1>1, <1>2, <1>5 DEF Cancel, OnDestroy, StopThread, DeleteTemp
<1>6. ASSUME NEW d \in Download, HandleEnd(d) PROVE QuietInv'
  BY <1>1, <1>6 DEF HandleEnd
<1>7. CASE DeleteFiles \/ DeleteSum \/ \E s \in Slot : Delete(s)
  BY <1>7 DEF DeleteFiles, DeleteSum, Delete
<1>8. ASSUME NEW d \in Download, Begin(d) PROVE QuietInv'
  BY <1>1, <1>8 DEF Begin
<1>9. ASSUME NEW d \in Download, DownloadStep(d) PROVE QuietInv'
  <2>1. CASE Cleanup(d)
    BY <1>1, <1>2, <2>1 DEF Cleanup, DeleteTemp
  <2>3. CASE Search(d)
    BY <2>3 DEF Search
  <2>2. CASE ~Cleanup(d) /\ ~Search(d)
    <3>1. \E l \in {"setup", "prepare", "leave", "join", "check", "delete", "rename", "splits",
                    "mark", "index", "cleanup"} : at' = [at EXCEPT ![d] = l]
      BY <1>9, <2>2 DEF DownloadStep, Reset, Setup, Prepare, Join, Check, DeleteOld, Rename, Mark,
                        Index, Leave
    <3> QED BY <1>1, <3>1
  <2> QED BY <2>1, <2>2, <2>3
<1>10. ASSUME NEW d \in Download, NEW k \in 1 .. MaxThreads, ThreadStep(d, k) PROVE QuietInv'
  BY <1>10, ThreadShape DEF JoinInv, ThreadKeeps
<1>11. CASE UNCHANGED vars
  BY <1>11 DEF vars
<1> QED BY <1>3, <1>4, <1>5, <1>6, <1>7, <1>8, <1>9, <1>10, <1>11 DEF Next, MainStep

\* While an undisturbed download is under way no other one is.
LEMMA OnlyOne ==
    ASSUME FlowInv, ~disturbed, NEW d \in Download, Active(d), NEW e \in Download, Active(e)
    PROVE  e = d
  BY DEF FlowInv, AloneInv

\* What was disturbed stays so.
LEMMA DisturbedStays == [Next]_vars /\ disturbed => disturbed'
<1> SUFFICES ASSUME [Next]_vars, disturbed PROVE disturbed'
  OBVIOUS
<1>1. CASE Publish \/ Kill \/ Cancel \/ MainStep
  BY <1>1 DEF Publish, Kill, Cancel, MainStep, OnDestroy, StopThread, StopThreadEnd, DeleteFiles, DeleteSum,
              HandleEnd, past
<1>2. ASSUME NEW s \in Slot, Delete(s) PROVE disturbed'
  BY <1>2 DEF Delete, past
<1>3. ASSUME NEW d \in Download, Begin(d) \/ DownloadStep(d) PROVE disturbed'
  BY <1>3 DEF Begin, DownloadStep, Reset, Setup, Search, Prepare, Join, Check, DeleteOld, Rename, Mark,
              Index, Leave, Cleanup, past
<1>4. ASSUME NEW d \in Download, NEW k \in 1 .. MaxThreads, ThreadStep(d, k) PROVE disturbed'
  BY <1>4 DEF ThreadStep, Enter, Open, Attempt, Connect, Read, Split, ThreadKeeps, past
<1>5. CASE UNCHANGED vars
  BY <1>5 DEF vars, past
<1> QED BY <1>1, <1>2, <1>3, <1>4, <1>5 DEF Next

\* Where a thread writes after files were deleted or renamed.
LEMMA RedirectedTo ==
    ASSUME NEW th \in Threads, NEW fs, NEW to, NEW new,
           NEW d \in Download, NEW k \in 1 .. MaxThreads
    PROVE  Redirected(th, fs, to, new)[d][k].to \in {new, th[d][k].to}
<1>1. DOMAIN th[d] = 1 .. MaxThreads /\ th[d][k] \in Thread
  BY DEF Threads
<1>2. Redirected(th, fs, to, new)[d][k] =
            IF th[d][k].to = to /\ th[d][k].file \in fs
            THEN [th[d][k] EXCEPT !.to = new] ELSE th[d][k]
  BY <1>1 DEF Redirected
<1>3. [th[d][k] EXCEPT !.to = new].to = new
  BY <1>1 DEF Thread
<1> QED BY <1>2, <1>3

\* Deleting files lets no thread write to an installed map.
LEMMA ToKept ==
    ASSUME TypeInv, ToInv, ~disturbed,
           NEW fs, NEW to, thread' = Redirected(thread, fs, to, Nowhere)
    PROVE  ToInv'
<1>1. thread \in Threads /\ Nowhere \notin Slot
  BY TypeParts DEF TypeInv, ThreadsType, Threads, Nowhere, Slot
<1>2. ASSUME NEW e \in Download, NEW k \in 1 .. MaxThreads, Runs(e, k)'
      PROVE  thread'[e][k].to \notin Slot
  <2>1. thread'[e][k].to \in {Nowhere, thread[e][k].to} /\ SameButTo(thread'[e][k], thread[e][k])
    BY <1>1, RedirectedTo, RedirectedType, Targets
  <2> QED BY <1>1, <1>2, <2>1 DEF ToInv, Runs, SameButTo
<1> QED BY <1>2 DEF ToInv

\* Every step keeps ToInv.
LEMMA ToNext == FlowInv /\ TypeInv /\ JoinInv /\ ToInv /\ [Next]_vars => ToInv'
<1> SUFFICES ASSUME FlowInv, TypeInv, JoinInv, ToInv, [Next]_vars, ~disturbed' PROVE ToInv'
  BY DEF ToInv
<1>0. ~disturbed
  BY DisturbedStays
<1>01. /\ ThreadsType /\ thread \in Threads /\ Nowhere \notin Slot /\ Temp \notin Slot /\ Closed \notin Slot
       /\ at \in [Download -> {"idle", "message"} \union Busy \union Finished]
  BY TypeParts DEF TypeInv, RestType, ThreadsType, Threads, Nowhere, Temp, Closed, Slot
<1>02. thread' = thread => ToInv'
  BY <1>0 DEF ToInv, Runs
<1> USE DEF Goto, flags, ui, downloads, past
<1>1. CASE Publish \/ StopThreadEnd
  BY <1>02, <1>1 DEF Publish, StopThreadEnd
<1>2. CASE Kill
  BY <1>2 DEF Kill, Idle, NoThread, ToInv, Runs
<1>3. CASE Cancel \/ OnDestroy
  BY <1>0, <1>3, ToKept DEF Cancel, OnDestroy, StopThread, DeleteTemp
<1>5. ASSUME NEW d \in Download, HandleEnd(d) PROVE ToInv'
  BY <1>02, <1>5 DEF HandleEnd
<1>6. CASE DeleteFiles
  BY <1>0, <1>6, ToKept DEF DeleteFiles
<1>11. CASE DeleteSum \/ \E s \in Slot : Delete(s)
  BY <1>02, <1>11 DEF DeleteSum, Delete
<1>7. ASSUME NEW d \in Download, Begin(d) PROVE ToInv'
  BY <1>02, <1>7 DEF Begin
<1>8. ASSUME NEW d \in Download, DownloadStep(d) PROVE ToInv'
  <2>1. CASE Reset(d) \/ Setup(d) \/ Search(d) \/ Mark(d) \/ Index(d) \/ Leave(d)
    BY <1>02, <2>1 DEF Reset, Setup, Search, Mark, Index, Leave
  <2>2. CASE Prepare(d)
    <3> DEFINE th == Redirected(thread, File, Temp, Nowhere)
    <3>1. PICK n \in 1 .. MaxThreads - Others(d) :
             thread' = [th EXCEPT ![d] =
                 [k \in 1 .. MaxThreads |-> IF k <= n THEN Started(k, n) ELSE NoThread]]
      BY <2>2 DEF Prepare
    <3> DEFINE new == [k \in 1 .. MaxThreads |-> IF k <= n THEN Started(k, n) ELSE NoThread]
    <3>2. \A k \in 1 .. MaxThreads : new[k].to = Closed
      BY DEF Started, NoThread
    <3>3. /\ \A e \in Download, k \in 1 .. MaxThreads :
                th[e][k].to \in {Nowhere, thread[e][k].to} /\ SameButTo(th[e][k], thread[e][k])
          /\ th \in Threads
      BY <1>01, RedirectedTo, RedirectedType, Targets
    <3> HIDE DEF th, new
    <3>4. thread' = [th EXCEPT ![d] = new]
      BY <3>1 DEF new
    <3>5. ASSUME NEW e \in Download, NEW k \in 1 .. MaxThreads, Runs(e, k)', e # d
          PROVE  thread'[e][k].to \notin Slot
      <4>1. thread'[e] = th[e]
        BY <3>3, <3>4, <3>5 DEF Threads
      <4> QED BY <1>0, <1>01, <3>3, <3>5, <4>1 DEF ToInv, Runs, SameButTo
    <3>6. \A k \in 1 .. MaxThreads : thread'[d][k].to \notin Slot
      BY <1>01, <3>2, <3>3, <3>4 DEF Threads
    <3> QED BY <3>5, <3>6 DEF ToInv
  <2>3. CASE Join(d)
    <3>1. thread' = [thread EXCEPT ![d] = Idle] /\ \A k \in 1 .. MaxThreads : Idle[k].to = Closed
      BY <2>3 DEF Join, Idle, NoThread
    <3>2. thread'[d] = Idle /\ \A e \in Download \ {d} : thread'[e] = thread[e]
      BY <3>1, <1>01 DEF ThreadsType
    <3> QED BY <1>0, <1>01, <3>1, <3>2 DEF ToInv, Runs
  <2>4. CASE Check(d)
    BY <1>0, <1>02, <2>4, ToKept DEF Check, DeleteTemp
  <2>5. CASE DeleteOld(d)
    BY <1>0, <2>5, ToKept DEF DeleteOld
  <2>6. CASE Rename(d)
    <3>1. Active(d) /\ at[d] # "join"
      BY <2>6 DEF Rename, Active, Finished
    <3>2. \A e \in Download, k \in 1 .. MaxThreads : ~Runs(e, k)
      BY <1>0, <3>1, OnlyOne DEF JoinInv, Active, Finished
    <3>3. name[d] \in Slot
      BY TypeParts DEF TypeInv, RestType
    <3>4. SameThreads(thread')
      BY <2>6, <3>3, RenameTempType DEF Rename
    <3> QED BY <3>2, <3>4 DEF SameThreads, SameButTo, Runs, ToInv
  <2>7. CASE Cleanup(d)
    BY <1>0, <2>7, ToKept DEF Cleanup, DeleteTemp
  <2> QED BY <1>8, <2>1, <2>2, <2>3, <2>4, <2>5, <2>6, <2>7 DEF DownloadStep
<1>9. ASSUME NEW d \in Download, NEW k \in 1 .. MaxThreads, ThreadStep(d, k) PROVE ToInv'
  <2>1. PICK u : Becomes(d, k, u) /\ u.to \in {Temp, Closed, thread[d][k].to}
    BY <1>9, ThreadShape
  <2>2. u.to \notin Slot
    BY <1>0, <1>01, <1>9, <2>1, ThreadShape DEF ToInv
  <2>3. thread' = [thread EXCEPT ![d] = [thread[d] EXCEPT ![k] = u]]
    BY <2>1 DEF Becomes
  <2>4. ASSUME NEW e \in Download, NEW l \in 1 .. MaxThreads
        PROVE  thread'[e][l] = IF e = d /\ l = k THEN u ELSE thread[e][l]
    BY <1>01, <2>3 DEF ThreadsType
  <2> QED BY <1>0, <2>2, <2>4 DEF ToInv, Runs
<1>10. CASE UNCHANGED vars
  BY <1>02, <1>10 DEF vars
<1> QED BY <1>1, <1>2, <1>3, <1>5, <1>6, <1>7, <1>8, <1>9, <1>10, <1>11 DEF Next, MainStep

\* Where a download needs nothing of the disk.
Aside == {"idle", "run", "setup", "leave", "cleanup", "message"} \union Finished

\* Nothing is asked of the disk for a download that is aside.
LEMMA PlaceAside ==
    ASSUME NEW d \in Download, at'[d] \in Aside, md5'[d] <= offered'
    PROVE  PlaceInv(d)' /\ SumInv(d)'
  BY DEF Aside, Finished, PlaceInv, SumInv, Renaming

\* The files of the map are the first and the rest.
LEMMA FileOfMap ==
    ASSUME NEW p \in Pos PROVE FileOf(p) = 0 \/ FileOf(p) \in Splits
<1>1. p \in Nat /\ Size - 1 \in Nat /\ p <= Size - 1 /\ SplitSize \in Nat \ {0}
  BY SizesAssumption DEF Pos
<1>2. p \div SplitSize \in Nat /\ (Size - 1) \div SplitSize \in Nat
      /\ p \div SplitSize <= (Size - 1) \div SplitSize
  BY <1>1, DivBounds, DivMonotone
<1> QED BY <1>2 DEF FileOf, Splits

\* After the first file was renamed the rest is still where it was.
LEMMA FirstRenamed ==
    ASSUME TypeInv, NEW s \in Slot, NEW v, Whole(temp, v), RenameTemp({0}, s)
    PROVE  WholeIn(final'[s], {0}, v) /\ WholeIn(temp', Splits, v)
<1> DEFINE have == {0} \intersect temp.there
           new == [there |-> final[s].there \union have,
                   data |-> [f \in File |-> IF f \in have THEN temp.data[f] ELSE final[s].data[f]]]
<1>1. temp' = Without(temp, have) /\ final' = [final EXCEPT ![s] = new]
  BY DEF RenameTemp
<1>2. final'[s] = new
  BY <1>1, TypeParts DEF TypeInv, FilesType
<1>3. \A p \in Pos : FileOf(p) \in File
  BY FileType, SizesAssumption DEF Pos
<1>4. ASSUME NEW p \in Pos, FileOf(p) = 0
      PROVE  0 \in new.there /\ new.data[0][p] = v
  <2>1. 0 \in temp.there /\ temp.data[0][p] = v /\ 0 \in File
    BY <1>3, <1>4 DEF Whole
  <2> QED BY <2>1
<1>5. ASSUME NEW p \in Pos, FileOf(p) \in Splits
      PROVE  FileOf(p) \in temp'.there /\ temp'.data[FileOf(p)][p] = v
  <2>1. FileOf(p) \in temp.there /\ temp.data[FileOf(p)][p] = v /\ FileOf(p) \in File
    BY <1>3 DEF Whole
  <2>2. FileOf(p) # 0
    BY <1>5, SizesAssumption DEF Splits
  <2> QED BY <1>1, <2>1, <2>2 DEF Without
<1> HIDE DEF new, have
<1> QED BY <1>2, <1>4, <1>5 DEF WholeIn

\* After the rest was renamed the map is whole.
LEMMA RestRenamed ==
    ASSUME TypeInv, NEW s \in Slot, NEW v, RenameTemp(Splits, s),
           WholeIn(final[s], {0}, v), WholeIn(temp, Splits, v)
    PROVE  Whole(final'[s], v)
<1> DEFINE have == Splits \intersect temp.there
           new == [there |-> final[s].there \union have,
                   data |-> [f \in File |-> IF f \in have THEN temp.data[f] ELSE final[s].data[f]]]
<1>1. final' = [final EXCEPT ![s] = new]
  BY DEF RenameTemp
<1>2. final'[s] = new
  BY <1>1, TypeParts DEF TypeInv, FilesType
<1>3. ASSUME NEW p \in Pos
      PROVE  FileOf(p) \in new.there /\ new.data[FileOf(p)][p] = v
  <2>1. FileOf(p) \in File
    BY FileType, SizesAssumption DEF Pos
  <2>2. CASE FileOf(p) \in Splits
    <3>1. FileOf(p) \in have /\ temp.data[FileOf(p)][p] = v
      BY <2>2 DEF WholeIn
    <3> QED BY <2>1, <3>1
  <2>3. CASE FileOf(p) = 0
    <3>1. 0 \notin have
      BY SizesAssumption DEF Splits
    <3>2. 0 \in final[s].there /\ final[s].data[0][p] = v
      BY <2>3 DEF WholeIn
    <3> QED BY <2>1, <2>3, <3>1, <3>2
  <2> QED BY <2>2, <2>3, FileOfMap
<1> HIDE DEF new, have
<1> QED BY <1>2, <1>3 DEF Whole

Kept == UNCHANGED <<removing, final, md5final, offered>>

\* Every step keeps InstallInv.
LEMMA InstallNext ==
    FlowInv /\ TypeInv /\ JoinInv /\ ToInv /\ InstallInv /\ [Next]_vars => InstallInv'
<1> SUFFICES ASSUME FlowInv, TypeInv, JoinInv, ToInv, InstallInv, [Next]_vars, ~disturbed'
             PROVE  InstallInv'
  BY DEF InstallInv
<1>0. ~disturbed
  BY DisturbedStays
<1>1. /\ KeptInv
      /\ \A d \in Download : PlaceInv(d) /\ SumInv(d)
  BY <1>0 DEF InstallInv
<1>2. /\ at \in [Download -> {"idle", "message"} \union Busy \union Finished]
      /\ md5 \in [Download -> 0 .. MaxVersion] /\ name \in [Download -> Slot]
      /\ offered \in 1 .. MaxVersion /\ md5temp \in 0 .. MaxVersion /\ md5final \in 0 .. MaxVersion
      /\ final \in [Slot -> Files] /\ MaxVersion \in Nat
  BY TypeParts, SizesAssumption DEF TypeInv, RestType, FilesType, Version
<1>3. Kept => KeptInv'
  BY <1>1 DEF Kept, KeptInv, UpToDate, Whole
\* One download took a step, the others are aside.
<1>4. ASSUME NEW d \in Download, Active(d), NEW l, at' = [at EXCEPT ![d] = l],
             \A e \in Download \ {d} : md5'[e] = md5[e], offered' = offered
      PROVE  \A e \in Download \ {d} : PlaceInv(e)' /\ SumInv(e)'
  <2>1. ASSUME NEW e \in Download \ {d} PROVE at'[e] \in Aside /\ md5'[e] <= offered'
    <3>1. ~Active(e)
      BY <1>0, <1>4, OnlyOne
    <3> QED BY <1>1, <1>2, <1>4, <3>1 DEF Active, Aside, SumInv
  <2> QED BY <2>1, PlaceAside
<1>5. ASSUME at' = at, name' = name, md5' = md5, UNCHANGED <<final, md5final>>,
             offered' \in Nat, offered <= offered', md5temp' \in {0, md5temp},
             temp' = temp \/ \A d \in Download : at[d] \notin Renaming
      PROVE  \A d \in Download : PlaceInv(d)' /\ SumInv(d)'
  <2> SUFFICES ASSUME NEW d \in Download PROVE PlaceInv(d)' /\ SumInv(d)'
    OBVIOUS
  <2>1. PlaceInv(d)'
    BY <1>1, <1>5 DEF PlaceInv, Renaming, Whole, WholeIn
  <2>2. SumInv(d)'
    BY <1>1, <1>2, <1>5 DEF SumInv
  <2> QED BY <2>1, <2>2
<1> USE DEF Goto, flags, ui, downloads, disk, installed, past
<1>6. CASE Publish
  <2>1. KeptInv'
    BY <1>1, <1>2, <1>6 DEF Publish, KeptInv, UpToDate
  <2> QED BY <1>2, <1>5, <1>6, <2>1 DEF Publish, InstallInv
<1>7. CASE Kill
  <2>1. \A d \in Download : at'[d] \in Aside /\ md5'[d] = 0
    BY <1>2, <1>7 DEF Kill, Aside, Active, Finished
  <2>2. /\ UNCHANGED <<final, md5final, offered>>
        /\ ~(removing.next = "sum" /\ md5final # 0)
    BY <1>7 DEF Kill
  <2>3. KeptInv'
    BY <1>1, <1>2, <2>2 DEF KeptInv, UpToDate, Whole
  <2> QED BY <1>2, <2>1, <2>2, <2>3, PlaceAside DEF InstallInv
<1>8. CASE Cancel \/ OnDestroy
  <2>1. /\ StopThread /\ UNCHANGED <<removing, at, name, md5, md5temp, final, md5final, offered>>
        /\ current # 0
    BY <1>8 DEF Cancel, OnDestroy, FlowInv
  <2>2. current \in Download
    BY <2>1, SizesAssumption DEF FlowInv, Download
  <2>3. \A d \in Download : at[d] \notin Renaming
    <3>1. at[current] \notin Renaming
      BY <2>1 DEF StopThread
    <3> QED BY <1>0, <3>1 DEF FlowInv, AloneInv, Active, Renaming, Finished
  <2> QED BY <1>2, <1>3, <1>5, <2>1, <2>3 DEF Kept, InstallInv
<1>9. CASE StopThreadEnd
  BY <1>2, <1>3, <1>5, <1>9 DEF StopThreadEnd, Kept, InstallInv
<1>10. ASSUME NEW d \in Download, HandleEnd(d) PROVE InstallInv'
  <2>1. /\ at[d] = "message" /\ at' = [at EXCEPT ![d] = "done"] /\ Kept /\ md5' = md5
    BY <1>10 DEF HandleEnd, Kept
  <2>2. at'[d] \in Aside /\ md5'[d] <= offered' /\ Active(d)
    BY <1>1, <1>2, <2>1 DEF Aside, Finished, Kept, SumInv, Active
  <2> QED BY <1>3, <1>4, <2>1, <2>2, PlaceAside DEF InstallInv, Kept
<1>11. ASSUME NEW s \in Slot, Delete(s) PROVE InstallInv'
  <2>1. /\ removing.next = "no" /\ UNCHANGED <<offered, at, name, md5, md5temp, final, md5final, temp>>
    BY <1>11 DEF Delete, MainIdle
  <2>2. KeptInv'
    BY <1>1, <2>1 DEF KeptInv, UpToDate, Whole
  <2> QED BY <1>2, <1>5, <2>1, <2>2 DEF InstallInv
<1>16. CASE DeleteFiles
  <2>1. /\ \A d \in Download : at[d] \notin Installing
        /\ UNCHANGED <<offered, at, name, md5, md5temp, md5final>>
        /\ removing'.next # "sum" => md5final = 0
    BY <1>16 DEF DeleteFiles
  <2>2. KeptInv'
    BY <1>1, <1>2, <2>1 DEF KeptInv, UpToDate
  <2>3. ASSUME NEW d \in Download PROVE PlaceInv(d)' /\ SumInv(d)'
    <3>1. SumInv(d)
      BY <1>1
    <3> QED BY <2>1, <3>1 DEF PlaceInv, SumInv, Installing, Renaming
  <2> QED BY <2>2, <2>3 DEF InstallInv
<1>17. CASE DeleteSum
  <2>1. md5final' = 0 /\ UNCHANGED <<offered, at, name, md5, md5temp, final, temp>>
    BY <1>17 DEF DeleteSum
  <2>2. KeptInv'
    BY <1>2, <2>1 DEF KeptInv, UpToDate
  <2>3. ASSUME NEW d \in Download PROVE PlaceInv(d)' /\ SumInv(d)'
    <3>1. PlaceInv(d) /\ SumInv(d) /\ md5[d] \in Nat
      BY <1>1, <1>2
    <3>2. PlaceInv(d)'
      BY <2>1, <3>1 DEF PlaceInv, Whole, WholeIn
    <3>3. SumInv(d)'
      BY <1>2, <2>1, <3>1 DEF SumInv
    <3> QED BY <3>2, <3>3
  <2> QED BY <2>2, <2>3 DEF InstallInv
<1>12. ASSUME NEW d \in Download, Begin(d) PROVE InstallInv'
  <2>1. at[d] = "idle" /\ at' = [at EXCEPT ![d] = "run"] /\ Kept /\ md5' = md5
    BY <1>12 DEF Begin, Kept
  <2>2. \A e \in Download : ~Active(e)
    BY <1>12 DEF Begin
  <2>3. \A e \in Download : at'[e] \in Aside /\ md5'[e] <= offered'
    BY <1>1, <1>2, <2>1, <2>2 DEF Active, Aside, Kept, SumInv
  <2> QED BY <1>3, <2>1, <2>3, PlaceAside DEF InstallInv
<1>13. ASSUME NEW d \in Download, DownloadStep(d) PROVE InstallInv'
  <2>0. PlaceInv(d) /\ SumInv(d) /\ name[d] \in Slot /\ md5[d] \in 0 .. MaxVersion
    BY <1>1, <1>2
  <2>1. CASE Reset(d) \/ Leave(d) \/ Cleanup(d) \/ Index(d)
    <3>1. /\ Active(d) /\ Kept /\ \E l \in Aside : at' = [at EXCEPT ![d] = l]
          /\ (md5' = md5 \/ md5' = [md5 EXCEPT ![d] = 0])
      BY <2>1 DEF Reset, Leave, Cleanup, Index, Active, Finished, Kept, Aside
    <3>2. at'[d] \in Aside /\ md5'[d] <= offered' /\ \A e \in Download \ {d} : md5'[e] = md5[e]
      BY <1>2, <2>0, <3>1 DEF SumInv, Kept
    <3> QED BY <1>3, <1>4, <3>1, <3>2, PlaceAside DEF InstallInv, Kept
  <2>2. CASE Setup(d)
    <3>1. /\ Active(d) /\ Kept /\ \E l : at' = [at EXCEPT ![d] = l]
          /\ (md5' = md5 \/ md5' = [md5 EXCEPT ![d] = offered])
      BY <2>2 DEF Setup, Active, Finished, Kept
    <3>2. \A e \in Download \ {d} : md5'[e] = md5[e]
      BY <1>2, <3>1
    <3>3. md5'[d] <= offered'
      BY <1>2, <2>0, <3>1 DEF SumInv, Kept
    <3>4. PlaceInv(d)' /\ SumInv(d)'
      <4>1. CASE at' = [at EXCEPT ![d] = "leave"]
        BY <1>2, <3>3, <4>1, PlaceAside DEF Aside
      <4>2. CASE at' # [at EXCEPT ![d] = "leave"]
        <5>1. /\ md5' = [md5 EXCEPT ![d] = offered] /\ md5temp' = offered /\ md5final # offered
              /\ at' = [at EXCEPT ![d] = "prepare"]
          BY <2>2, <4>2 DEF Setup
        <5>2. at'[d] = "prepare" /\ md5'[d] = offered
          BY <1>2, <5>1
        <5>3. md5final < offered
          BY <1>1, <1>2, <5>1 DEF KeptInv
        <5> QED BY <3>1, <3>3, <5>1, <5>2, <5>3 DEF PlaceInv, SumInv, Kept, Renaming
      <4> QED BY <4>1, <4>2
    <3> QED BY <1>3, <1>4, <3>1, <3>2, <3>4 DEF InstallInv, Kept
  <2>9. CASE Search(d)
    <3>1. /\ at[d] = "prepare" /\ Kept /\ UNCHANGED <<at, name, md5, temp>>
          /\ md5temp' = md5[d]
      BY <2>9 DEF Search, Kept
    <3>2. ASSUME NEW e \in Download PROVE PlaceInv(e)' /\ SumInv(e)'
      <4>1. CASE e = d
        BY <2>0, <3>1, <4>1 DEF PlaceInv, SumInv, Kept, Renaming
      <4>2. CASE e # d
        <5>1. ~Active(e)
          BY <1>0, <3>1, <4>2, OnlyOne DEF Active, Finished
        <5> QED BY <1>1, <1>2, <3>1, <5>1, PlaceAside DEF Active, Aside, SumInv, Kept
      <4> QED BY <4>1, <4>2
    <3> QED BY <1>3, <3>1, <3>2 DEF InstallInv
  <2>3. CASE Prepare(d)
    <3>1. /\ at[d] = "prepare" /\ at' = [at EXCEPT ![d] = "join"] /\ Kept /\ md5' = md5
          /\ md5temp' = md5temp
      BY <2>3 DEF Prepare, Kept
    <3>2. at'[d] = "join"
      BY <1>2, <3>1
    <3>3. PlaceInv(d)' /\ SumInv(d)'
      BY <2>0, <3>1, <3>2 DEF PlaceInv, SumInv, Kept, Renaming
    <3> QED BY <1>3, <1>4, <3>1, <3>3 DEF InstallInv, Active, Finished, Kept
  <2>4. CASE Join(d)
    <3>1. /\ at[d] = "join" /\ Kept /\ md5' = md5 /\ md5temp' = md5temp
          /\ \E l \in {"leave", "check"} : at' = [at EXCEPT ![d] = l]
      BY <2>4 DEF Join, Kept
    <3>2. at'[d] \in {"leave", "check"}
      BY <1>2, <3>1
    <3>3. PlaceInv(d)' /\ SumInv(d)'
      BY <2>0, <3>1, <3>2 DEF PlaceInv, SumInv, Kept, Renaming
    <3> QED BY <1>3, <1>4, <3>1, <3>3 DEF InstallInv, Active, Finished, Kept
  <2>5. CASE Check(d)
    <3>1. /\ at[d] = "check" /\ Kept /\ md5' = md5
          /\ \/ /\ at' = [at EXCEPT ![d] = "delete"] /\ Whole(temp, md5[d])
                /\ temp' = temp /\ md5temp' = md5temp
             \/ at' = [at EXCEPT ![d] = "leave"]
      BY <2>5 DEF Check, Kept
    <3>2. PlaceInv(d)' /\ SumInv(d)'
      <4>1. CASE at' = [at EXCEPT ![d] = "leave"]
        BY <1>2, <2>0, <3>1, <4>1, PlaceAside DEF Aside, SumInv, Kept
      <4>2. CASE /\ at' = [at EXCEPT ![d] = "delete"] /\ Whole(temp, md5[d])
                 /\ temp' = temp /\ md5temp' = md5temp
        <5>1. at'[d] = "delete"
          BY <1>2, <4>2
        <5>2. Whole(temp', md5'[d])
          BY <3>1, <4>2
        <5>3. PlaceInv(d)'
          BY <5>1, <5>2 DEF PlaceInv
        <5>4. SumInv(d)'
          BY <2>0, <3>1, <4>2, <5>1 DEF SumInv, Kept, Renaming
        <5> QED BY <5>3, <5>4
      <4> QED BY <3>1, <4>1, <4>2
    <3> QED BY <1>3, <1>4, <3>1, <3>2 DEF InstallInv, Active, Finished, Kept
  <2>6. CASE DeleteOld(d)
    <3>1. /\ at[d] = "delete" /\ at' = [at EXCEPT ![d] = "rename"]
          /\ UNCHANGED <<offered, md5, temp, md5temp, md5final>>
      BY <2>6 DEF DeleteOld
    <3>2. at'[d] = "rename" /\ Whole(temp, md5[d]) /\ md5final < md5[d] /\ md5[d] <= offered
          /\ md5temp \in {0, md5[d]}
      BY <1>2, <2>0, <3>1 DEF PlaceInv, SumInv, Renaming
    <3>3. PlaceInv(d)' /\ SumInv(d)'
      BY <3>1, <3>2 DEF PlaceInv, SumInv, Whole
    <3>4. KeptInv'
      BY <1>1, <1>2, <2>0, <3>1, <3>2 DEF KeptInv, UpToDate
    <3> QED BY <1>4, <3>1, <3>3, <3>4 DEF InstallInv, Active, Finished
  <2>7. CASE Rename(d)
    <3>1. UNCHANGED <<offered, name, md5, md5temp, md5final>>
      BY <2>7 DEF Rename
    <3>2. at[d] \in Renaming
      BY <2>7 DEF Rename, Renaming
    <3>3. md5final < md5[d] /\ md5[d] <= offered /\ md5temp \in {0, md5[d]}
      BY <2>0, <3>2 DEF SumInv
    <3>4. KeptInv'
      BY <1>1, <1>2, <2>0, <3>1, <3>3 DEF KeptInv, UpToDate
    <3>5. CASE at[d] = "rename" /\ Goto(d, "splits") /\ RenameTemp({0}, name[d])
      <4>1. at'[d] = "splits" /\ Whole(temp, md5[d])
        BY <1>2, <2>0, <3>5 DEF PlaceInv
      <4>2. WholeIn(final'[name[d]], {0}, md5[d]) /\ WholeIn(temp', Splits, md5[d])
        BY <2>0, <3>5, <4>1, FirstRenamed
      <4>3. PlaceInv(d)'
        BY <3>1, <4>1, <4>2 DEF PlaceInv
      <4>4. SumInv(d)'
        BY <3>1, <3>3, <4>1 DEF SumInv
      <4> QED BY <1>4, <3>1, <3>4, <3>5, <4>3, <4>4 DEF InstallInv, Active, Finished
    <3>6. CASE at[d] = "splits" /\ Goto(d, "mark") /\ RenameTemp(Splits, name[d])
      <4>1. at'[d] = "mark" /\ WholeIn(final[name[d]], {0}, md5[d]) /\ WholeIn(temp, Splits, md5[d])
        BY <1>2, <2>0, <3>6 DEF PlaceInv
      <4>2. Whole(final'[name[d]], md5[d])
        BY <2>0, <3>6, <4>1, RestRenamed
      <4>3. PlaceInv(d)'
        BY <3>1, <4>1, <4>2 DEF PlaceInv
      <4>4. SumInv(d)'
        BY <3>1, <3>3, <4>1 DEF SumInv
      <4> QED BY <1>4, <3>1, <3>4, <3>6, <4>3, <4>4 DEF InstallInv, Active, Finished
    <3> QED BY <2>7, <3>5, <3>6 DEF Rename, Splits
  <2>8. CASE Mark(d)
    <3>1. /\ at[d] = "mark" /\ at' = [at EXCEPT ![d] = "index"]
          /\ md5final' = md5temp /\ UNCHANGED <<offered, name, md5, final>>
      BY <2>8 DEF Mark
    <3>2. /\ at'[d] = "index" /\ md5temp \in {0, md5[d]} /\ md5[d] <= offered
          /\ Whole(final[name[d]], md5[d])
      BY <1>2, <2>0, <3>1 DEF PlaceInv, SumInv, Renaming
    <3>3. PlaceInv(d)' /\ SumInv(d)'
      BY <3>1, <3>2 DEF PlaceInv, SumInv, Renaming, Whole
    <3>4. KeptInv'
      <4>1. md5final' = offered' => Whole(final'[name[d]], offered')
        BY <1>2, <3>1, <3>2
      <4>2. UpToDate'
        BY <2>0, <4>1 DEF UpToDate
      <4> QED BY <1>2, <3>1, <3>2, <4>2 DEF KeptInv
    <3> QED BY <1>4, <3>1, <3>3, <3>4 DEF InstallInv, Active, Finished
  <2> QED BY <1>13, <2>1, <2>2, <2>3, <2>4, <2>5, <2>6, <2>7, <2>8, <2>9 DEF DownloadStep
<1>14. ASSUME NEW d \in Download, NEW k \in 1 .. MaxThreads, ThreadStep(d, k) PROVE InstallInv'
  <2>1. /\ Runs(d, k) /\ UNCHANGED <<offered, at, name, md5, md5temp, md5final>>
        /\ thread[d][k].to \notin Slot => final' = final
    BY <1>14, ThreadShape DEF ThreadKeeps
  <2>2. final' = final
    BY <1>0, <2>1 DEF ToInv
  <2>3. \A e \in Download : at[e] \notin Renaming
    BY <1>0, <2>1, OnlyOne DEF JoinInv, Renaming, Active, Finished
  <2>4. Kept
    BY <1>14, <2>1, <2>2, ThreadShape DEF Kept, ThreadKeeps
  <2> QED BY <1>2, <1>3, <1>5, <2>1, <2>2, <2>3, <2>4 DEF InstallInv
<1>15. CASE UNCHANGED vars
  <2>1. Kept /\ UNCHANGED <<offered, at, name, md5, md5temp, md5final, final, temp>>
    BY <1>15 DEF vars, Kept
  <2> QED BY <1>2, <1>3, <1>5, <2>1 DEF InstallInv
<1> QED BY <1>6, <1>7, <1>8, <1>9, <1>10, <1>11, <1>12, <1>13, <1>14, <1>15, <1>16, <1>17
     DEF Next, MainStep

-----------------------------------------------------------------------------
(* The theorems. *)

IInv == FlowInv /\ TypeInv /\ JoinInv /\ QuietInv /\ ToInv /\ InstallInv

\* The invariant holds at the start and every step keeps it.
LEMMA MapInvariant == Spec => []IInv
<1>1. Init => IInv
  <2> SUFFICES ASSUME Init PROVE IInv
    OBVIOUS
  <2>1. JoinInv /\ ToInv /\ QuietInv
    BY DEF Init, Idle, NoThread, JoinInv, ToInv, Runs, QuietInv, Quiet
  <2>2. InstallInv
    <3>1. ASSUME NEW d \in Download PROVE PlaceInv(d) /\ SumInv(d)
      BY DEF Init, PlaceInv, SumInv, Renaming
    <3> QED BY <3>1 DEF Init, InstallInv, KeptInv, UpToDate
  <2> QED BY <2>1, <2>2, FlowInit, TypeInit DEF IInv
<1>2. IInv /\ [Next]_vars => IInv'
  BY FlowNext, TypeNext, JoinNext, QuietNext, ToNext, InstallNext DEF IInv
<1> QED BY <1>1, <1>2, PTL DEF Spec

\* The variables keep their types; in particular a thread's range and position
\* stay within the map, also when it goes back.
THEOREM MapTypeOK == Spec => []TypeOK
<1>1. IInv => TypeOK
  BY DEF IInv, TypeInv
<1> QED BY <1>1, MapInvariant, PTL

\* A download that was told to stop before its file was checked never gets to
\* replace the map (stop_thread and the flags of NavitMapDownloader).
THEOREM MapCancelHeeded == Spec => []CancelHeeded
<1>1. IInv => CancelHeeded
  BY DEF IInv, FlowInv
<1> QED BY <1>1, MapInvariant, PTL

\* No temporary file is left when the downloads have ended and none was killed
\* (the clean-up of ProgressThread.run, after all threads have ended).
THEOREM MapTempGone == Spec => []TempGone
<1>1. IInv => TempGone
  <2> SUFFICES ASSUME IInv PROVE TempGone
    OBVIOUS
  <2>1. at \in [Download -> {"idle", "message"} \union Busy \union Finished]
    BY DEF IInv, FlowInv
  <2> QED BY <2>1 DEF IInv, QuietInv, Quiet, TempGone, Active, Finished
<1> QED BY <1>1, MapInvariant, PTL

\* What a download lists is whole and of the version whose MD5 sum was checked
\* (download_osm_map, from the check of the file to the catalogue).
THEOREM MapInstalledIsWhole == Spec => []InstalledIsWhole
<1>1. IInv => InstalledIsWhole
  BY DEF IInv, InstallInv, InstalledIsWhole, PlaceInv, SumInv
<1> QED BY <1>1, MapInvariant, PTL

\* A map whose kept MD5 sum is that of the server is whole and on the disk, unless its
\* deletion has got to the sum or was killed there (the test for "up to date" of
\* download_osm_map, after kills and restarts anywhere else).
THEOREM MapUpToDate == Spec => []UpToDateUndisturbed
<1>1. IInv => UpToDateUndisturbed
  BY DEF IInv, InstallInv, KeptInv, UpToDateUndisturbed
<1> QED BY <1>1, MapInvariant, PTL

-----------------------------------------------------------------------------
(* What a thread of a download brings, for any sizes, buffers and borders of
   files: the bytes of its range up to its position are in the temporary files,
   wherever it closes, opens, goes back or starts again. *)


\* The byte at p was written, and the bytes from a to b - 1.
Has(files, p) == FileOf(p) \in files.there /\ files.data[FileOf(p)][p] # 0
Fetched(files, a, b) == \A p \in a .. b - 1 : Has(files, p)

\* A range has room to go back in it.
Wide(t) == t.at # "none" => t.start + Rewind <= t.last
WideInv == \A d \in Download, k \in 1 .. MaxThreads : Wide(thread[d][k])

\* Between the first opening of the file and the first attempt.
Fresh(t) == t.at \in {"loop", "connect"} /\ ~t.again

\* A thread before its first attempt, or reading, has the right file open, or none if
\* it could not be opened again; what is before its position is there, up to the
\* border when it is between two files.
Brings(t, files) ==
    /\ t.start <= t.pos
    /\ Fresh(t) => t.pos = t.start
    /\ (t.at = "read" /\ t.to # Closed) \/ Fresh(t) =>
          t.to = Temp /\ t.file = FileOf(t.pos) /\ t.file \in files.there
    /\ t.at \in {"read", "split"} => t.again
    /\ t.at \in {"loop", "connect", "read"} => Fetched(files, t.start, t.pos)
    /\ t.at = "split" => Fetched(files, t.start, FileOf(t.pos) * SplitSize)
    /\ t.at = "ended" => Fetched(files, t.start, t.last)

\* The threads of which the code expects that they bring their range.
Sound(t) == ~t.failed /\ ~t.gap
BringInv ==
    ~disturbed => \A d \in Download, k \in 1 .. MaxThreads :
        at[d] = "join" /\ ~stop_me[d] /\ Sound(thread[d][k]) => Brings(thread[d][k], temp)

-----------------------------------------------------------------------------
(* Files and borders *)

\* The file of a position is the one between whose borders it is.
LEMMA InFile ==
    ASSUME NEW p \in Nat, NEW f \in Nat, f * SplitSize <= p, p < f * SplitSize + SplitSize
    PROVE  FileOf(p) = f
<1> DEFINE g == FileOf(p)
           s == SplitSize
<1>1. s \in Nat \ {0} /\ g \in Nat /\ s * g <= p /\ p < s * g + s
  BY SizesAssumption, DivBounds DEF FileOf
<1>2. s * f <= p /\ p < s * f + s
  BY <1>1
<1> HIDE DEF g, s
<1>3. ASSUME g > f PROVE FALSE
  <2>1. s * g >= s * (f + 1)
    BY <1>1, <1>3
  <2> QED BY <1>1, <1>2, <2>1
<1>4. ASSUME g < f PROVE FALSE
  <2>1. s * f >= s * (g + 1)
    BY <1>1, <1>4
  <2> QED BY <1>1, <1>2, <2>1
<1> QED BY <1>1, <1>3, <1>4 DEF g

\* The borders of the file of a position.
LEMMA Borders ==
    ASSUME NEW p \in Nat
    PROVE  /\ FileOf(p) \in Nat /\ SplitSize \in Nat \ {0} /\ FileOf(p) * SplitSize \in Nat
           /\ FileOf(p) * SplitSize <= p /\ p < FileOf(p) * SplitSize + SplitSize
<1>1. SplitSize \in Nat \ {0}
  BY SizesAssumption
<1>2. FileOf(p) \in Nat /\ SplitSize * FileOf(p) <= p /\ p < SplitSize * FileOf(p) + SplitSize
  BY <1>1, DivBounds DEF FileOf
<1> QED BY <1>1, <1>2

\* A buffer crosses one border at most (the test of the border in run).
LEMMA BufferBorder ==
    ASSUME NEW a \in Nat, NEW n \in 1 .. Buffer
    PROVE  LET border == IF a + n > SplitSize - 1 THEN FileOf(a + n) * SplitSize ELSE 0
           IN  /\ border = FileOf(a + n) * SplitSize /\ border \in Nat
               /\ FileOf(border) = FileOf(a + n)
               /\ FileOf(a) = FileOf(border) => \A p \in a .. a + n - 1 : FileOf(p) = FileOf(a)
               /\ FileOf(a) # FileOf(border) => /\ \A p \in a .. border - 1 : FileOf(p) = FileOf(a)
                                                /\ a <= border
<1> DEFINE b == a + n
           f == FileOf(a)
           g == FileOf(b)
           border == IF b > SplitSize - 1 THEN g * SplitSize ELSE 0
<1>1. n \in Nat /\ b \in Nat /\ n <= SplitSize /\ n >= 1 /\ SplitSize \in Nat \ {0}
  BY SizesAssumption
<1>2. f \in Nat /\ f * SplitSize <= a /\ a < f * SplitSize + SplitSize /\ f * SplitSize \in Nat
  BY Borders
<1>3. g \in Nat /\ g * SplitSize <= b /\ b < g * SplitSize + SplitSize /\ g * SplitSize \in Nat
  BY <1>1, Borders
<1>4. border = g * SplitSize
  <2>1. CASE b > SplitSize - 1
    BY <2>1
  <2>2. CASE ~(b > SplitSize - 1)
    <3>1. g = 0
      BY <1>1, <2>2, InFile
    <3> QED BY <1>1, <2>2, <3>1
  <2> QED BY <2>1, <2>2
<1>5. FileOf(g * SplitSize) = g
  BY <1>1, <1>3, InFile
<1>6. ASSUME f = g, NEW p \in a .. b - 1 PROVE FileOf(p) = f
  <2>1. p \in Nat /\ f * SplitSize <= p /\ p < f * SplitSize + SplitSize
    BY <1>1, <1>2, <1>3, <1>6
  <2> QED BY <1>2, <2>1, InFile
<1>7. ASSUME f # g PROVE g * SplitSize = f * SplitSize + SplitSize
  <2>1. f <= g
    BY <1>1, DivMonotone DEF FileOf
  <2> HIDE DEF f, g
  <2>2. g >= f + 1
    BY <1>2, <1>3, <1>7, <2>1
  <2>3. ASSUME g >= f + 2 PROVE FALSE
    <3>1. g * SplitSize >= (f + 2) * SplitSize
      BY <1>1, <1>2, <1>3, <2>3
    <3>2. (f + 2) * SplitSize = f * SplitSize + SplitSize + SplitSize
      BY <1>1, <1>2
    <3> QED BY <1>1, <1>2, <1>3, <3>1, <3>2
  <2>4. g = f + 1
    BY <1>2, <1>3, <2>2, <2>3
  <2> QED BY <1>1, <1>2, <2>4
<1>8. ASSUME f # g
      PROVE  a <= g * SplitSize /\ \A p \in a .. g * SplitSize - 1 : FileOf(p) = f
  <2>1. a <= g * SplitSize
    BY <1>1, <1>2, <1>7, <1>8
  <2>2. ASSUME NEW p \in a .. g * SplitSize - 1 PROVE FileOf(p) = f
    <3>1. p \in Nat /\ f * SplitSize <= p /\ p < f * SplitSize + SplitSize
      BY <1>1, <1>2, <1>3, <1>7, <1>8
    <3> QED BY <1>2, <3>1, InFile
  <2> QED BY <2>1, <2>2
<1> HIDE DEF border
<1>9. border \in Nat /\ FileOf(border) = g
  BY <1>3, <1>4, <1>5
<1>10. b = a + n /\ border = IF a + n > SplitSize - 1 THEN FileOf(a + n) * SplitSize ELSE 0
  BY DEF border
<1> QED BY <1>4, <1>6, <1>8, <1>9, <1>10

\* What was written stays written.
More(new, old) == \A p \in Pos : Has(old, p) => Has(new, p)

\* Written bytes are there, if their file is, and no other byte is lost.
LEMMA WrittenHas ==
    ASSUME NEW files \in Files, NEW f \in File, NEW a, NEW b, offered \in Version
    PROVE  /\ More(Written(files, f, a, b), files)
           /\ Written(files, f, a, b).there = files.there
           /\ f \in files.there =>
                 \A p \in Pos : p \in a .. b - 1 /\ FileOf(p) = f => Has(Written(files, f, a, b), p)
<1> DEFINE new == Written(files, f, a, b)
<1>1. offered # 0
  BY SizesAssumption DEF Version
<1>2. /\ new.there = files.there
      /\ \A g \in File : new.data[g] = IF g = f
            THEN [p \in Pos |-> IF p \in a .. b - 1 THEN offered ELSE files.data[f][p]]
            ELSE files.data[g]
  BY DEF Written, Files
<1>3. \A p \in Pos : FileOf(p) \in File
  BY SizesAssumption, FileType DEF Pos
<1>4. \A p \in Pos : new.data[FileOf(p)][p] =
          IF FileOf(p) = f /\ p \in a .. b - 1 THEN offered ELSE files.data[FileOf(p)][p]
  <2> HIDE DEF new
  <2>1. \A g \in File, p \in Pos :
           new.data[g][p] = IF g = f /\ p \in a .. b - 1 THEN offered ELSE files.data[g][p]
    <3> SUFFICES ASSUME NEW g \in File, NEW p \in Pos
                 PROVE  new.data[g][p] = IF g = f /\ p \in a .. b - 1 THEN offered ELSE files.data[g][p]
      OBVIOUS
    <3>1. CASE g = f
      <4>1. new.data[g] = [q \in Pos |-> IF q \in a .. b - 1 THEN offered ELSE files.data[f][q]]
        BY <1>2, <3>1
      <4> QED BY <3>1, <4>1
    <3>2. CASE g # f
      BY <1>2, <3>2
    <3> QED BY <3>1, <3>2
  <2> QED BY <1>3, <2>1
<1> HIDE DEF new
<1>5. More(new, files)
  BY <1>1, <1>2, <1>4 DEF More, Has
<1>6. f \in files.there => \A p \in Pos : p \in a .. b - 1 /\ FileOf(p) = f => Has(new, p)
  BY <1>1, <1>2, <1>4 DEF Has
<1> QED BY <1>2, <1>5, <1>6 DEF new

\* An opened file is there, and no byte is lost.
LEMMA OpenedHas ==
    ASSUME NEW p
    PROVE  More(Opened(p), temp) /\ FileOf(p) \in Opened(p).there
  BY DEF Opened, More, Has

\* More bytes serve as well.
LEMMA MoreFetched ==
    ASSUME NEW new, NEW old, More(new, old), NEW a \in Nat, NEW b \in 0 .. Size, Fetched(old, a, b)
    PROVE  Fetched(new, a, b)
<1>1. Size \in Nat
  BY SizesAssumption
<1>2. \A p \in a .. b - 1 : p \in Pos
  BY <1>1 DEF Pos
<1> QED BY <1>2 DEF More, Fetched

\* More bytes, in more files, serve any thread as well.
LEMMA MoreBrings ==
    ASSUME NEW new, NEW old, More(new, old), old.there \subseteq new.there,
           NEW t \in Thread, Brings(t, old)
    PROVE  Brings(t, new)
<1>1. t.start \in Nat /\ t.pos \in 0 .. Size /\ t.last \in 0 .. Size /\ Size \in Nat
  BY SizesAssumption DEF Thread, Pos
<1>2. FileOf(t.pos) * SplitSize \in 0 .. Size
  <2>1. t.pos \in Nat /\ t.pos <= Size
    BY <1>1
  <2>2. FileOf(t.pos) * SplitSize \in Nat /\ FileOf(t.pos) * SplitSize <= t.pos
    BY <2>1, Borders
  <2> QED BY <1>1, <2>1, <2>2
<1>3. \A b \in 0 .. Size : Fetched(old, t.start, b) => Fetched(new, t.start, b)
  BY <1>1, MoreFetched
<1>4. \A f : f \in old.there => f \in new.there
  OBVIOUS
<1> QED BY <1>1, <1>2, <1>3, <1>4 DEF Brings, Fresh

-----------------------------------------------------------------------------
(* A step of a thread *)

\* The thread k of the download d becomes u, with the files at hand.
LEMMA Became ==
    ASSUME TypeInv, NEW d \in Download, NEW k \in 1 .. MaxThreads, NEW u, Becomes(d, k, u)
    PROVE  /\ thread'[d][k] = u
           /\ \A e \in Download, l \in 1 .. MaxThreads :
                 ~(e = d /\ l = k) => thread'[e][l] = thread[e][l]
<1>1. ThreadsType
  BY TypeParts DEF TypeInv
<1>2. thread' = [thread EXCEPT ![d] = [thread[d] EXCEPT ![k] = u]]
  BY DEF Becomes
<1> QED BY <1>1, <1>2 DEF ThreadsType

\* What a step of a thread that goes well brings: its range, from one border, break of the
\* connection or attempt to the next (MultiStreamDownloaderThread.run).
StepBrings(d, k) ==
    LET t == thread[d][k]
        u == thread'[d][k]
    IN  /\ Wide(u) /\ (Sound(u) => Sound(t))
        /\ More(temp', temp) /\ temp.there \subseteq temp'.there
        /\ Sound(u) /\ ~stop_me[d] /\ Brings(t, temp) => Brings(u, temp')

\* The facts about a thread that its steps rest on.
LEMMA ThreadFacts ==
    ASSUME TypeInv, WideInv, NEW d \in Download, NEW k \in 1 .. MaxThreads
    PROVE  LET t == thread[d][k] IN
           /\ t \in Thread /\ temp \in Files /\ offered \in Version /\ Wide(t)
           /\ t.start \in Pos /\ t.start \in Nat /\ t.last \in Pos /\ t.last \in Nat
           /\ t.pos \in 0 .. Size /\ t.pos \in Nat /\ Size \in Nat
           /\ Rewind \in Nat \ {0} /\ More(temp, temp)
<1>1. thread[d][k] \in Thread /\ temp \in Files /\ offered \in Version
  BY TypeParts DEF TypeInv, ThreadsType, RestType, FilesType
<1> QED BY <1>1, SizesAssumption DEF WideInv, Thread, Pos, More

\* A thread that fails brings nothing.
LEMMA FailsBrings ==
    ASSUME TypeInv, WideInv, NEW d \in Download, NEW k \in 1 .. MaxThreads,
           thread[d][k].at # "none", Fails(d, k)
    PROVE  StepBrings(d, k)
<1> DEFINE t == thread[d][k]
<1>1. t \in Thread /\ Wide(t) /\ More(temp, temp)
  BY ThreadFacts
<1>2. thread'[d][k] = Failed(t) /\ temp' = temp
  BY Became DEF Fails
<1>3. Failed(t).failed /\ Failed(t).start = t.start /\ Failed(t).last = t.last
  BY <1>1 DEF Failed, Thread
<1> HIDE DEF t
<1> QED BY <1>1, <1>2, <1>3 DEF StepBrings, Sound, Wide, t

\* A start, or start again: the file is opened at the start of the range.
LEMMA OpenBrings ==
    ASSUME TypeInv, WideInv, NEW d \in Download, NEW k \in 1 .. MaxThreads, Open(d, k)
    PROVE  StepBrings(d, k)
<1> DEFINE t == thread[d][k]
           u == [t EXCEPT !.at = "loop", !.pos = t.start, !.again = FALSE,
                          !.file = FileOf(t.start), !.to = Temp]
<1>1. t \in Thread /\ Wide(t) /\ t.start \in Nat
  BY ThreadFacts
<1>2. CASE Fails(d, k)
  BY <1>2, FailsBrings DEF Open
<1>3. CASE ~Fails(d, k)
  <2>1. Becomes(d, k, u) /\ temp' = Opened(t.start) /\ t.at = "open"
    BY <1>3 DEF Open
  <2>2. thread'[d][k] = u
    BY <2>1, Became
  <2>3. /\ u.at = "loop" /\ u.pos = t.start /\ u.start = t.start /\ u.last = t.last
        /\ u.file = FileOf(t.start) /\ u.to = Temp
        /\ u.failed = t.failed /\ u.gap = t.gap
    BY <1>1 DEF Thread
  <2>4. More(temp', temp) /\ temp.there \subseteq temp'.there /\ FileOf(t.start) \in temp'.there
    BY <2>1, OpenedHas DEF Opened
  <2>5. Fetched(temp', t.start, t.start)
    BY <1>1 DEF Fetched
  <2> HIDE DEF t, u
  <2>6. Brings(u, temp')
    BY <1>1, <2>3, <2>4, <2>5 DEF Brings, Fresh
  <2> QED BY <1>1, <2>1, <2>2, <2>3, <2>4, <2>6 DEF StepBrings, Sound, Wide, t
<1> QED BY <1>2, <1>3

\* The flags are asked for: a thread goes on, starts again, or fails.
LEMMA AttemptBrings ==
    ASSUME TypeInv, WideInv, NEW d \in Download, NEW k \in 1 .. MaxThreads,
           Enter(d, k) \/ Attempt(d, k)
    PROVE  StepBrings(d, k)
<1> DEFINE t == thread[d][k]
<1>1. t \in Thread /\ Wide(t) /\ More(temp, temp)
  BY ThreadFacts
<1>2. t.at \in {"outer", "loop"}
  BY DEF Enter, Attempt
<1>3. CASE Fails(d, k)
  BY <1>2, <1>3, FailsBrings
<1>4. CASE ~Fails(d, k)
  <2>1. PICK l \in {"open", "outer", "connect"} :
           /\ Becomes(d, k, [t EXCEPT !.at = l]) /\ temp' = temp
           /\ l = "connect" => t.at = "loop"
    BY <1>4 DEF Enter, Attempt
  <2>2. thread'[d][k] = [t EXCEPT !.at = l]
    BY <2>1, Became
  <2> DEFINE u == thread'[d][k]
  <2>3. /\ u.at = l /\ u.pos = t.pos /\ u.start = t.start /\ u.last = t.last
        /\ u.again = t.again /\ u.file = t.file /\ u.to = t.to
        /\ u.failed = t.failed /\ u.gap = t.gap
    BY <1>1, <2>2 DEF Thread
  <2> HIDE DEF t, u
  <2>4. ASSUME Brings(t, temp) PROVE Brings(u, temp)
    BY <2>1, <2>3, <2>4 DEF Brings, Fresh
  <2>5. Wide(u) /\ (Sound(u) => Sound(t))
    BY <1>1, <1>2, <2>3 DEF Wide, Sound
  <2> QED BY <1>1, <2>1, <2>4, <2>5 DEF StepBrings, t, u
<1> QED BY <1>3, <1>4

\* An attempt: it goes on at the position, or goes back within the range.
LEMMA ConnectBrings ==
    ASSUME TypeInv, WideInv, NEW d \in Download, NEW k \in 1 .. MaxThreads, Connect(d, k)
    PROVE  StepBrings(d, k)
<1> DEFINE t == thread[d][k]
           p == Resume(t)
           u == [t EXCEPT !.pos = p, !.again = TRUE]
           v == [u EXCEPT !.file = FileOf(p), !.to = Temp]
           c == [u EXCEPT !.to = Closed]
<1>1. /\ t \in Thread /\ Wide(t) /\ t.start \in Nat /\ t.last \in Nat /\ t.pos \in Nat
      /\ Rewind \in Nat \ {0} /\ t.pos \in 0 .. Size /\ Size \in Nat /\ More(temp, temp)
  BY ThreadFacts
<1>2. t.at = "connect"
  BY DEF Connect
<1>3. PICK w \in {u, v, c} :
         /\ thread'[d][k] \in {Failed(w), Again(w), [w EXCEPT !.at = "read"]}
         /\ \/ w = u /\ ~t.again /\ temp' = temp
            \/ w = v /\ temp' = Opened(p)
            \/ w = c /\ temp' = temp
  <2>1. PICK w \in {u, v, c} :
           /\ \E x \in {Failed(w), Again(w), [w EXCEPT !.at = "read"]} : Becomes(d, k, x)
           /\ \/ w = u /\ ~t.again /\ temp' = temp
              \/ w = v /\ temp' = Opened(p)
              \/ w = c /\ temp' = temp
    BY DEF Connect
  <2> HIDE DEF t, u, v, c, p
  <2> QED BY <2>1, Became
<1>4. t.start + Rewind <= t.last
  BY <1>1, <1>2 DEF Wide
<1>5. p \in Nat /\ p <= t.pos /\ (t.start <= t.pos => t.start <= p)
      /\ (t.pos = t.start => p = t.pos)
  BY <1>1, <1>4 DEF Resume
<1> HIDE DEF p
<1>6. /\ w.start = t.start /\ w.last = t.last /\ w.pos = p /\ w.again
      /\ w.failed = t.failed /\ w.gap = t.gap
      /\ w = u => w.file = t.file /\ w.to = t.to
      /\ w = v => w.file = FileOf(p) /\ w.to = Temp
      /\ w = c => w.to = Closed
  <2>1. DOMAIN t = DOMAIN w /\ t = [at |-> t.at, start |-> t.start, last |-> t.last, pos |-> t.pos,
            file |-> t.file, to |-> t.to, again |-> t.again, failed |-> t.failed, gap |-> t.gap]
    BY <1>1 DEF Thread
  <2> QED BY <2>1
<1>7. w = [at |-> w.at, start |-> w.start, last |-> w.last, pos |-> w.pos, file |-> w.file,
           to |-> w.to, again |-> w.again, failed |-> w.failed, gap |-> w.gap]
  BY <1>1 DEF Thread
<1> DEFINE x == thread'[d][k]
<1> HIDE DEF u, v, c
<1>8. /\ x.at \in {"ended", "loop", "read"} /\ x.start = t.start /\ x.last = t.last
      /\ x.gap = t.gap /\ x.pos = p /\ x.again
      /\ x.failed \/ (x.failed = t.failed /\ x.at # "ended")
      /\ x.at = "read" => x.file = w.file /\ x.to = w.to
  <2>1. CASE x = Failed(w)
    BY <1>6, <1>7, <2>1 DEF Failed
  <2>2. CASE x = Again(w)
    BY <1>6, <1>7, <2>2 DEF Again
  <2>3. CASE x = [w EXCEPT !.at = "read"]
    BY <1>6, <1>7, <2>3
  <2> QED BY <1>3, <2>1, <2>2, <2>3
<1> HIDE DEF t, x
<1>9. More(temp', temp) /\ temp.there \subseteq temp'.there
      /\ (w = v => temp' = temp \/ FileOf(p) \in temp'.there)
  BY <1>1, <1>3, OpenedHas DEF Opened
<1>10. ASSUME Brings(t, temp), ~x.failed PROVE Brings(x, temp')
  <2>1. t.start <= p /\ Fetched(temp, t.start, p) /\ p \in 0 .. Size
    BY <1>1, <1>2, <1>5, <1>10 DEF Brings, Fetched
  <2>2. Fetched(temp', t.start, p)
    BY <1>1, <1>9, <2>1, MoreFetched
  <2>3. x.at = "read" /\ x.to # Closed => x.to = Temp /\ x.file = FileOf(p) /\ x.file \in temp'.there
    <3>1. CASE w = u /\ ~t.again /\ temp' = temp
      BY <1>2, <1>5, <1>6, <1>8, <1>10, <3>1 DEF Brings, Fresh
    <3>2. CASE w = v /\ temp' = Opened(p)
      BY <1>6, <1>8, <3>2, OpenedHas
    <3>3. CASE w = c /\ temp' = temp
      BY <1>6, <1>8, <3>3
    <3> QED BY <1>3, <3>1, <3>2, <3>3
  <2> QED BY <1>8, <1>10, <2>1, <2>2, <2>3 DEF Brings, Fresh
<1>11. Wide(x) /\ (Sound(x) => Sound(t))
  BY <1>1, <1>2, <1>8 DEF Wide, Sound
<1>12. Sound(x) => ~x.failed
  BY DEF Sound
<1> QED BY <1>9, <1>10, <1>11, <1>12 DEF StepBrings, t, x

\* What the server sends: the end, a break, or a buffer that is written up to a border.
LEMMA ReadBrings ==
    ASSUME TypeInv, WideInv, NEW d \in Download, NEW k \in 1 .. MaxThreads, Read(d, k)
    PROVE  StepBrings(d, k)
<1> DEFINE t == thread[d][k]
           v == [AtEnd(t) EXCEPT !.failed = TRUE]
<1>1. /\ t \in Thread /\ Wide(t) /\ t.start \in Nat /\ t.last \in Nat /\ t.pos \in Nat
      /\ t.pos \in 0 .. Size /\ Size \in Nat /\ t.last \in Pos /\ More(temp, temp)
      /\ t.again \in BOOLEAN /\ temp \in Files /\ offered \in Version /\ t.file \in File
  BY ThreadFacts DEF Thread
<1>2. t.at = "read"
  BY DEF Read
<1>3. \/ thread'[d][k] = v /\ temp' = temp
      \/ \E n \in 1 .. Least(Buffer, t.last + 1 - t.pos) : Buffered(d, k, n)
      \/ thread'[d][k] \in {AtEnd(t), Again(t)} /\ temp' = temp
  BY Became DEF Read
<1>4. /\ Again(t).at = "loop" /\ Again(t).start = t.start /\ Again(t).last = t.last
      /\ Again(t).pos = t.pos /\ Again(t).again = t.again
      /\ Again(t).failed = t.failed /\ Again(t).gap = t.gap /\ Again(t) \in Thread
  BY <1>1, EndTypes DEF Again, Thread
<1>5. /\ AtEnd(t).start = t.start /\ AtEnd(t).last = t.last /\ AtEnd(t).pos = t.pos
      /\ AtEnd(t).again = t.again /\ AtEnd(t).failed = t.failed /\ AtEnd(t).gap = t.gap
      /\ AtEnd(t).at = IF t.pos < t.last THEN "loop" ELSE "ended"
      /\ AtEnd(t) \in Thread
  BY <1>1, <1>4, EndTypes DEF AtEnd, Thread
<1>6. CASE thread'[d][k] = v /\ temp' = temp
  <2>1. v.failed /\ v.start = t.start /\ v.last = t.last
    BY <1>5 DEF Thread
  <2> HIDE DEF t, v
  <2> QED BY <1>1, <1>2, <1>6, <2>1 DEF StepBrings, Sound, Wide, t
<1>7. CASE thread'[d][k] \in {AtEnd(t), Again(t)} /\ temp' = temp
  <2> HIDE DEF t
  <2>1. ASSUME NEW u \in {AtEnd(t), Again(t)}, thread'[d][k] = u PROVE StepBrings(d, k)
    <3>1. /\ u.at \in {"loop", "ended"} /\ (u.at = "ended" => t.pos >= t.last)
          /\ u.start = t.start /\ u.last = t.last /\ u.pos = t.pos
          /\ u.again = t.again /\ u.failed = t.failed /\ u.gap = t.gap
      BY <1>1, <1>4, <1>5
    <3>2. ASSUME Brings(t, temp) PROVE Brings(u, temp)
      <4>1. Fetched(temp, t.start, t.pos) /\ t.again /\ t.start <= t.pos
        BY <1>2, <3>2 DEF Brings, Fresh
      <4>2. t.pos >= t.last => Fetched(temp, t.start, t.last)
        BY <1>1, <4>1 DEF Fetched
      <4> QED BY <3>1, <4>1, <4>2 DEF Brings, Fresh
    <3>3. Wide(u) /\ (Sound(u) => Sound(t))
      BY <1>1, <1>2, <3>1 DEF Wide, Sound
    <3> QED BY <1>1, <1>7, <2>1, <3>2, <3>3 DEF StepBrings, t
  <2> QED BY <1>7, <2>1
<1>8. ASSUME NEW n \in 1 .. Least(Buffer, t.last + 1 - t.pos), Buffered(d, k, n)
      PROVE  StepBrings(d, k)
  <2> DEFINE p == t.pos + n
             border == IF p > SplitSize - 1 THEN FileOf(p) * SplitSize ELSE 0
             x == [t EXCEPT !.pos = p]
             y == [t EXCEPT !.at = "split", !.pos = p, !.to = Closed]
             z == [Again(t) EXCEPT !.pos = p, !.gap = TRUE]
  <2>1. n \in 1 .. Buffer /\ n \in Nat /\ p \in Nat /\ p <= t.last + 1 /\ p \in 0 .. Size /\ t.pos <= p
    BY <1>1, SizesAssumption DEF Least, Pos
  <2>2. /\ border = FileOf(p) * SplitSize /\ border \in Nat
        /\ FileOf(t.pos) = FileOf(border) => FileOf(p) = FileOf(t.pos)
                                             /\ \A q \in t.pos .. p - 1 : FileOf(q) = FileOf(t.pos)
        /\ FileOf(t.pos) # FileOf(border) => /\ \A q \in t.pos .. border - 1 : FileOf(q) = FileOf(t.pos)
                                             /\ t.pos <= border
    <3>1. t.pos \in Nat
      BY <1>1
    <3> HIDE DEF t
    <3> QED BY <2>1, <3>1, BufferBorder
  <2>3. border <= p
    BY <2>1, <2>2, Borders
  <2>4. \/ /\ t.to # Closed /\ FileOf(t.pos) = FileOf(border)
           /\ thread'[d][k] = x /\ Put(t, t.pos, p)
        \/ /\ t.to # Closed /\ FileOf(t.pos) # FileOf(border)
           /\ thread'[d][k] = y /\ Put(t, t.pos, border)
        \/ thread'[d][k] = z /\ temp' = temp
    BY <1>8, Became DEF Buffered
  <2> HIDE DEF p, border
  <2>5. /\ x.at = "read" /\ x.start = t.start /\ x.last = t.last /\ x.pos = p /\ x.again = t.again
        /\ x.failed = t.failed /\ x.gap = t.gap /\ x.to = t.to /\ x.file = t.file
    BY <1>1, <1>2 DEF Thread
  <2>6. /\ y.at = "split" /\ y.start = t.start /\ y.last = t.last /\ y.pos = p /\ y.again = t.again
        /\ y.failed = t.failed /\ y.gap = t.gap
    BY <1>1 DEF Thread
  <2>7. z.gap /\ z.start = t.start /\ z.last = t.last
    BY <1>4 DEF Thread
  <2> HIDE DEF t, x, y, z
  <2>8. ASSUME NEW b \in Nat, b <= p, t.pos <= b, t.to # Closed, Put(t, t.pos, b),
               \A q \in t.pos .. b - 1 : FileOf(q) = FileOf(t.pos)
        PROVE  /\ More(temp', temp) /\ temp'.there = temp.there
               /\ Brings(t, temp) => Fetched(temp', t.start, b)
    <3>1. temp' = IF t.to = Temp THEN Written(temp, t.file, t.pos, b) ELSE temp
      BY <2>8 DEF Put
    <3>2. More(temp', temp) /\ temp'.there = temp.there
      BY <1>1, <3>1, WrittenHas
    <3>3. ASSUME Brings(t, temp), NEW q \in t.start .. b - 1 PROVE Has(temp', q)
      <4>1. /\ t.to = Temp /\ t.file = FileOf(t.pos) /\ t.file \in temp.there
            /\ t.start <= t.pos /\ Fetched(temp, t.start, t.pos)
        BY <1>2, <2>8, <3>3 DEF Brings
      <4>2. q \in Pos /\ q \in Nat
        BY <1>1, <2>1, <2>8, <3>3 DEF Pos
      <4>3. CASE q < t.pos
        BY <1>1, <3>2, <3>3, <4>1, <4>2, <4>3 DEF Fetched, More
      <4>4. CASE q >= t.pos
        <5>1. q \in t.pos .. b - 1
          BY <1>1, <3>3, <4>2, <4>4
        <5>2. FileOf(q) = t.file
          BY <2>8, <4>1, <5>1
        <5>3. temp' = Written(temp, t.file, t.pos, b)
          BY <3>1, <4>1
        <5> QED BY <1>1, <4>1, <4>2, <5>1, <5>2, <5>3, WrittenHas
      <4> QED BY <1>1, <4>2, <4>3, <4>4
    <3> QED BY <3>2, <3>3 DEF Fetched
  <2>9. CASE t.to # Closed /\ FileOf(t.pos) = FileOf(border) /\ thread'[d][k] = x /\ Put(t, t.pos, p)
    <3>1. /\ More(temp', temp) /\ temp'.there = temp.there
          /\ Brings(t, temp) => Fetched(temp', t.start, p)
      BY <2>1, <2>2, <2>8, <2>9
    <3>2. ASSUME Brings(t, temp) PROVE Brings(x, temp')
      <4>1. t.again /\ t.to = Temp /\ t.file = FileOf(p) /\ t.file \in temp'.there /\ t.start <= t.pos
        BY <1>2, <2>2, <2>9, <3>1, <3>2 DEF Brings, Fresh
      <4> QED BY <1>1, <2>1, <2>5, <3>1, <3>2, <4>1 DEF Brings, Fresh
    <3>3. Wide(x) /\ (Sound(x) => Sound(t))
      BY <1>1, <1>2, <2>5 DEF Wide, Sound
    <3> QED BY <2>9, <3>1, <3>2, <3>3 DEF StepBrings, t
  <2>10. CASE t.to # Closed /\ FileOf(t.pos) # FileOf(border) /\ thread'[d][k] = y /\ Put(t, t.pos, border)
    <3>1. /\ More(temp', temp) /\ temp'.there = temp.there
          /\ Brings(t, temp) => Fetched(temp', t.start, border)
      BY <2>2, <2>3, <2>8, <2>10
    <3>2. ASSUME Brings(t, temp) PROVE Brings(y, temp')
      <4>1. t.again /\ t.start <= t.pos
        BY <1>2, <3>2 DEF Brings, Fresh
      <4> QED BY <1>1, <2>1, <2>2, <2>6, <3>1, <3>2, <4>1 DEF Brings, Fresh
    <3>3. Wide(y) /\ (Sound(y) => Sound(t))
      BY <1>1, <1>2, <2>6 DEF Wide, Sound
    <3> QED BY <2>10, <3>1, <3>2, <3>3 DEF StepBrings, t
  <2>11. CASE thread'[d][k] = z /\ temp' = temp
    BY <1>1, <1>2, <2>7, <2>11 DEF StepBrings, Sound, Wide, t
  <2> QED BY <2>4, <2>9, <2>10, <2>11
<1> QED BY <1>3, <1>6, <1>7, <1>8

\* The rest of a buffer goes to the next file.
LEMMA SplitBrings ==
    ASSUME TypeInv, WideInv, NEW d \in Download, NEW k \in 1 .. MaxThreads, Split(d, k)
    PROVE  StepBrings(d, k)
<1> DEFINE t == thread[d][k]
           next == FileOf(t.pos)
           border == next * SplitSize
           u == [t EXCEPT !.at = "read", !.file = next, !.to = Temp]
           v == [Again(t) EXCEPT !.gap = TRUE]
<1>1. /\ t \in Thread /\ Wide(t) /\ t.start \in Nat /\ t.pos \in Nat /\ t.pos \in 0 .. Size
      /\ Size \in Nat /\ More(temp, temp) /\ temp \in Files /\ offered \in Version
  BY ThreadFacts
<1>2. t.at = "split"
  BY DEF Split
<1>3. \/ thread'[d][k] = u /\ temp' = Written(Opened(t.pos), next, border, t.pos)
      \/ thread'[d][k] = v /\ temp' = temp
  BY Became DEF Split
<1>4. next \in File /\ border \in Nat /\ border <= t.pos
      /\ \A q \in border .. t.pos - 1 : FileOf(q) = next
  <2>1. /\ next \in Nat /\ border \in Nat /\ border <= t.pos
        /\ t.pos < border + SplitSize /\ SplitSize \in Nat
    BY <1>1, Borders
  <2>2. ASSUME NEW q \in border .. t.pos - 1 PROVE FileOf(q) = next
    <3>1. q \in Nat /\ border <= q /\ q < border + SplitSize
      BY <1>1, <2>1
    <3> HIDE DEF next
    <3> QED BY <2>1, <3>1, InFile
  <2> QED BY <1>1, <2>1, <2>2, FileType
<1>5. /\ u.at = "read" /\ u.start = t.start /\ u.last = t.last /\ u.pos = t.pos /\ u.again = t.again
      /\ u.failed = t.failed /\ u.gap = t.gap /\ u.to = Temp /\ u.file = next
  BY <1>1 DEF Thread
<1>6. v.gap /\ v.start = t.start /\ v.last = t.last
  BY <1>1 DEF Thread, Again
<1>7. CASE thread'[d][k] = v /\ temp' = temp
  <2> HIDE DEF t, v
  <2> QED BY <1>1, <1>2, <1>6, <1>7 DEF StepBrings, Sound, Wide, t
<1>8. CASE thread'[d][k] = u /\ temp' = Written(Opened(t.pos), next, border, t.pos)
  <2>1. Opened(t.pos) \in Files /\ More(Opened(t.pos), temp) /\ next \in Opened(t.pos).there
        /\ temp.there \subseteq Opened(t.pos).there
    BY <1>1, OpenedType, OpenedHas DEF Opened
  <2>2. border = FileOf(t.pos) * SplitSize /\ next = FileOf(t.pos)
    OBVIOUS
  <2> HIDE DEF t, next, border, u
  <2>3. /\ More(temp', Opened(t.pos)) /\ temp'.there = Opened(t.pos).there
        /\ \A p \in Pos : p \in border .. t.pos - 1 /\ FileOf(p) = next => Has(temp', p)
    BY <1>1, <1>4, <1>8, <2>1, WrittenHas
  <2>4. More(temp', temp) /\ temp.there \subseteq temp'.there
    BY <2>1, <2>3 DEF More
  <2>5. ASSUME Brings(t, temp) PROVE Brings(u, temp')
    <3>1. t.start <= t.pos /\ t.again /\ Fetched(temp, t.start, border)
      BY <1>2, <2>2, <2>5 DEF Brings, Fresh
    <3>2. ASSUME NEW q \in t.start .. t.pos - 1 PROVE Has(temp', q)
      <4>1. q \in Pos /\ q \in Nat
        BY <1>1, <3>2 DEF Pos
      <4>2. CASE q < border
        BY <1>1, <1>4, <2>4, <3>1, <3>2, <4>1, <4>2 DEF Fetched, More
      <4>3. CASE q >= border
        BY <1>1, <1>4, <2>3, <3>2, <4>1, <4>3
      <4> QED BY <1>4, <4>1, <4>2, <4>3
    <3>3. Fetched(temp', t.start, t.pos)
      BY <3>2 DEF Fetched
    <3> QED BY <1>5, <2>1, <2>2, <2>3, <3>1, <3>3 DEF Brings, Fresh
  <2>6. Wide(u) /\ (Sound(u) => Sound(t))
    BY <1>1, <1>2, <1>5 DEF Wide, Sound
  <2> QED BY <1>8, <2>4, <2>5, <2>6 DEF StepBrings, t
<1> QED BY <1>3, <1>7, <1>8

\* Every step of a thread.
LEMMA ThreadBrings ==
    ASSUME TypeInv, WideInv, NEW d \in Download, NEW k \in 1 .. MaxThreads, ThreadStep(d, k)
    PROVE  StepBrings(d, k)
  BY OpenBrings, AttemptBrings, ConnectBrings, ReadBrings, SplitBrings DEF ThreadStep

-----------------------------------------------------------------------------
(* Every step *)

\* The ranges that download_osm_map computes are wide, and nothing is brought yet.
LEMMA StartedBrings ==
    ASSUME NEW n \in 1 .. MaxThreads, NEW k \in 1 .. n, NEW files
    PROVE  Wide(Started(k, n)) /\ Brings(Started(k, n), files)
<1> DEFINE diff == Size \div n
           least == Size \div MaxThreads
           u == Started(k, n)
<1>1. n \in Nat \ {0} /\ k \in Nat \ {0} /\ k <= n /\ Size \in Nat \ {0} /\ MaxThreads \in Nat \ {0}
      /\ Rewind \in Nat /\ n <= MaxThreads
  BY SizesAssumption
<1>2. diff \in Nat /\ n * diff <= Size /\ Rewind < diff
  <2>1. least \in Nat /\ Rewind < least /\ least <= diff
    BY <1>1, SizesAssumption, DivBounds, DivSmaller
  <2> HIDE DEF least
  <2> QED BY <1>1, <2>1, DivBounds
<1>3. /\ u.at = "outer" /\ u.start = diff * (k - 1) /\ u.pos = diff * (k - 1)
      /\ u.last = IF k = n THEN Size - 1 ELSE diff * k - 1
  BY DEF Started, NoThread
<1> HIDE DEF diff, u
<1>4. diff * (k - 1) \in Nat /\ diff * k = diff * (k - 1) + diff /\ diff * k \in Nat
  BY <1>1, <1>2
<1>5. k = n => diff * k <= Size
  BY <1>1, <1>2
<1>6. u.start + Rewind <= u.last /\ u.start <= u.pos
  BY <1>1, <1>2, <1>3, <1>4, <1>5
<1> QED BY <1>3, <1>6 DEF Wide, Brings, Fresh, u

\* Threads that differ in their files only are as wide.
LEMMA WideKept ==
    ASSUME WideInv, SameThreads(thread') PROVE WideInv'
  BY DEF SameThreads, SameButTo, WideInv, Wide

\* The threads that a download starts, beside those of the others.
LEMMA PrepareThreads ==
    ASSUME TypeInv, NEW d \in Download, Prepare(d)
    PROVE  \E n \in 1 .. MaxThreads :
              /\ \A k \in 1 .. MaxThreads :
                    thread'[d][k] = IF k <= n THEN Started(k, n) ELSE NoThread
              /\ \A e \in Download \ {d}, k \in 1 .. MaxThreads :
                    SameButTo(thread'[e][k], thread[e][k])
<1> DEFINE th == Redirected(thread, File, Temp, Nowhere)
<1>1. th \in Threads /\ \A e \in Download, k \in 1 .. MaxThreads : SameButTo(th[e][k], thread[e][k])
  <2>1. thread \in Threads
    BY TypeParts DEF TypeInv, ThreadsType, Threads
  <2> QED BY <2>1, RedirectedType, Targets
<1>2. PICK n \in 1 .. MaxThreads - Others(d) :
         thread' = [th EXCEPT ![d] =
             [k \in 1 .. MaxThreads |-> IF k <= n THEN Started(k, n) ELSE NoThread]]
  BY DEF Prepare
<1>3. n \in 1 .. MaxThreads
  BY OthersNat, SizesAssumption
<1> HIDE DEF th
<1>4. \A k \in 1 .. MaxThreads : thread'[d][k] = IF k <= n THEN Started(k, n) ELSE NoThread
  BY <1>1, <1>2 DEF Threads
<1>5. \A e \in Download \ {d} : thread'[e] = th[e]
  BY <1>1, <1>2 DEF Threads
<1> QED BY <1>1, <1>3, <1>4, <1>5

\* Every step keeps the ranges wide.
LEMMA WideNext == TypeInv /\ WideInv /\ [Next]_vars => WideInv'
<1> SUFFICES ASSUME TypeInv, WideInv, [Next]_vars PROVE WideInv'
  OBVIOUS
<1>0. SameThreads(thread) /\ ThreadsType
  BY SameAsBefore, TypeParts DEF TypeInv
<1>1. CASE Publish \/ StopThreadEnd \/ DeleteSum
  BY <1>0, <1>1, WideKept DEF Publish, StopThreadEnd, DeleteSum
<1>8. ASSUME NEW d \in Download, HandleEnd(d) \/ Begin(d) PROVE WideInv'
  BY <1>0, <1>8, WideKept DEF HandleEnd, Begin
<1>9. ASSUME NEW s \in Slot, Delete(s) PROVE WideInv'
  BY <1>0, <1>9, WideKept DEF Delete
<1>2. CASE Kill
  BY <1>2 DEF Kill, Idle, NoThread, WideInv, Wide
<1>3. CASE Cancel \/ OnDestroy
  BY <1>3, DeleteTempType, WideKept DEF Cancel, OnDestroy, StopThread
<1>4. CASE DeleteFiles
  BY <1>4, DeleteSlotType, WideKept DEF DeleteFiles
<1>5. ASSUME NEW d \in Download, DownloadStep(d) PROVE WideInv'
  <2>1. CASE Reset(d) \/ Setup(d) \/ Search(d) \/ Mark(d) \/ Index(d) \/ Leave(d)
    BY <1>0, <2>1, WideKept DEF Reset, Setup, Search, Mark, Index, Leave
  <2>2. CASE Prepare(d)
    <3>1. PICK n \in 1 .. MaxThreads :
              /\ \A k \in 1 .. MaxThreads :
                    thread'[d][k] = IF k <= n THEN Started(k, n) ELSE NoThread
              /\ \A e \in Download \ {d}, k \in 1 .. MaxThreads :
                    SameButTo(thread'[e][k], thread[e][k])
      BY <2>2, PrepareThreads
    <3>2. ASSUME NEW k \in 1 .. MaxThreads PROVE Wide(thread'[d][k])
      <4>1. CASE k <= n
        <5>1. k \in 1 .. n
          BY <4>1
        <5> QED BY <3>1, <4>1, <5>1, StartedBrings
      <4>2. CASE ~(k <= n)
        BY <3>1, <4>2 DEF NoThread, Wide
      <4> QED BY <4>1, <4>2
    <3>3. ASSUME NEW e \in Download \ {d}, NEW k \in 1 .. MaxThreads PROVE Wide(thread'[e][k])
      BY <3>1 DEF WideInv, Wide, SameButTo
    <3> QED BY <3>2, <3>3 DEF WideInv
  <2>3. CASE Join(d)
    BY <1>0, <2>3 DEF Join, Idle, NoThread, ThreadsType, WideInv, Wide
  <2>4. CASE Check(d)
    BY <1>0, <2>4, DeleteTempType, WideKept DEF Check
  <2>5. CASE DeleteOld(d)
    BY <2>5, DeleteSlotType, WideKept DEF DeleteOld
  <2>6. CASE Rename(d)
    <3>1. name[d] \in Slot
      BY TypeParts DEF TypeInv, RestType
    <3> QED BY <2>6, <3>1, RenameTempType, WideKept DEF Rename
  <2>7. CASE Cleanup(d)
    BY <2>7, DeleteTempType, WideKept DEF Cleanup
  <2> QED BY <1>5, <2>1, <2>2, <2>3, <2>4, <2>5, <2>6, <2>7 DEF DownloadStep
<1>6. ASSUME NEW d \in Download, NEW k \in 1 .. MaxThreads, ThreadStep(d, k) PROVE WideInv'
  <2>1. Wide(thread'[d][k])
    BY <1>6, ThreadBrings DEF StepBrings
  <2>2. \A e \in Download, l \in 1 .. MaxThreads :
           ~(e = d /\ l = k) => thread'[e][l] = thread[e][l]
    BY <1>6, ThreadShape, Became
  <2> QED BY <2>1, <2>2 DEF WideInv
<1>7. CASE UNCHANGED vars
  BY <1>0, <1>7, WideKept DEF vars
<1> QED BY <1>1, <1>2, <1>3, <1>4, <1>5, <1>6, <1>7, <1>8, <1>9 DEF Next, MainStep

\* Only a download that waits has threads to speak of; steps that leave it, its
\* threads and the temporary files alone keep BringInv.
LEMMA BringKept ==
    ASSUME BringInv, ~disturbed, temp' = temp,
           \A d \in Download : at'[d] = "join" /\ ~stop_me'[d] =>
               at[d] = "join" /\ ~stop_me[d] /\ thread'[d] = thread[d]
    PROVE  BringInv'
  BY DEF BringInv

\* When no download waits there is nothing to say.
LEMMA BringNone ==
    ASSUME \A d \in Download : ~(at'[d] = "join" /\ ~stop_me'[d])
    PROVE  BringInv'
  BY DEF BringInv

\* Every step keeps BringInv.
LEMMA BringNext ==
    FlowInv /\ TypeInv /\ JoinInv /\ ToInv /\ WideInv /\ BringInv /\ [Next]_vars => BringInv'
<1> SUFFICES ASSUME FlowInv, TypeInv, JoinInv, ToInv, WideInv, BringInv, [Next]_vars, ~disturbed'
             PROVE  BringInv'
  BY DEF BringInv
<1>0. ~disturbed
  BY DisturbedStays
<1>01. /\ ThreadsType /\ thread \in Threads /\ stop_me \in [Download -> BOOLEAN]
       /\ at \in [Download -> {"idle", "message"} \union Busy \union Finished]
  BY TypeParts DEF TypeInv, RestType, ThreadsType, Threads
<1>02. ASSUME NEW d \in Download, at[d] \notin {"idle"} \union Finished, NEW e \in Download, at[e] = "join"
       PROVE  e = d
  BY <1>0, <1>02, OnlyOne DEF Active, Finished
<1> USE DEF Goto, flags, ui, downloads, disk, installed, past
<1>1. CASE Publish \/ StopThreadEnd \/ DeleteSum \/ \E s \in Slot : Delete(s)
  BY <1>0, <1>1, BringKept DEF Publish, StopThreadEnd, DeleteSum, Delete
<1>2. CASE Kill
  BY <1>2, BringNone DEF Kill, Active, Finished
<1>3. CASE Cancel \/ OnDestroy
  <2>1. stop_me' = [stop_me EXCEPT ![current] = TRUE] /\ at' = at
    BY <1>3 DEF Cancel, OnDestroy, StopThread
  <2>2. ASSUME NEW d \in Download, at[d] = "join" PROVE stop_me'[d]
    BY <1>0, <1>01, <2>1, <2>2 DEF FlowInv, AloneInv, Active, Finished
  <2> QED BY <2>1, <2>2, BringNone
<1>4. CASE DeleteFiles
  <2> DEFINE s == removing.slot
  <2>0. s \in Slot
    BY TypeParts DEF TypeInv, RestType, Removal
  <2> HIDE DEF s
  <2>1. /\ thread' = Redirected(thread, File, s, Nowhere) /\ s # Temp /\ s # Closed
        /\ UNCHANGED <<at, stop_me, temp>>
    BY <1>4, <2>0, SizesAssumption DEF DeleteFiles, Slot, Temp, Closed, s
  <2>2. ASSUME NEW d \in Download, NEW k \in 1 .. MaxThreads
        PROVE  /\ SameButTo(thread'[d][k], thread[d][k])
               /\ thread[d][k].to \in {Temp, Closed} => thread'[d][k] = thread[d][k]
    <3>1. DOMAIN thread[d] = 1 .. MaxThreads
      BY <1>01 DEF Threads
    <3>2. thread'[d][k] = IF thread[d][k].to = s /\ thread[d][k].file \in File
                          THEN [thread[d][k] EXCEPT !.to = Nowhere] ELSE thread[d][k]
      BY <2>1, <3>1 DEF Redirected
    <3> QED BY <1>01, <2>1, <3>2, RedirectedType, Targets
  <2>3. ASSUME NEW d \in Download, NEW k \in 1 .. MaxThreads, at'[d] = "join", ~stop_me'[d],
               Sound(thread'[d][k])
        PROVE  Brings(thread'[d][k], temp')
    <3>1. Brings(thread[d][k], temp)
      BY <1>0, <2>1, <2>2, <2>3 DEF BringInv, SameButTo, Sound
    <3>2. CASE thread[d][k].to \in {Temp, Closed}
      BY <2>1, <2>2, <3>1, <3>2
    <3>3. CASE thread[d][k].to \notin {Temp, Closed}
      BY <2>1, <2>2, <3>1, <3>3 DEF Brings, Fresh, SameButTo
    <3> QED BY <3>2, <3>3
  <2> QED BY <2>3 DEF BringInv
<1>5. ASSUME NEW d \in Download, HandleEnd(d) PROVE BringInv'
  BY <1>0, <1>01, <1>5, BringKept DEF HandleEnd
<1>6. ASSUME NEW d \in Download, Begin(d) PROVE BringInv'
  BY <1>0, <1>01, <1>6, BringKept DEF Begin
<1>7. ASSUME NEW d \in Download, DownloadStep(d) PROVE BringInv'
  <2>0. at[d] \notin {"idle"} \union Finished
    BY <1>7 DEF DownloadStep, Reset, Setup, Search, Prepare, Join, Check, DeleteOld, Rename, Mark,
                Index, Leave, Cleanup, Finished
  <2>1. ASSUME NEW l, at' = [at EXCEPT ![d] = l], l # "join" PROVE BringInv'
    <3>1. ASSUME NEW e \in Download PROVE at'[e] # "join"
      BY <1>01, <1>02, <2>0, <2>1
    <3> QED BY <3>1, BringNone
  <2>2. CASE Reset(d) \/ Setup(d) \/ Join(d) \/ Check(d) \/ DeleteOld(d) \/ Mark(d)
             \/ Index(d) \/ Leave(d) \/ Cleanup(d)
    <3>1. \E l : at' = [at EXCEPT ![d] = l] /\ l # "join"
      <4>1. CASE Reset(d) \/ Setup(d)
        BY <4>1 DEF Reset, Setup
      <4>2. CASE Join(d)
        <5>1. at' = [at EXCEPT ![d] = "leave"] \/ at' = [at EXCEPT ![d] = "check"]
          BY <4>2 DEF Join
        <5> QED BY <5>1
      <4>3. CASE Check(d)
        BY <4>3 DEF Check
      <4>4. CASE DeleteOld(d) \/ Mark(d) \/ Index(d) \/ Leave(d) \/ Cleanup(d)
        BY <4>4 DEF DeleteOld, Mark, Index, Leave, Cleanup
      <4> QED BY <2>2, <4>1, <4>2, <4>3, <4>4
    <3> QED BY <2>1, <3>1
  <2>5. CASE Search(d)
    BY <1>0, <2>5, BringKept DEF Search
  <2>3. CASE Rename(d)
    <3>1. \E l : at' = [at EXCEPT ![d] = l] /\ l # "join"
      BY <2>3 DEF Rename
    <3> QED BY <2>1, <3>1
  <2>4. CASE Prepare(d)
    <3>1. PICK n \in 1 .. MaxThreads :
              \A k \in 1 .. MaxThreads :
                  thread'[d][k] = IF k <= n THEN Started(k, n) ELSE NoThread
      BY <2>4, PrepareThreads
    <3>2. at' = [at EXCEPT ![d] = "join"]
      BY <2>4 DEF Prepare
    <3>3. ASSUME NEW e \in Download, at'[e] = "join" PROVE e = d
      BY <1>01, <1>02, <2>0, <3>2, <3>3
    <3>4. ASSUME NEW k \in 1 .. MaxThreads PROVE Brings(thread'[d][k], temp')
      <4>1. CASE k <= n
        <5>1. k \in 1 .. n
          BY <4>1
        <5>2. Brings(Started(k, n), temp')
          BY <5>1, StartedBrings
        <5> QED BY <3>1, <4>1, <5>2
      <4>2. CASE ~(k <= n)
        BY <3>1, <4>2 DEF NoThread, Brings, Fresh
      <4> QED BY <4>1, <4>2
    <3> QED BY <3>3, <3>4 DEF BringInv
  <2> QED BY <1>7, <2>2, <2>3, <2>4, <2>5 DEF DownloadStep
<1>8. ASSUME NEW d \in Download, NEW k \in 1 .. MaxThreads, ThreadStep(d, k) PROVE BringInv'
  <2>1. Runs(d, k) /\ at[d] = "join" /\ UNCHANGED <<at, stop_me>>
    BY <1>8, ThreadShape DEF JoinInv, ThreadKeeps
  <2>2. StepBrings(d, k)
    BY <1>8, ThreadBrings
  <2>3. \A e \in Download, l \in 1 .. MaxThreads :
           ~(e = d /\ l = k) => thread'[e][l] = thread[e][l]
    BY <1>8, ThreadShape, Became
  <2>4. ASSUME NEW e \in Download, NEW l \in 1 .. MaxThreads, at'[e] = "join", ~stop_me'[e],
               Sound(thread'[e][l])
        PROVE  Brings(thread'[e][l], temp')
    <3>1. CASE e = d /\ l = k
      BY <1>0, <2>1, <2>2, <2>4, <3>1 DEF BringInv, StepBrings
    <3>2. CASE ~(e = d /\ l = k)
      <4>1. thread'[e][l] = thread[e][l] /\ thread[e][l] \in Thread
        BY <1>01, <2>3, <3>2 DEF Threads
      <4>2. Brings(thread[e][l], temp)
        BY <1>0, <2>1, <2>4, <4>1 DEF BringInv
      <4>3. More(temp', temp) /\ temp.there \subseteq temp'.there
        BY <2>2 DEF StepBrings
      <4> QED BY <4>1, <4>2, <4>3, MoreBrings
    <3> QED BY <3>1, <3>2
  <2> QED BY <2>4 DEF BringInv
<1>9. CASE UNCHANGED vars
  BY <1>0, <1>9, BringKept DEF vars
<1> QED BY <1>1, <1>2, <1>3, <1>4, <1>5, <1>6, <1>7, <1>8, <1>9 DEF Next, MainStep

-----------------------------------------------------------------------------
(* The theorem. *)

\* The invariant holds at the start and every step keeps it.
LEMMA RangeInvariant == Spec => [](TypeInv /\ WideInv /\ BringInv)
<1>1. Init => WideInv /\ BringInv
  BY DEF Init, Idle, NoThread, WideInv, Wide, BringInv
<1>2. IInv /\ WideInv /\ BringInv /\ [Next]_vars => WideInv' /\ BringInv'
  BY WideNext, BringNext DEF IInv
<1>3. IInv => TypeInv
  BY DEF IInv
<1> QED BY <1>1, <1>2, <1>3, MapInvariant, PTL DEF Spec

\* A thread that ends well has brought its range but for its last byte, for every size,
\* split and buffer, with as many breaks, retries and new starts as there may be
\* (MultiStreamDownloaderThread.run).
THEOREM MapRangeFetched == Spec => []RangeFetched
<1>1. TypeInv /\ WideInv /\ BringInv => RangeFetched
  <2> SUFFICES ASSUME TypeInv, BringInv, ~disturbed,
                      NEW d \in Download, NEW k \in 1 .. MaxThreads,
                      at[d] = "join", thread[d][k].at = "ended", ~thread[d][k].failed,
                      ~thread[d][k].gap, ~stop_me[d],
                      NEW p \in thread[d][k].start .. thread[d][k].last - 1
               PROVE  FileOf(p) \in temp.there /\ temp.data[FileOf(p)][p] # 0
    BY DEF RangeFetched
  <2> QED BY DEF BringInv, Sound, Brings, Fetched, Has
<1> QED BY <1>1, RangeInvariant, PTL
=============================================================================

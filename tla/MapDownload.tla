---------------------------- MODULE MapDownload ----------------------------
(***************************************************************************)
(* NavitMapDownloader.java and the service that runs it: a map is fetched  *)
(* by several threads, each a range of bytes, into one temporary file (and *)
(* more of them for a large map); the file is checked against the MD5 sum  *)
(* of the server, moved to its place, and its sum is kept beside it, so    *)
(* that the same map is not fetched again.                                 *)
(*                                                                         *)
(* The temporary files have fixed names and the flags that stop threads    *)
(* and count errors are static, although nothing keeps the user from       *)
(* starting a download while another runs or is still being cancelled; and *)
(* the process may be killed at any point.                                 *)
(*                                                                         *)
(* One map of the server is modelled. Abstracted: the bytes (a version per *)
(* byte), the choice of the server, the index file, the display.           *)
(***************************************************************************)
EXTENDS Integers, FiniteSets

CONSTANTS
    MaxDownloads,    \* bound on the downloads
    MaxThreads,      \* MULTI_NUM_THREADS, and bound on the threads at a time
    Size,            \* bytes of the map
    SplitSize,       \* MAX_SINGLE_BINFILE_SIZE
    Buffer,          \* MAP_WRITE_MEM_BUFFER
    Rewind,          \* bytes to go back when a range was read to its end, 10
    MaxVersion,      \* bound on the versions of the map
    Slots,           \* names for maps on the disk, MAP_MAX_FILES
    MaxActs          \* bound on what is out of the ordinary, see Act

ASSUME SizesAssumption ==
    /\ {MaxDownloads, MaxThreads, Size, SplitSize, Buffer, Rewind, MaxVersion, Slots}
            \subseteq Nat \ {0}
    /\ MaxActs \in Nat
    /\ Buffer <= SplitSize
    /\ Rewind < Size \div MaxThreads

VARIABLES
    \* the server
    offered,     \* the version of the map
    \* static fields
    stopAll,     \* mapdownload_stop_all_threads
    error,       \* mapdownload_error_code > 0
    \* the service, all on the main thread
    service,     \* "down", "up", or "stopping" until onDestroy is called
    current,     \* progressThread_pri, 0 if there is none
    deleting,    \* the main thread is in stop_thread, the MD5 file comes next
    removing,    \* the main thread deletes a map of the list, see Removal
    \* a download: ProgressThread and its NavitMapDownloader
    at,          \* where the thread is
    stop_me,     \* NavitMapDownloader.stop_me
    name,        \* the slot of final_fileName
    md5,         \* md5_server
    thread,      \* its threads, see Thread
    \* the disk
    temp,        \* navitmap.tmp and the files for the rest of a large map
    md5temp,     \* navitmap_tmp.md5, 0 if it is not there
    final,       \* the maps in their slots
    md5final,    \* the MD5 file of the map, 0 if it is not there
    listed,      \* map_catalogue: "no", "known", "unknown" for each slot
    \* history variables
    acts,        \* how often something out of the ordinary happened, see Act
    told,        \* the downloads that were told to stop after they had started
    disturbed    \* something happened that the code does not guard against: two
                 \* downloads at a time, a cancel or a deletion during the
                 \* installation, a server with another sum, a map of unknown
                 \* origin deleted, a kill between a map and its sum being deleted

flags == <<stopAll, error>>
ui == <<service, current, deleting, removing>>
downloads == <<at, stop_me, name, md5>>
installed == <<final, md5final, listed>>
disk == <<temp, md5temp, installed>>
past == <<told, disturbed>>
vars == <<offered, flags, ui, downloads, thread, disk, acts, past>>

Download == 1 .. MaxDownloads
Slot == 1 .. Slots
Version == 1 .. MaxVersion
Pos == 0 .. Size - 1
File == 0 .. Size \div SplitSize

\* Where the bytes of an open file go: to the temporary file, to a map in a
\* slot, nowhere if the file was deleted; a closed file cannot be written.
Temp == 0
Nowhere == -1
Closed == -2

\* The names of some of the files of a map and, for each of them, the version of
\* the byte of the map that was written at its place, 0 if none was.
Files == [there : SUBSET File, data : [File -> [Pos -> 0 .. MaxVersion]]]
NoBytes == [p \in Pos |-> 0]
NoFiles == [there |-> {}, data |-> [f \in File |-> NoBytes]]

\* MultiStreamDownloaderThread, with its range of bytes from start to last.
\* pos: already_read; file, to: f_rnd; again: try_number > 1.
\* failed: history, it ended with an error; gap: history, a write failed.
Thread == [at : {"none", "outer", "open", "loop", "connect", "read", "split", "ended"},
           start : Pos, last : Pos, pos : 0 .. Size,
           file : File, to : Closed .. Slots, again : BOOLEAN,
           failed : BOOLEAN, gap : BOOLEAN]
NoThread == [at |-> "none", start |-> 0, last |-> 0, pos |-> 0,
             file |-> 0, to |-> Closed, again |-> FALSE,
             failed |-> FALSE, gap |-> FALSE]

\* What of a map is deleted next: its files or, if it is known, its MD5 sum.
Removal == [next : {"no", "files", "sum"}, slot : Slot, known : BOOLEAN]
NoRemoval == [next |-> "no", slot |-> 1, known |-> FALSE]

Finished == {"done", "killed"}
Renaming == {"delete", "rename", "splits", "mark"}
Installing == Renaming \union {"index"}
Busy == {"run", "setup", "prepare", "join", "check", "leave", "cleanup"} \union Installing

TypeOK ==
    /\ offered \in Version
    /\ stopAll \in BOOLEAN /\ error \in BOOLEAN
    /\ service \in {"down", "up", "stopping"}
    /\ current \in 0 .. MaxDownloads
    /\ deleting \in BOOLEAN
    /\ removing \in Removal
    /\ at \in [Download -> {"idle", "message"} \union Busy \union Finished]
    /\ stop_me \in [Download -> BOOLEAN]
    /\ name \in [Download -> Slot]
    /\ md5 \in [Download -> 0 .. MaxVersion]
    /\ thread \in [Download -> [1 .. MaxThreads -> Thread]]
    /\ temp \in Files /\ md5temp \in 0 .. MaxVersion
    /\ final \in [Slot -> Files] /\ md5final \in 0 .. MaxVersion
    /\ listed \in [Slot -> {"no", "known", "unknown"}]
    /\ acts \in 0 .. MaxActs
    /\ told \subseteq Download
    /\ disturbed \in BOOLEAN

Idle == [k \in 1 .. MaxThreads |-> NoThread]

Init ==
    /\ offered = 1
    /\ stopAll = FALSE /\ error = FALSE
    /\ service = "down" /\ current = 0 /\ deleting = FALSE
    /\ removing = NoRemoval
    /\ at = [d \in Download |-> "idle"]
    /\ stop_me = [d \in Download |-> FALSE]
    /\ name = [d \in Download |-> 1]
    /\ md5 = [d \in Download |-> 0]
    /\ thread = [d \in Download |-> Idle]
    /\ temp = NoFiles /\ md5temp = 0
    /\ final = [s \in Slot |-> NoFiles] /\ md5final = 0
    /\ listed = [s \in Slot |-> "no"]
    /\ acts = 0 /\ told = {} /\ disturbed = FALSE

-----------------------------------------------------------------------------
(* Files *)

FileOf(p) == p \div SplitSize

\* The threads after the files fs of `to` were deleted, or moved to new.
Redirected(th, fs, to, new) ==
    [d \in Download |-> [k \in DOMAIN th[d] |->
        IF th[d][k].to = to /\ th[d][k].file \in fs
        THEN [th[d][k] EXCEPT !.to = new] ELSE th[d][k]]]

\* The files were deleted.
Without(files, fs) ==
    [there |-> files.there \ fs,
     data |-> [f \in File |-> IF f \in fs THEN NoBytes ELSE files.data[f]]]

\* The map is there, whole and of version v, as an MD5 sum tells.
Whole(files, v) ==
    \A p \in Pos : /\ FileOf(p) \in files.there
                   /\ files.data[FileOf(p)][p] = v

\* new File(..).delete() for the files fs of the download.
DeleteTemp(fs) ==
    /\ temp' = Without(temp, fs)
    /\ thread' = Redirected(thread, fs, Temp, Nowhere)

\* renameTo for the files fs of the download, into a slot.
RenameTemp(fs, s) ==
    LET have == fs \intersect temp.there
        replaced == Redirected(thread, have, s, Nowhere)
    IN  /\ temp' = Without(temp, have)
        /\ final' = [final EXCEPT ![s] =
               [there |-> @.there \union have,
                data |-> [f \in File |-> IF f \in have THEN temp.data[f] ELSE @.data[f]]]]
        /\ thread' = Redirected(replaced, have, Temp, s)

\* The bytes from a to b - 1 of the offered version, written to the file f.
Written(files, f, a, b) ==
    [files EXCEPT !.data[f] =
        [p \in Pos |-> IF p \in a .. b - 1 THEN offered ELSE @[p]]]

-----------------------------------------------------------------------------
(* A download: start_map_download, ProgressThread.run, download_osm_map *)

Goto(d, l) == at' = [at EXCEPT ![d] = l]
MainIdle == ~deleting /\ removing.next = "no"
\* A cancel, a kill, a deleted map, a new version, a mirror with another sum, a failed
\* write, a download that starts while another one runs, or that uses several threads.
Act == acts < MaxActs /\ acts' = acts + 1
Active(d) == at[d] \notin {"idle"} \union Finished

\* Threads that other downloads have: one at least, the one they may start with.
Runs(d, k) == thread[d][k].at \notin {"none", "ended"}
Others(d) ==
    Cardinality({p \in (Download \ {d}) \X (1 .. MaxThreads) :
        Active(p[1]) /\ (Runs(p[1], p[2]) \/ (p[2] = 1 /\ \A k \in 1 .. MaxThreads : ~Runs(p[1], k)))})

\* onStartCommand: nothing asks whether another download is running.
Begin(d) ==
    /\ MainIdle /\ service # "stopping"
    /\ at[d] = "idle" /\ \A e \in 1 .. d - 1 : at[e] # "idle"
    /\ Others(d) < MaxThreads
    /\ IF \E e \in Download : Active(e) THEN Act ELSE UNCHANGED acts
    /\ Goto(d, "run")
    /\ service' = "up" /\ current' = d
    /\ disturbed' = (disturbed \/ \E e \in Download : Active(e))
    /\ UNCHANGED <<offered, flags, deleting, removing, stop_me, name, md5, thread, disk, told>>

\* The name is the one the map is listed with, or the lowest free one.
NameFor ==
    LET known == {s \in Slot : listed[s] = "known"}
        free == {s \in Slot : listed[s] = "no"}
    IN  CHOOSE s \in Slot :
            IF known # {} THEN s \in known
            ELSE IF free # {} THEN s \in free /\ \A t \in free : s <= t
            ELSE s = Slots

\* A cancel that came before this is forgotten.
Reset(d) ==
    /\ at[d] = "run" /\ Goto(d, "setup")
    /\ stop_me' = [stop_me EXCEPT ![d] = FALSE] /\ stopAll' = FALSE
    /\ name' = [name EXCEPT ![d] = NameFor]
    /\ UNCHANGED <<offered, error, ui, md5, thread, disk, acts, past>>

\* The MD5 sum of the server, which is saved at once, and the one on the disk.
Setup(d) ==
    /\ at[d] = "setup"
    /\ \/ /\ md5' = [md5 EXCEPT ![d] = offered] /\ md5temp' = offered
          /\ \/ Goto(d, "leave")
             \/ md5final # offered /\ Goto(d, "prepare")
       \/ Goto(d, "leave") /\ UNCHANGED <<md5, md5temp>>
    /\ UNCHANGED <<offered, flags, ui, stop_me, name, thread, temp, installed, acts, past>>
\* Mutant: the last range goes one byte too far, as that of the index file does.
StartedFar(k, n) ==
    LET diff == Size \div n IN
    [NoThread EXCEPT !.at = "outer", !.start = diff * (k - 1), !.pos = diff * (k - 1),
                     !.last = IF k = n THEN Size ELSE diff * k - 1]

\* The range of the k-th of n threads.
Started(k, n) ==
    LET diff == Size \div n IN
    [NoThread EXCEPT !.at = "outer", !.start = diff * (k - 1), !.pos = diff * (k - 1),
                     !.last = IF k = n THEN Size - 1 ELSE diff * k - 1]
\* Mutant: the flags are cleared when the threads are started.
PrepareResets(d) ==
    /\ at[d] = "prepare" /\ Goto(d, "join")
    /\ temp' = Without(temp, File)
    /\ error' = FALSE /\ stopAll' = FALSE /\ stop_me' = [stop_me EXCEPT ![d] = FALSE]
    /\ thread' = [Redirected(thread, File, Temp, Nowhere) EXCEPT ![d] =
                     [k \in 1 .. MaxThreads |-> IF k = 1 THEN Started(1, 1) ELSE NoThread]]
    /\ UNCHANGED <<offered, ui, name, md5, md5temp, installed, acts, past>>

\* A mirror is asked for the map, when there are to be several threads. One with
\* another sum is not used, but its sum v has replaced the one that was saved.
Search(d) ==
    /\ at[d] = "prepare" /\ MaxThreads > 1
    /\ \E v \in Version : /\ md5temp' = v
                          /\ disturbed' = (disturbed \/ v # md5[d])
                          /\ IF v # md5[d] THEN Act ELSE UNCHANGED acts
    /\ UNCHANGED <<offered, flags, ui, downloads, thread, temp, installed, told>>

\* As many threads as mirrors were found; the first server has the first thread.
Prepare(d) ==
    /\ at[d] = "prepare" /\ Goto(d, "join")
    /\ temp' = Without(temp, File)
    /\ error' = FALSE
    /\ \E n \in 1 .. MaxThreads - Others(d) :
       /\ IF n > 1 THEN Act ELSE UNCHANGED acts
       /\ thread' = [Redirected(thread, File, Temp, Nowhere) EXCEPT ![d] =
              [k \in 1 .. MaxThreads |-> IF k <= n THEN Started(k, n) ELSE NoThread]]
    /\ UNCHANGED <<offered, stopAll, ui, stop_me, name, md5, md5temp, installed, past>>

AllEnded(d) == \A k \in 1 .. MaxThreads : thread[d][k].at \in {"none", "ended"}
\* Mutant: after an error the other threads are not waited for.
JoinHasty(d) ==
    /\ at[d] = "join" /\ (AllEnded(d) \/ error)
    /\ Goto(d, IF error THEN "leave" ELSE "check") /\ error' = FALSE
    /\ UNCHANGED <<offered, stopAll, ui, stop_me, name, md5, thread, disk, acts, past>>

Join(d) ==
    /\ at[d] = "join" /\ AllEnded(d)
    /\ Goto(d, IF error THEN "leave" ELSE "check") /\ error' = FALSE
    /\ thread' = [thread EXCEPT ![d] = Idle]
    /\ UNCHANGED <<offered, stopAll, ui, stop_me, name, md5, disk, acts, past>>
\* Mutant: only the length of the file is checked.
CheckLength(d) ==
    /\ at[d] = "check"
    /\ IF ~stopAll /\ temp.data[FileOf(Size - 1)][Size - 1] # 0
       THEN Goto(d, "delete") /\ UNCHANGED <<temp, md5temp, thread>>
       ELSE Goto(d, "leave") /\ DeleteTemp({0}) /\ md5temp' = 0
    /\ UNCHANGED <<offered, flags, ui, stop_me, name, md5, installed, acts, past>>

\* calc_md5sum_on_device finds no sum when the threads are to stop.
Check(d) ==
    /\ at[d] = "check"
    /\ IF ~stopAll /\ Whole(temp, md5[d])
       THEN Goto(d, "delete") /\ UNCHANGED <<temp, md5temp, thread>>
       ELSE Goto(d, "leave") /\ DeleteTemp({0}) /\ md5temp' = 0
    /\ UNCHANGED <<offered, flags, ui, stop_me, name, md5, installed, acts, past>>
\* Mutant: the new sum is kept before the map is in its place.
DeleteOldMarks(d) ==
    /\ at[d] = "delete" /\ Goto(d, "rename")
    /\ final' = [final EXCEPT ![name[d]] = NoFiles]
    /\ md5final' = md5temp
    /\ thread' = Redirected(thread, File, name[d], Nowhere)
    /\ UNCHANGED <<offered, flags, ui, stop_me, name, md5, temp, md5temp, listed, acts, past>>

DeleteOld(d) ==
    /\ at[d] = "delete" /\ Goto(d, "rename")
    /\ final' = [final EXCEPT ![name[d]] = NoFiles]
    /\ thread' = Redirected(thread, File, name[d], Nowhere)
    /\ UNCHANGED <<offered, flags, ui, stop_me, name, md5, temp, md5temp, md5final, listed,
                   acts, past>>

Rename(d) ==
    /\ \/ at[d] = "rename" /\ Goto(d, "splits") /\ RenameTemp({0}, name[d])
       \/ at[d] = "splits" /\ Goto(d, "mark")
          /\ RenameTemp(1 .. (Size - 1) \div SplitSize, name[d])
    /\ UNCHANGED <<offered, flags, ui, stop_me, name, md5, md5temp, md5final, listed, acts, past>>

Mark(d) ==
    /\ at[d] = "mark" /\ Goto(d, "index")
    /\ md5final' = md5temp /\ md5temp' = 0
    /\ UNCHANGED <<offered, flags, ui, stop_me, name, md5, thread, temp, final, listed, acts, past>>

\* The index file, whatever comes of it, and the catalogue.
Index(d) ==
    /\ at[d] = "index" /\ Goto(d, "leave")
    /\ error' = FALSE
    /\ listed' = [listed EXCEPT ![name[d]] = "known"]
    /\ UNCHANGED <<offered, stopAll, ui, stop_me, name, md5, thread, temp, md5temp, final,
                   md5final, acts, past>>

StopService == service' = IF service = "up" THEN "stopping" ELSE service

Leave(d) ==
    /\ at[d] = "leave" /\ Goto(d, "cleanup") /\ StopService
    /\ UNCHANGED <<offered, flags, current, deleting, removing, stop_me, name, md5, thread, disk, acts, past>>

Cleanup(d) ==
    /\ at[d] = "cleanup" /\ Goto(d, "message")
    /\ DeleteTemp(File) /\ md5temp' = 0
    /\ name' = [name EXCEPT ![d] = 1] /\ md5' = [md5 EXCEPT ![d] = 0]
    /\ UNCHANGED <<offered, flags, ui, stop_me, installed, acts, past>>

DownloadStep(d) ==
    \/ Reset(d) \/ Setup(d) \/ Search(d) \/ Prepare(d) \/ Join(d) \/ Check(d)
    \/ DeleteOld(d) \/ Rename(d) \/ Mark(d) \/ Index(d) \/ Leave(d) \/ Cleanup(d)

-----------------------------------------------------------------------------
(* Its threads: MultiStreamDownloaderThread.run *)

Least(a, b) == IF a < b THEN a ELSE b
Opened(p) == [there |-> temp.there \union {FileOf(p)}, data |-> temp.data]

\* mapdownload_error_code_inc and the end of the thread
Failed(t) == [t EXCEPT !.at = "ended", !.to = Closed, !.failed = TRUE]

\* The next attempt, which closes the file and opens it again
Again(t) == [t EXCEPT !.at = "loop", !.to = Closed]

\* What every step of a thread leaves alone.
ThreadKeeps == UNCHANGED <<offered, stopAll, ui, downloads, md5temp, past>>
Becomes(d, k, t) == thread' = [thread EXCEPT ![d][k] = t]
Fails(d, k) ==
    /\ Becomes(d, k, Failed(thread[d][k])) /\ error' = TRUE
    /\ UNCHANGED <<temp, installed>>

\* The flag that is asked for within a download.
Stopped(d) == stop_me[d]

\* Start, and start again after RETRIES attempts: the flag, and then the file.
Enter(d, k) ==
    LET t == thread[d][k] IN
    /\ t.at = "outer"
    /\ IF stopAll THEN Fails(d, k)
       ELSE Becomes(d, k, [t EXCEPT !.at = "open"]) /\ UNCHANGED <<error, temp, installed>>
    /\ UNCHANGED acts /\ ThreadKeeps

Open(d, k) ==
    LET t == thread[d][k] IN
    /\ t.at = "open"
    /\ \/ Fails(d, k)               \* the file cannot be opened
       \/ /\ Becomes(d, k, [t EXCEPT !.at = "loop", !.pos = t.start, !.again = FALSE,
                                     !.file = FileOf(t.start), !.to = Temp])
          /\ temp' = Opened(t.start)
          /\ UNCHANGED <<error, installed>>
    /\ UNCHANGED acts /\ ThreadKeeps

\* The flags before an attempt to connect. After RETRIES attempts they are not asked for.
Attempt(d, k) ==
    LET t == thread[d][k]
        goesTo(l) == Becomes(d, k, [t EXCEPT !.at = l]) /\ UNCHANGED <<error, temp, installed>>
    IN
    /\ t.at = "loop"
    /\ \/ t.again /\ goesTo("outer")
       \/ IF stopAll \/ Stopped(d) THEN Fails(d, k) ELSE goesTo("connect")
    /\ UNCHANGED acts /\ ThreadKeeps

\* Mutant: the next attempt goes on one byte too far.
ResumeAhead(t) == IF t.pos >= t.last THEN t.last - Rewind
                  ELSE t.pos + (IF t.again THEN 1 ELSE 0)

\* Where a thread goes on: ten bytes back when it has had all of its range.
Resume(t) == IF t.pos >= t.last THEN t.last - Rewind ELSE t.pos

\* The rest of the range is asked for and, if it is not the first attempt, the file is
\* closed and opened at the position to go on at; only then the flag is asked for again.
Connect(d, k) ==
    LET t == thread[d][k]
        p == Resume(t)
        u == [t EXCEPT !.pos = p, !.again = TRUE]
        v == [u EXCEPT !.file = FileOf(p), !.to = Temp]
        goesOn(w) ==
            IF Stopped(d) THEN Becomes(d, k, Failed(w)) /\ error' = TRUE
            ELSE /\ \E l \in {Again(w), [w EXCEPT !.at = "read"]} : Becomes(d, k, l)
                 /\ UNCHANGED error
    IN
    /\ t.at = "connect"
    /\ \/ ~t.again /\ goesOn(u) /\ UNCHANGED temp
       \/ t.again /\ goesOn(v) /\ temp' = Opened(p)
       \/ t.again /\ goesOn([u EXCEPT !.to = Closed]) /\ UNCHANGED temp
    /\ UNCHANGED <<installed, acts>> /\ ThreadKeeps

\* The end of what the server sends. The last byte of the range is last itself, but
\* the thread is content with the bytes before it.
AtEnd(t) ==
    IF t.pos < t.last THEN Again(t)
    ELSE [t EXCEPT !.at = "ended", !.to = Closed]

\* The bytes from a to b - 1 go where t writes, unless its file was deleted.
Put(t, a, b) ==
    /\ temp' = IF t.to = Temp THEN Written(temp, t.file, a, b) ELSE temp
    /\ final' = IF t.to \in Slot
                THEN [final EXCEPT ![t.to] = Written(@, t.file, a, b)] ELSE final

\* A buffer of n bytes is read and written, up to the border of the file; or it is
\* not written, although the position was moved on.
Buffered(d, k, n) ==
    LET t == thread[d][k]
        p == t.pos + n
        border == IF p > SplitSize - 1 THEN FileOf(p) * SplitSize ELSE 0
    IN
    \/ /\ t.to # Closed
       /\ IF FileOf(t.pos) = FileOf(border)
          THEN Becomes(d, k, [t EXCEPT !.pos = p]) /\ Put(t, t.pos, p)
          ELSE /\ Becomes(d, k, [t EXCEPT !.at = "split", !.pos = p, !.to = Closed])
               /\ Put(t, t.pos, border)
       /\ UNCHANGED acts
    \/ /\ Becomes(d, k, [Again(t) EXCEPT !.pos = p, !.gap = TRUE]) /\ Act
       /\ UNCHANGED <<temp, final>>

Read(d, k) ==
    LET t == thread[d][k] IN
    /\ t.at = "read"
    /\ \/ /\ Stopped(d) /\ error' = TRUE
          /\ Becomes(d, k, [AtEnd(t) EXCEPT !.failed = TRUE])
          /\ UNCHANGED <<temp, final, acts>>
       \/ /\ ~Stopped(d) /\ UNCHANGED error
          /\ \E n \in 1 .. Least(Buffer, t.last + 1 - t.pos) : Buffered(d, k, n)
       \/ /\ \E u \in {AtEnd(t), Again(t)} : Becomes(d, k, u)   \* -1, IOException
          /\ UNCHANGED <<error, temp, final, acts>>
    /\ UNCHANGED <<md5final, listed>> /\ ThreadKeeps

\* The next file is opened for the rest of the buffer.
Split(d, k) ==
    LET t == thread[d][k]
        next == FileOf(t.pos)
    IN
    /\ t.at = "split"
    /\ \/ /\ Becomes(d, k, [t EXCEPT !.at = "read", !.file = next, !.to = Temp])
          /\ temp' = Written(Opened(t.pos), next, next * SplitSize, t.pos)
          /\ UNCHANGED acts
       \/ Becomes(d, k, [Again(t) EXCEPT !.gap = TRUE]) /\ Act /\ UNCHANGED temp
    /\ UNCHANGED <<error, installed>> /\ ThreadKeeps

ThreadStep(d, k) ==
    \/ Enter(d, k) \/ Open(d, k) \/ Attempt(d, k) \/ Connect(d, k)
    \/ Read(d, k) \/ Split(d, k)

-----------------------------------------------------------------------------
(* The main thread and the user *)

\* stop_thread of the current download: the flags and the files, up to the MD5 file.
StopThread ==
    /\ stop_me' = [stop_me EXCEPT ![current] = TRUE] /\ stopAll' = TRUE
    /\ DeleteTemp(File) /\ deleting' = TRUE
    /\ told' = IF at[current] \in {"idle", "run"} THEN told ELSE told \union {current}
    /\ disturbed' = (disturbed \/ at[current] \in Renaming)

\* stop_downloading
Cancel ==
    /\ MainIdle /\ Act
    /\ current # 0 /\ at[current] \notin Finished
    /\ StopThread /\ StopService
    /\ UNCHANGED <<offered, error, current, removing, at, name, md5, md5temp, installed>>

\* The service was stopped: also by a download that is not the current one.
OnDestroy ==
    /\ MainIdle /\ service = "stopping" /\ service' = "down"
    /\ StopThread
    /\ UNCHANGED <<offered, error, current, removing, at, name, md5, md5temp, installed, acts>>

\* The rest of stop_thread
StopThreadEnd ==
    /\ deleting /\ deleting' = FALSE /\ md5temp' = 0
    /\ UNCHANGED <<offered, flags, service, current, removing, downloads, thread, temp, installed, acts, past>>

\* The message of a download that has ended, in the handler of Navit
HandleEnd(d) ==
    /\ MainIdle /\ at[d] = "message" /\ Goto(d, "done") /\ StopService
    /\ UNCHANGED <<offered, flags, current, deleting, removing, stop_me, name, md5, thread, disk, acts, past>>

\* A map is deleted in the list of maps: its line in the catalogue, its files, and
\* then its MD5 file. That has the name the map has on the server, which is not known
\* for every map.
Delete(s) ==
    /\ MainIdle /\ Act
    /\ listed[s] # "no" /\ listed' = [listed EXCEPT ![s] = "no"]
    /\ removing' = [next |-> "files", slot |-> s, known |-> listed[s] = "known"]
    /\ UNCHANGED <<offered, flags, service, current, deleting, downloads, thread, temp,
                   md5temp, final, md5final, past>>

DeleteFiles ==
    /\ removing.next = "files"
    /\ removing' = IF removing.known THEN [removing EXCEPT !.next = "sum"] ELSE NoRemoval
    /\ final' = [final EXCEPT ![removing.slot] = NoFiles]
    /\ thread' = Redirected(thread, File, removing.slot, Nowhere)
    /\ disturbed' = \/ disturbed
                    \/ ~removing.known /\ md5final # 0
                    \/ \E d \in Download : at[d] \in Installing
    /\ UNCHANGED <<offered, flags, service, current, deleting, downloads, temp, md5temp,
                   md5final, listed, acts, told>>

DeleteSum ==
    /\ removing.next = "sum" /\ removing' = NoRemoval
    /\ md5final' = 0
    /\ UNCHANGED <<offered, flags, service, current, deleting, downloads, thread, temp,
                   md5temp, final, listed, acts, past>>

MainStep ==
    \/ OnDestroy \/ StopThreadEnd \/ DeleteFiles \/ DeleteSum
    \/ \E d \in Download : HandleEnd(d)

\* The process is killed and started again: init_cat_file lists what is there. The
\* kept sum is not looked at, also when its map is gone.
Kill ==
    /\ Act
    /\ at' = [d \in Download |-> IF Active(d) THEN "killed" ELSE at[d]]
    /\ stop_me' = [d \in Download |-> FALSE]
    /\ name' = [d \in Download |-> 1] /\ md5' = [d \in Download |-> 0]
    /\ thread' = [d \in Download |-> Idle]
    /\ stopAll' = FALSE /\ error' = FALSE
    /\ service' = "down" /\ current' = 0 /\ deleting' = FALSE /\ removing' = NoRemoval
    /\ listed' = [s \in Slot |-> IF 0 \notin final[s].there THEN "no"
                                 ELSE IF listed[s] = "no" THEN "unknown" ELSE listed[s]]
    /\ disturbed' = (disturbed \/ (removing.next = "sum" /\ md5final # 0))
    /\ UNCHANGED <<offered, temp, md5temp, final, md5final, told>>

\* A new version of the map on the servers
Publish ==
    /\ offered < MaxVersion /\ offered' = offered + 1 /\ Act
    /\ UNCHANGED <<flags, ui, downloads, thread, disk, past>>

Next ==
    \/ Publish \/ Kill \/ Cancel \/ MainStep
    \/ \E s \in Slot : Delete(s)
    \/ \E d \in Download :
          \/ Begin(d) \/ DownloadStep(d)
          \/ \E k \in 1 .. MaxThreads : ThreadStep(d, k)

Spec == Init /\ [][Next]_vars

-----------------------------------------------------------------------------
(* Properties *)

\* A map whose kept MD5 sum is that of the server, which is not downloaded again as
\* "up to date", is whole and on the disk: whatever errors, cancelled or repeated
\* downloads and new versions came before, and wherever kills fell in a download (MD5
\* check, DeleteOld to Index). Only while a map is being deleted its sum may be there
\* without it, which a kill makes lasting (see disturbed).
UpToDate == md5final = offered => \E s \in Slot : Whole(final[s], offered)
UpToDateUndisturbed == ~disturbed /\ removing.next # "sum" => UpToDate

\* When a download gets to list its map, the map is in its place, whole and of the
\* version whose MD5 sum was checked, and no other sum is kept for it, although
\* threads of it or of an earlier download may have written at any time before.
InstalledIsWhole ==
    ~disturbed => \A d \in Download :
        at[d] = "index" => Whole(final[name[d]], md5[d]) /\ md5final \in {0, md5[d]}

\* A thread that ends without an error and without a failed write has brought its
\* range, but for the last byte, to the temporary files: through reconnections,
\* parts that are read twice, and the borders of the files.
RangeFetched ==
    ~disturbed => \A d \in Download, k \in 1 .. MaxThreads :
        LET t == thread[d][k] IN
        at[d] = "join" /\ t.at = "ended" /\ ~t.failed /\ ~t.gap /\ ~stop_me[d]
            => \A p \in t.start .. t.last - 1 :
                  FileOf(p) \in temp.there /\ temp.data[FileOf(p)][p] # 0

\* Nothing is left of the temporary files when downloads have ended and the last
\* one was not killed: also when downloads overlapped or were cancelled while a
\* thread was about to open its file again.
TempGone ==
    (\A d \in Download : ~Active(d)) /\ (\E d \in Download : at[d] = "done")
        /\ (\A d \in Download : at[d] # "killed")
    => temp.there = {} /\ md5temp = 0

\* A download that is told to stop once it has started, before its file is checked,
\* never gets to replace the map, whatever its threads were doing and however often
\* they had started again: the flags are not cleared again, and the threads that do
\* not see them leave no whole file.
CancelHeeded == ~disturbed => \A d \in told : at[d] \notin Renaming

=============================================================================

---------------------------- MODULE EventTimers ----------------------------
(***************************************************************************)
(* The timers of the Android event backend.  A C client arms a timer with  *)
(* event_add_timeout or event_add_idle; the JNI glue creates a NavitTimeout *)
(* object, which is a thread of its own.  The thread never calls C: it     *)
(* queues a tick on queue4 of the worker thread, which later calls the C   *)
(* callback whose address the timer carries.  All C clients run on the     *)
(* worker, so a timer can be removed and its callback freed by any handler *)
(* while ticks of it are still queued, or while its thread is just about   *)
(* to queue one.                                                           *)
(*                                                                         *)
(* A value of Timer is a NavitTimeout object; Collect returns an object    *)
(* nothing refers to any more to the pool.                                 *)
(***************************************************************************)
EXTENDS Naturals, Sequences

CONSTANTS
    Timer,       \* the NavitTimeout objects
    NoTimer,     \* "no timer": the null reference
    BatchLimit,  \* ticks handled per round of the worker (10 in the code)
    MaxQueue     \* bound on queue4, which the code does not bound

ASSUME TimerAssumption == NoTimer \notin Timer
ASSUME BatchAssumption == BatchLimit \in Nat \ {0}
ASSUME QueueAssumption == MaxQueue \in Nat

VARIABLES
    thread,    \* where the thread of each timer is
    running,   \* NavitTimeout.running
    multi,     \* NavitTimeout.event_multi
    callback,  \* the C callback each timer carries: "none", "live", "freed"
    queue4,    \* the ticks waiting for the worker
    worker,    \* where the worker thread is
    l5,        \* the tick in the worker's hands
    count,     \* count_timeout_callbacks
    closing    \* the timer the running C handler is taking down

vars == <<thread, running, multi, callback, queue4, worker, l5, count, closing>>

ThreadState == {"none", "loop", "sleep", "woken", "offer", "linger", "ended"}
WorkerState == {"other", "timeouts", "check", "call"}

TypeOK ==
    /\ thread \in [Timer -> ThreadState]
    /\ running \in [Timer -> BOOLEAN]
    /\ multi \in [Timer -> BOOLEAN]
    /\ callback \in [Timer -> {"none", "live", "freed"}]
    /\ queue4 \in Seq(Timer)
    /\ worker \in WorkerState
    /\ l5 \in Timer \union {NoTimer}
    /\ count \in 0 .. BatchLimit
    /\ closing \in Timer \union {NoTimer}

Init ==
    /\ thread = [t \in Timer |-> "none"]
    /\ running = [t \in Timer |-> FALSE]
    /\ multi = [t \in Timer |-> FALSE]
    /\ callback = [t \in Timer |-> "none"]
    /\ queue4 = <<>>
    /\ worker = "other"
    /\ l5 = NoTimer
    /\ count = 0
    /\ closing = NoTimer

-----------------------------------------------------------------------------
(* C clients.  They run inside a handler on the worker thread: a message,  *)
(* position or drawing handler ("other"), a position update polled between *)
(* two ticks ("timeouts"), or a timer callback ("call").  Only the check   *)
(* of a polled tick and the call it decides have no client between them.   *)

InHandler == worker \in {"other", "timeouts", "call"} /\ closing = NoTimer

\* callback_new and event_add_timeout / event_add_idle.
AddTimeout(t) ==
    /\ InHandler
    /\ thread[t] = "none"
    /\ \E m \in BOOLEAN : multi' = [multi EXCEPT ![t] = m]
    /\ thread' = [thread EXCEPT ![t] = "loop"]
    /\ running' = [running EXCEPT ![t] = TRUE]
    /\ callback' = [callback EXCEPT ![t] = "live"]
    /\ UNCHANGED <<queue4, worker, l5, count, closing>>

\* A client takes a timer down.  Every client that does has a repeating
\* timer: no active caller arms a single-shot one and removes it.
BeginClose(t) ==
    /\ InHandler
    /\ multi[t] /\ running[t]
    /\ closing' = t
    /\ UNCHANGED <<thread, running, multi, callback, queue4, worker, l5, count>>

\* event_remove_timeout / event_remove_idle: NavitTimeout.remove.  The
\* interrupt only shortens a sleep whose length is not modelled.
RemoveTimeout ==
    /\ closing # NoTimer
    /\ running[closing]
    /\ running' = [running EXCEPT ![closing] = FALSE]
    /\ UNCHANGED <<thread, multi, callback, queue4, worker, l5, count, closing>>

\* callback_destroy, before the removal (vehicle_destroy) or after it
\* (route_graph_build_done, vehicle_set_cursor).
DestroyCallback ==
    /\ closing # NoTimer
    /\ callback[closing] = "live"
    /\ callback' = [callback EXCEPT ![closing] = "freed"]
    /\ UNCHANGED <<thread, running, multi, queue4, worker, l5, count, closing>>

\* The handler goes on; a client may keep the callback (command_saved does).
EndClose ==
    /\ closing # NoTimer
    /\ ~running[closing]
    /\ closing' = NoTimer
    /\ UNCHANGED <<thread, running, multi, callback, queue4, worker, l5, count>>

-----------------------------------------------------------------------------
(* NavitTimeout.run, one action per read or write of shared state.         *)

Step(t, from, to) ==
    thread[t] = from /\ thread' = [thread EXCEPT ![t] = to]

\* while (running)
ThreadLoop(t) ==
    /\ Step(t, "loop", IF running[t] THEN "sleep" ELSE "linger")
    /\ UNCHANGED <<running, multi, callback, queue4, worker, l5, count, closing>>

\* Thread.sleep(event_timeout, 0) ends, in time or interrupted.
ThreadWake(t) ==
    /\ Step(t, "sleep", "woken")
    /\ UNCHANGED <<running, multi, callback, queue4, worker, l5, count, closing>>

\* if (running): a single-shot timer stops itself before it queues its tick.
ThreadTest(t) ==
    /\ Step(t, "woken", IF running[t] THEN "offer" ELSE "loop")
    /\ running' = [running EXCEPT ![t] = @ /\ multi[t]]
    /\ UNCHANGED <<multi, callback, queue4, worker, l5, count, closing>>

\* TimeoutCallback2: queue4.offer.
ThreadOffer(t) ==
    /\ Len(queue4) < MaxQueue
    /\ Step(t, "offer", "loop")
    /\ queue4' = Append(queue4, t)
    /\ UNCHANGED <<running, multi, callback, worker, l5, count, closing>>

\* The last sleep of run, after the loop.
ThreadEnd(t) ==
    /\ Step(t, "linger", "ended")
    /\ UNCHANGED <<running, multi, callback, queue4, worker, l5, count, closing>>

Referenced(t) == l5 = t \/ closing = t \/ \E i \in DOMAIN queue4 : queue4[i] = t

\* The thread is over and nothing refers to the object.
Collect(t) ==
    /\ ~Referenced(t)
    /\ Step(t, "ended", "none")
    /\ callback' = [callback EXCEPT ![t] = "none"]
    /\ UNCHANGED <<running, multi, queue4, worker, l5, count, closing>>

-----------------------------------------------------------------------------
(* The worker's share: the queue4 loop of CWorkerThread.run.               *)

\* Variant: the counter is advanced but never reset to zero.
WorkerEnterNoReset ==
    /\ worker = "other" /\ closing = NoTimer
    /\ worker' = "timeouts"
    /\ UNCHANGED <<thread, running, multi, callback, queue4, l5, count, closing>>

\* The rest of a round is over; the queue4 loop begins.
WorkerEnter ==
    /\ worker = "other" /\ closing = NoTimer
    /\ worker' = "timeouts"
    /\ count' = 0
    /\ UNCHANGED <<thread, running, multi, callback, queue4, l5, closing>>

\* Variant: the loop has no limit, like the loops over the other queues.
MoreTicksUnlimited == queue4 # <<>>

MoreTicks == count < BatchLimit /\ queue4 # <<>>

\* Variant: the polled tick is not counted.
WorkerPollUncounted ==
    /\ worker = "timeouts" /\ closing = NoTimer
    /\ MoreTicks
    /\ l5' = Head(queue4)
    /\ queue4' = Tail(queue4)
    /\ worker' = "check"
    /\ UNCHANGED <<thread, running, multi, callback, count, closing>>

WorkerPoll ==
    /\ worker = "timeouts" /\ closing = NoTimer
    /\ MoreTicks
    /\ count' = count + 1
    /\ l5' = Head(queue4)
    /\ queue4' = Tail(queue4)
    /\ worker' = "check"
    /\ UNCHANGED <<thread, running, multi, callback, closing>>

\* Variant for the mutation runs: the tick is trusted once it was queued.
CallableAlways(t) == TRUE

\* A tick is called when its timer still runs, or is a single-shot one.
Callable(t) == running[t] \/ ~multi[t]

WorkerCheck ==
    /\ worker = "check"
    /\ worker' = IF Callable(l5) THEN "call" ELSE "timeouts"
    /\ UNCHANGED <<thread, running, multi, callback, queue4, l5, count, closing>>

\* The C callback returns (it may have removed any timer, its own included).
WorkerReturn ==
    /\ worker = "call" /\ closing = NoTimer
    /\ worker' = "timeouts"
    /\ UNCHANGED <<thread, running, multi, callback, queue4, l5, count, closing>>

WorkerLeave ==
    /\ worker = "timeouts" /\ closing = NoTimer
    /\ ~MoreTicks
    /\ worker' = "other"
    /\ UNCHANGED <<thread, running, multi, callback, queue4, l5, count, closing>>

-----------------------------------------------------------------------------
Client == (\E t \in Timer : AddTimeout(t) \/ BeginClose(t))
             \/ RemoveTimeout \/ DestroyCallback \/ EndClose

Thread(t) == ThreadLoop(t) \/ ThreadWake(t) \/ ThreadTest(t) \/ ThreadOffer(t)
                \/ ThreadEnd(t)

Worker == WorkerEnter \/ WorkerPoll \/ WorkerCheck \/ WorkerReturn \/ WorkerLeave

Next == Client \/ Worker \/ (\E t \in Timer : Thread(t) \/ Collect(t))

\* Threads are scheduled and sleeps end; a handler that began to take a timer
\* down finishes, and no handler arms and removes timers for ever (SF: each
\* takedown disables the worker for a while).  Arming and removing are
\* the clients' choice, and nothing obliges the garbage collector.
Fairness ==
    /\ SF_vars(Worker)
    /\ WF_vars(RemoveTimeout \/ EndClose)
    /\ \A t \in Timer : WF_vars(ThreadLoop(t) \/ ThreadWake(t) \/ ThreadTest(t) \/ ThreadEnd(t))
                            /\ SF_vars(ThreadOffer(t))

Spec == Init /\ [][Next]_vars

FairSpec == Spec /\ Fairness

-----------------------------------------------------------------------------
(* Properties.                                                             *)

\* The worker never enters a C callback that was freed: the check of
\* nt.running in the queue4 loop is made when the tick is taken, not when it
\* is queued, and so covers ticks queued before and after the removal.
DispatchLive ==
    [][worker = "check" /\ worker' = "call" => callback[l5] = "live"]_vars

\* However fast timers tick, the worker leaves the queue4 loop and returns to
\* positions, messages and drawing.
RoundEnds == worker = "timeouts" ~> worker = "other"

\* A repeating timer is served again and again until it is removed.
TimerServed ==
    \A t \in Timer :
        running[t] /\ multi[t] ~> (worker = "call" /\ l5 = t) \/ ~running[t]

=============================================================================

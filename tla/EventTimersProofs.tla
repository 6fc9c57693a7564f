------------------------- MODULE EventTimersProofs -------------------------
(* What holds of the event timers for any number of timers, any queue      *)
(* bound and any batch limit.                                              *)
EXTENDS EventTimers, TLAPS

-----------------------------------------------------------------------------
(* The inductive invariant.  DispatchLive looks only at the tick in the    *)
(* worker's hands; what makes it true is where a freed callback can be.    *)

\* A repeating timer that runs has its callback, unless its own takedown is
\* under way; a single-shot one keeps its callback for as long as it exists.
CallbackKept ==
    \A t \in Timer :
        /\ multi[t] /\ running[t] /\ closing # t => callback[t] = "live"
        /\ ~multi[t] /\ thread[t] # "none" => callback[t] = "live"

\* An object that is not in use, or whose thread left the loop, is stopped.
StoppedAtEnd ==
    \A t \in Timer : thread[t] \in {"none", "linger", "ended"} => ~running[t]

\* Only a repeating timer that exists is taken down.
ClosingRepeats ==
    closing # NoTimer => multi[closing] /\ thread[closing] # "none"

\* Nothing in the queue or in the worker's hands was collected, and no client
\* runs between the check of a tick and its call.
TicksReferToTimers ==
    /\ \A i \in DOMAIN queue4 : thread[queue4[i]] # "none"
    /\ worker = "check" =>
          closing = NoTimer /\ l5 \in Timer /\ thread[l5] # "none"

IInv ==
    TypeOK /\ CallbackKept /\ StoppedAtEnd /\ ClosingRepeats /\ TicksReferToTimers

\* The type invariant and its companions hold at the start: no timer exists.
LEMMA InitIInv == Init => IInv
  BY TimerAssumption, BatchAssumption
  DEF Init, IInv, TypeOK, CallbackKept, StoppedAtEnd, ClosingRepeats,
      TicksReferToTimers, ThreadState, WorkerState

\* What the clients do in a handler, one step per action of Client.
LEMMA ClientIInv == IInv /\ Client => IInv'
<1> SUFFICES ASSUME IInv, Client PROVE IInv'
    OBVIOUS
<1> USE TimerAssumption, BatchAssumption
    DEF IInv, TypeOK, CallbackKept, StoppedAtEnd, ClosingRepeats,
        TicksReferToTimers, ThreadState, WorkerState
<1>1. ASSUME NEW t \in Timer, AddTimeout(t) PROVE IInv'
    BY <1>1 DEF AddTimeout, InHandler
<1>2. ASSUME NEW t \in Timer, BeginClose(t) PROVE IInv'
    BY <1>2 DEF BeginClose, InHandler
<1>3. CASE RemoveTimeout
    BY <1>3 DEF RemoveTimeout
<1>4. CASE DestroyCallback
    BY <1>4 DEF DestroyCallback
<1>5. CASE EndClose
    BY <1>5 DEF EndClose
<1> QED
    BY <1>1, <1>2, <1>3, <1>4, <1>5 DEF Client

\* What a timer's thread and the collector do.
LEMMA ThreadIInv ==
    ASSUME NEW t \in Timer PROVE IInv /\ (Thread(t) \/ Collect(t)) => IInv'
<1> SUFFICES ASSUME IInv, Thread(t) \/ Collect(t) PROVE IInv'
    OBVIOUS
<1> USE TimerAssumption, BatchAssumption
    DEF IInv, TypeOK, CallbackKept, StoppedAtEnd, ClosingRepeats,
        TicksReferToTimers, ThreadState, WorkerState, Step
<1>1. CASE ThreadLoop(t)
    BY <1>1 DEF ThreadLoop
<1>2. CASE ThreadWake(t)
    BY <1>2 DEF ThreadWake
<1>3. CASE ThreadTest(t)
    BY <1>3 DEF ThreadTest
<1>4. CASE ThreadOffer(t)
    BY <1>4 DEF ThreadOffer
<1>5. CASE ThreadEnd(t)
    BY <1>5 DEF ThreadEnd
<1>6. CASE Collect(t)
    BY <1>6 DEF Collect, Referenced
<1> QED
    BY <1>1, <1>2, <1>3, <1>4, <1>5, <1>6 DEF Thread

\* What the worker does with the queue.
LEMMA WorkerIInv == IInv /\ Worker => IInv'
<1> SUFFICES ASSUME IInv, Worker PROVE IInv'
    OBVIOUS
<1> USE TimerAssumption, BatchAssumption
    DEF IInv, TypeOK, CallbackKept, StoppedAtEnd, ClosingRepeats,
        TicksReferToTimers, ThreadState, WorkerState
<1>1. CASE WorkerEnter
    BY <1>1 DEF WorkerEnter
<1>2. CASE WorkerPoll
    BY <1>2 DEF WorkerPoll, MoreTicks
<1>3. CASE WorkerCheck
    BY <1>3 DEF WorkerCheck
<1>4. CASE WorkerReturn
    BY <1>4 DEF WorkerReturn
<1>5. CASE WorkerLeave
    BY <1>5 DEF WorkerLeave
<1> QED
    BY <1>1, <1>2, <1>3, <1>4, <1>5 DEF Worker

LEMMA NextIInv == IInv /\ [Next]_vars => IInv'
<1> SUFFICES ASSUME IInv, [Next]_vars PROVE IInv'
    OBVIOUS
<1>1. CASE Client
    BY <1>1, ClientIInv
<1>2. CASE Worker
    BY <1>2, WorkerIInv
<1>3. CASE \E t \in Timer : Thread(t) \/ Collect(t)
    BY <1>3, ThreadIInv
<1>4. CASE UNCHANGED vars
    BY <1>4 DEF vars, IInv, TypeOK, CallbackKept, StoppedAtEnd, ClosingRepeats,
                TicksReferToTimers
<1> QED
    BY <1>1, <1>2, <1>3, <1>4 DEF Next

THEOREM TimersIInv == Spec => []IInv
  BY InitIInv, NextIInv, PTL DEF Spec

\* Every variable keeps its type, whatever the number of timers.
THEOREM TimersTypeOK == Spec => []TypeOK
<1>1. IInv => TypeOK
    BY DEF IInv
<1> QED
    BY TimersIInv, <1>1, PTL

\* The worker never enters a callback that was freed (CWorkerThread.run's
\* check of nt.running covers every interleaving with the timer threads).
THEOREM TimersDispatchLive == Spec => DispatchLive
<1>1. ASSUME IInv, [Next]_vars
      PROVE  [worker = "check" /\ worker' = "call" => callback[l5] = "live"]_vars
    <2>1. SUFFICES ASSUME worker = "check", worker' = "call"
                   PROVE  callback[l5] = "live"
        OBVIOUS
    <2>2. closing = NoTimer /\ l5 \in Timer /\ thread[l5] # "none"
        BY <1>1, <2>1 DEF IInv, TicksReferToTimers
    <2>3. WorkerCheck
        BY <1>1, <2>1, <2>2
        DEF Next, vars, Client, Thread, Worker, AddTimeout, BeginClose,
            RemoveTimeout, DestroyCallback, EndClose, ThreadLoop, ThreadWake,
            ThreadTest, ThreadOffer, ThreadEnd, Collect, WorkerEnter, WorkerPoll,
            WorkerReturn, WorkerLeave
    <2>4. Callable(l5)
        BY <2>1, <2>3 DEF WorkerCheck
    <2>5. l5 # NoTimer
        BY <2>2, TimerAssumption
    <2> QED
        BY <1>1, <2>2, <2>4, <2>5 DEF Callable, IInv, CallbackKept, TypeOK
<1> QED
    BY <1>1, TimersIInv, PTL DEF Spec, DispatchLive

=============================================================================

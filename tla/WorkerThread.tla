---------------------------- MODULE WorkerThread ----------------------------
(***************************************************************************)
(* CWorkerThread of Navit.java: the thread that alone enters the C core.   *)
(* Other threads put events into one of eight queues and interrupt it; it  *)
(* sleeps when there is nothing to do and otherwise makes rounds over the  *)
(* queues, looking for GPS fixes in between.                               *)
(*                                                                         *)
(* An event is handed over in two steps (offer, then interrupt), the sleep *)
(* looks at two of the queues only, and a loop over a queue goes on as     *)
(* long as events keep coming: the properties are about what that does to  *)
(* the other queues.                                                       *)
(*                                                                         *)
(* Abstracted: the contents of the events (a number per kind), what the C  *)
(* core does with them, and the state of the timers (see EventTimers).     *)
(***************************************************************************)
EXTENDS Naturals, Sequences, FiniteSets

CONSTANTS
    FixThread,    \* threads with fixes: location listener, tunnel, demo vehicle
    Active,       \* kinds of events that arrive at all
    Flood,        \* kinds that arrive without end
    MaxSent,      \* bound on the events of each other kind
    MaxQueue,     \* bound on the queue of a kind in Flood
    TickBatch,    \* ticks handled per round, 10 in the code
    KeepFixes     \* fixes kept when a new one arrives, 5 in the code

\* The queues in the order of a round:
\* queue8, queue6, queue, queue5, queue4, queue3, queue7, queue2.
Rounds == <<"lowqual", "fix", "message", "size", "tick", "motion", "geo", "activity">>

Kind == {Rounds[i] : i \in DOMAIN Rounds}

ASSUME KindsAssumption ==
    /\ Flood \subseteq Active /\ Active \subseteq Kind
    /\ FixThread \intersect Kind = {} /\ IsFiniteSet(FixThread)
    /\ "fix" \notin Flood

\* Several threads have fixes; of another kind one event is handed over at a time.
Sender == FixThread \union (Kind \ {"fix"})

KindOf(t) == IF t \in FixThread THEN "fix" ELSE t
ASSUME BoundsAssumption ==
    /\ MaxSent \in Nat \ {0} /\ MaxQueue \in Nat \ {0}
    /\ TickBatch \in Nat \ {0} /\ KeepFixes \in Nat \ {0}

VARIABLES
    queue,        \* the queues: numbers of the events waiting, 0 in a flood
    sent,         \* how many events of a kind were offered
    producer,     \* where the threads that hand over events are
    interrupted,  \* the interrupt status of the worker
    core,         \* NavitMain: not asked for, asked for (startmain), run
    stage,        \* the queue whose loop runs, or where between the rounds
    step,         \* inside the loop of a queue: see Step
    count,        \* count_timeout_callbacks
    last,         \* the fix that the C core saw last
    drawn         \* the map was drawn with the last motion that was passed on

producers == <<sent, producer>>
worker == <<stage, step, count, last, drawn>>
vars == <<queue, producers, interrupted, core, worker>>

\* test: the loop's condition; polled: a motion is taken, and it is not decided
\* whether the map is drawn; call: in the C core; extra: the look at the fixes
\* that the loops of some queues contain.
Step == {"test", "polled", "call", "extra"}

TypeOK ==
    /\ queue \in [Kind -> Seq(Nat)]
    /\ sent \in [Kind -> Nat]
    /\ producer \in [Sender -> {"idle", "test", "drop", "offer", "wake"}]
    /\ interrupted \in BOOLEAN
    /\ core \in {"none", "asked", "run"}
    /\ stage \in Kind \union {"top", "sleep", "start"}
    /\ step \in Step
    /\ count \in 0 .. TickBatch
    /\ last \in Nat
    /\ drawn \in BOOLEAN

Init ==
    /\ queue = [k \in Kind |-> <<>>]
    /\ sent = [k \in Kind |-> 0]
    /\ producer = [t \in Sender |-> "idle"]
    /\ interrupted = FALSE
    /\ core = "none"
    /\ stage = "top"
    /\ step = "test"
    /\ count = 0
    /\ last = 0
    /\ drawn = TRUE

-----------------------------------------------------------------------------
(* The threads that hand over events.                                       *)

\* StartMain.
StartMain ==
    /\ core = "none"
    /\ core' = "asked"
    /\ interrupted' = TRUE
    /\ UNCHANGED <<queue, producers, worker>>

\* Variant: the main thread does not wait for the C core in onStart.
NoWaiting == core # "none"

\* The main thread waits in onStart until Global_Init_Finished, and timers are
\* made by the C core.
CoreReady == core = "run"

MoreToSend(k) ==
    IF k \in Flood THEN Len(queue[k]) < MaxQueue ELSE sent[k] < MaxSent

\* A thread has an event: MotionCallback, CallbackMessageChannel, ...
Begin(t) ==
    /\ CoreReady
    /\ KindOf(t) \in Active /\ producer[t] = "idle" /\ MoreToSend(KindOf(t))
    /\ producer' = [producer EXCEPT ![t] = IF t \in FixThread THEN "test" ELSE "offer"]
    /\ UNCHANGED <<queue, sent, interrupted, core, worker>>

\* Variant: an arriving fix does not make room in the queue.
TestFixesNever(t) ==
    /\ producer[t] = "test"
    /\ producer' = [producer EXCEPT ![t] = "offer"]
    /\ UNCHANGED <<queue, sent, interrupted, core, worker>>

\* VehicleCallback3 drops the oldest fixes; the worker, or another thread with a
\* fix, may take some of them between the test of the size and the poll.
TestFixes(t) ==
    /\ producer[t] = "test"
    /\ producer' = [producer EXCEPT ![t] =
                        IF Len(queue["fix"]) > KeepFixes THEN "drop" ELSE "offer"]
    /\ UNCHANGED <<queue, sent, interrupted, core, worker>>

\* Poll of a queue that may be empty.
Polled(s) == IF s = <<>> THEN s ELSE Tail(s)

\* Variant: the fix that came last is given up, and the new one with it.
DropNewest(t) ==
    /\ producer[t] = "drop"
    /\ queue' = [queue EXCEPT !["fix"] = IF @ = <<>> THEN @ ELSE SubSeq(@, 1, Len(@) - 1)]
    /\ producer' = [producer EXCEPT ![t] = "idle"]
    /\ UNCHANGED <<sent, interrupted, core, worker>>

DropFix(t) ==
    /\ producer[t] = "drop"
    /\ queue' = [queue EXCEPT !["fix"] = Polled(@)]
    /\ producer' = [producer EXCEPT ![t] = "test"]
    /\ UNCHANGED <<sent, interrupted, core, worker>>

\* Variant: the new event is put before the waiting ones.
OfferFirst(t) ==
    LET k == KindOf(t) IN
    /\ producer[t] = "offer"
    /\ sent' = IF k \in Flood THEN sent ELSE [sent EXCEPT ![k] = @ + 1]
    /\ queue' = [queue EXCEPT ![k] = <<sent'[k]>> \o @]
    /\ producer' = [producer EXCEPT ![t] = "wake"]
    /\ UNCHANGED <<interrupted, core, worker>>

Offer(t) ==
    LET k == KindOf(t) IN
    /\ producer[t] = "offer"
    /\ sent' = IF k \in Flood THEN sent ELSE [sent EXCEPT ![k] = @ + 1]
    /\ queue' = [queue EXCEPT ![k] = Append(@, sent'[k])]
    /\ producer' = [producer EXCEPT ![t] = "wake"]
    /\ UNCHANGED <<interrupted, core, worker>>

\* Variant: only the queues the worker tests before it sleeps need a call.
InterruptForgotten(t) ==
    /\ producer[t] = "wake"
    /\ interrupted' = (interrupted \/ KindOf(t) \in {"fix", "tick"})
    /\ producer' = [producer EXCEPT ![t] = "idle"]
    /\ UNCHANGED <<queue, sent, core, worker>>

Interrupt(t) ==
    /\ producer[t] = "wake"
    /\ interrupted' = TRUE
    /\ producer' = [producer EXCEPT ![t] = "idle"]
    /\ UNCHANGED <<queue, sent, core, worker>>

-----------------------------------------------------------------------------
(* The worker.                                                              *)

NextStage(k) == LET i == CHOOSE i \in DOMAIN Rounds : Rounds[i] = k
            IN  IF i = Len(Rounds) THEN "top" ELSE Rounds[i + 1]

At(s) == stage = s /\ UNCHANGED <<producers, core>>

\* Sleep only without ticks and fixes.
Top ==
    /\ At("top")
    /\ stage' = IF queue["tick"] = <<>> /\ queue["fix"] = <<>> THEN "sleep" ELSE "start"
    /\ UNCHANGED <<queue, interrupted, step, count, last, drawn>>

\* Thread.sleep(2000) ends by the time or by an interrupt, one that came before
\* it as well; the interrupt status is cleared in that case.
Awake ==
    /\ At("sleep")
    /\ interrupted' = FALSE
    /\ stage' = "start"
    /\ UNCHANGED <<queue, step, count, last, drawn>>

\* NavitMain and NavitActivity(3), once.
Start ==
    /\ stage = "start"
    /\ core' = IF core = "asked" THEN "run" ELSE core
    /\ stage' = Rounds[1]
    /\ UNCHANGED <<queue, producers, interrupted, step, count, last, drawn>>

\* Variant: all waiting ticks are handled.
MayTakeUnlimited(k) == queue[k] # <<>>

MayTake(k) == queue[k] # <<>> /\ (k = "tick" => count < TickBatch)

\* Variant: ticks are not counted.
TakeUncounted(k) ==
    /\ At(k) /\ MayTake(k)
    /\ step = IF k = "geo" THEN "extra" ELSE "test"
    /\ queue' = [queue EXCEPT ![k] = Tail(@)]
    /\ step' = IF k = "motion" THEN "polled" ELSE "call"
    /\ last' = IF k = "fix" THEN queue[k][1] ELSE last
    /\ UNCHANGED <<interrupted, stage, count, drawn>>

\* The loop of a queue takes an event.  queue7 first looks for a fix.
Take(k) ==
    /\ At(k) /\ MayTake(k)
    /\ step = IF k = "geo" THEN "extra" ELSE "test"
    /\ queue' = [queue EXCEPT ![k] = Tail(@)]
    /\ step' = IF k = "motion" THEN "polled" ELSE "call"
    /\ count' = IF k = "tick" THEN count + 1 ELSE count
    /\ last' = IF k = "fix" THEN queue[k][1] ELSE last
    /\ UNCHANGED <<interrupted, stage, drawn>>

\* Variant: the map is drawn for the motions that others follow.
DrawOthers(k) ==
    /\ At(k) /\ step = "polled"
    /\ drawn' = (queue[k] # <<>>)
    /\ step' = "call"
    /\ UNCHANGED <<queue, interrupted, stage, count, last>>

\* The test after the poll of a motion: the map is drawn when no other waits by now.
Draw(k) ==
    /\ At(k) /\ step = "polled"
    /\ drawn' = (queue[k] = <<>>)
    /\ step' = "call"
    /\ UNCHANGED <<queue, interrupted, stage, count, last>>

Extra == {"message", "tick", "geo"}

\* Variant: fixes wait for their turn in the next round.
FixBetweenNever(k) ==
    /\ At(k) /\ k \in Extra
    /\ IF k = "geo" THEN step = "test" /\ queue[k] # <<>> /\ step' = "extra"
                    ELSE step = "extra" /\ step' = "test"
    /\ UNCHANGED <<queue, last, interrupted, stage, count, drawn>>

\* The look at queue6: at most one fix, after an event or, in the loop of
\* queue7, before it.
FixBetween(k) ==
    /\ At(k) /\ k \in Extra
    /\ IF k = "geo" THEN step = "test" /\ queue[k] # <<>> /\ step' = "extra"
                    ELSE step = "extra" /\ step' = "test"
    /\ queue' = [queue EXCEPT !["fix"] = Polled(@)]
    /\ last' = IF queue["fix"] = <<>> THEN last ELSE queue["fix"][1]
    /\ UNCHANGED <<interrupted, stage, count, drawn>>

\* The C core returns.
Returned(k) ==
    /\ At(k) /\ step = "call"
    /\ step' = IF k \in Extra \ {"geo"} THEN "extra" ELSE "test"
    /\ UNCHANGED <<queue, interrupted, stage, count, last, drawn>>

\* The loop of a queue ends.
Leave(k) ==
    /\ At(k) /\ step = "test" /\ ~MayTake(k)
    /\ stage' = NextStage(k)
    /\ count' = 0
    /\ UNCHANGED <<queue, interrupted, step, last, drawn>>

Loop(k) == Take(k) \/ Draw(k) \/ FixBetween(k) \/ Returned(k) \/ Leave(k)

Worker == Top \/ Awake \/ Start \/ \E k \in Kind : Loop(k)

HandOver(t) == TestFixes(t) \/ DropFix(t) \/ Offer(t) \/ Interrupt(t)

Next == StartMain \/ Worker \/ \E t \in Sender : Begin(t) \/ HandOver(t)

Spec == Init /\ [][Next]_vars

\* The worker and a thread that has begun to hand over an event go on.
Fairness == WF_vars(Worker) /\ \A t \in Sender : WF_vars(HandOver(t))

FairSpec == Spec /\ Fairness

-----------------------------------------------------------------------------
(* Properties.                                                              *)

\* No lost wakeup: an event that waits while the worker sleeps has interrupted
\* it or is about to, although the worker tests only two of the eight queues.
NoLostWakeup ==
    stage = "sleep" /\ ~interrupted =>
        \A k \in Kind : queue[k] # <<>> =>
            \E t \in Sender : KindOf(t) = k /\ producer[t] = "wake"

\* Nothing reaches the C core before NavitMain has run.
CoreFirst == step = "call" => core = "run"

\* The queue of fixes stays short: each thread with fixes adds at most one to
\* those that are kept, although the test of the size and the offer are apart.
FixesBounded == Len(queue["fix"]) <= KeepFixes + Cardinality(FixThread)

\* The C core sees the fixes in the order they came, each at most once.
FixesInOrder ==
    /\ \A i \in DOMAIN queue["fix"] : last < queue["fix"][i]
    /\ \A i, j \in DOMAIN queue["fix"] : i < j => queue["fix"][i] < queue["fix"][j]

\* Making room never loses the newest fix, whatever the worker and the other
\* threads poll meanwhile.
NewestFixKept ==
    sent["fix"] > 0 /\ (\A t \in FixThread : producer[t] \in {"idle", "wake"}) =>
        \/ last = sent["fix"]
        \/ \E i \in DOMAIN queue["fix"] : queue["fix"][i] = sent["fix"]

\* While motions are skipped to catch up, the last one is still drawn: also when
\* another comes between the poll and the test that decides, or after it.
LastMotionDrawn == queue["motion"] = <<>> /\ step # "polled" => drawn

\* A fix does not wait for a flood of other events to end.
FixServed ==
    \A n \in 1 .. MaxSent :
        (\E i \in DOMAIN queue["fix"] : queue["fix"][i] = n) ~>
            ~(\E i \in DOMAIN queue["fix"] : queue["fix"][i] = n)

\* The other queues are served however fast the timers tick.
AllServed ==
    \A k \in Kind \ Flood : queue[k] # <<>> ~> queue[k] = <<>>

=============================================================================

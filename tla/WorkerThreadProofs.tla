------------------------- MODULE WorkerThreadProofs -------------------------
(***************************************************************************)
(* What WorkerThread keeps for any set of threads, any kinds of events in  *)
(* any number and any bounds: no wakeup is lost, nothing is handed to the  *)
(* C core before NavitMain, the fixes stay in order and few, the newest of *)
(* them is kept, and the last motion is drawn.                             *)
(***************************************************************************)
EXTENDS WorkerThread, FiniteSetTheorems, TLAPS

-----------------------------------------------------------------------------
(* The order of the queues in a round.                                      *)

\* The stages that come before the loop of queue k in a round.
Before(k) ==
    CASE k = "lowqual" -> {}
      [] k = "fix" -> {"lowqual"}
      [] k = "message" -> {"lowqual", "fix"}
      [] k = "size" -> {"lowqual", "fix", "message"}
      [] k = "tick" -> {"lowqual", "fix", "message", "size"}
      [] k = "motion" -> {"lowqual", "fix", "message", "size", "tick"}
      [] k = "geo" -> {"lowqual", "fix", "message", "size", "tick", "motion"}
      [] k = "activity" -> {"lowqual", "fix", "message", "size", "tick", "motion", "geo"}

\* The eight kinds, and the loop that follows each.
LEMMA Kinds ==
    Kind = {"lowqual", "fix", "message", "size", "tick", "motion", "geo", "activity"}
<1>1. DOMAIN Rounds = 1 .. 8
  BY DEF Rounds
<1>2. /\ Rounds[1] = "lowqual" /\ Rounds[2] = "fix" /\ Rounds[3] = "message"
      /\ Rounds[4] = "size" /\ Rounds[5] = "tick" /\ Rounds[6] = "motion"
      /\ Rounds[7] = "geo" /\ Rounds[8] = "activity"
  BY DEF Rounds
<1>3. \A i \in 1 .. 8 : i \in {1, 2, 3, 4, 5, 6, 7, 8}
  OBVIOUS
<1> QED BY <1>1, <1>2, <1>3 DEF Kind

LEMMA NextStages ==
    /\ NextStage("lowqual") = "fix" /\ NextStage("fix") = "message"
    /\ NextStage("message") = "size" /\ NextStage("size") = "tick"
    /\ NextStage("tick") = "motion" /\ NextStage("motion") = "geo"
    /\ NextStage("geo") = "activity" /\ NextStage("activity") = "top"
<1>1. DOMAIN Rounds = 1 .. 8 /\ Len(Rounds) = 8
  BY DEF Rounds
<1>2. /\ Rounds[1] = "lowqual" /\ Rounds[2] = "fix" /\ Rounds[3] = "message"
      /\ Rounds[4] = "size" /\ Rounds[5] = "tick" /\ Rounds[6] = "motion"
      /\ Rounds[7] = "geo" /\ Rounds[8] = "activity"
  BY DEF Rounds
<1>3. \A i, j \in 1 .. 8 : Rounds[i] = Rounds[j] => i = j
  BY <1>2
<1>4. ASSUME NEW n \in 1 .. 8
      PROVE  NextStage(Rounds[n]) = IF n = 8 THEN "top" ELSE Rounds[n + 1]
  <2> DEFINE c == CHOOSE i \in DOMAIN Rounds : Rounds[i] = Rounds[n]
  <2>1. c \in DOMAIN Rounds /\ Rounds[c] = Rounds[n]
    BY <1>1
  <2>2. c = n
    BY <1>1, <1>3, <2>1
  <2> QED BY <1>1, <2>2 DEF NextStage
<1> QED BY <1>2, <1>4

-----------------------------------------------------------------------------
(* Types, and no lost wakeup.                                               *)

\* An event in queue k that no interrupt is pending for: its thread is about to
\* interrupt, or this round has not passed the queue.
Noticed(k) ==
    \/ interrupted
    \/ \E t \in Sender : KindOf(t) = k /\ producer[t] = "wake"
    \/ stage = "start" \/ stage \in Before(k) \union {k}
    \/ k \in {"tick", "fix"} /\ stage # "sleep"

WakeupInv == \A k \in Kind : queue[k] # <<>> => Noticed(k)

\* Nobody hands over an event before NavitMain has run.
CoreInv ==
    core # "run" =>
        /\ \A k \in Kind : queue[k] = <<>>
        /\ \A t \in Sender : producer[t] = "idle"
        /\ step \notin {"polled", "call"}

IInv == TypeOK /\ WakeupInv /\ CoreInv

LEMMA SenderKind == \A t \in Sender : KindOf(t) \in Kind
<1>1. "fix" \in Kind
  BY Kinds
<1> QED BY <1>1 DEF Sender, KindOf

LEMMA InitIInv == Init => IInv
<1> SUFFICES ASSUME Init PROVE IInv
  OBVIOUS
<1>1. TypeOK
  <2>1. queue \in [Kind -> Seq(Nat)]
    <3>1. <<>> \in Seq(Nat)
      OBVIOUS
    <3> QED BY <3>1 DEF Init
  <2>2. 0 \in 0 .. TickBatch /\ "test" \in Step
    BY BoundsAssumption DEF Step
  <2> QED BY <2>1, <2>2 DEF Init, TypeOK
<1> QED BY <1>1 DEF Init, IInv, WakeupInv, CoreInv

\* Handing over.
LEMMA HandOverIInv ==
    ASSUME IInv, NEW t \in Sender, Begin(t) \/ HandOver(t) PROVE IInv'
<1> DEFINE k == KindOf(t)
<1>0. k \in Kind /\ "fix" \in Kind /\ TypeOK /\ WakeupInv /\ CoreInv
  BY SenderKind, Kinds DEF IInv
<1>1. CASE Begin(t)
  <2>1. TypeOK'
    BY <1>0, <1>1 DEF Begin, TypeOK, worker
  <2>2. WakeupInv'
    BY <1>0, <1>1 DEF Begin, TypeOK, WakeupInv, Noticed, worker
  <2>3. CoreInv'
    BY <1>0, <1>1 DEF Begin, CoreReady, CoreInv, worker
  <2> QED BY <2>1, <2>2, <2>3 DEF IInv
<1>2. CASE TestFixes(t)
  <2>1. TypeOK'
    BY <1>0, <1>2 DEF TestFixes, TypeOK, worker
  <2>2. WakeupInv'
    BY <1>0, <1>2 DEF TestFixes, TypeOK, WakeupInv, Noticed, worker
  <2>3. CoreInv'
    BY <1>0, <1>2 DEF TestFixes, CoreInv, worker
  <2> QED BY <2>1, <2>2, <2>3 DEF IInv
<1>3. CASE DropFix(t)
  <2>1. /\ queue' \in [Kind -> Seq(Nat)]
        /\ \A j \in Kind : queue'[j] # <<>> => queue[j] # <<>>
    BY <1>0, <1>3 DEF DropFix, Polled, TypeOK
  <2>2. TypeOK'
    BY <1>0, <1>3, <2>1 DEF DropFix, TypeOK, worker
  <2>3. WakeupInv'
    BY <1>0, <1>3, <2>1 DEF DropFix, TypeOK, WakeupInv, Noticed, worker
  <2>4. CoreInv'
    BY <1>0, <1>3, <2>1 DEF DropFix, CoreInv, worker
  <2> QED BY <2>2, <2>3, <2>4 DEF IInv
<1>4. CASE Offer(t)
  <2>1. sent' \in [Kind -> Nat]
    BY <1>0, <1>4 DEF Offer, TypeOK
  <2>2. /\ queue' \in [Kind -> Seq(Nat)]
        /\ \A j \in Kind : j # k => queue'[j] = queue[j]
    BY <1>0, <1>4, <2>1 DEF Offer, TypeOK
  <2>3. TypeOK'
    BY <1>0, <1>4, <2>1, <2>2 DEF Offer, TypeOK, worker
  <2>4. producer'[t] = "wake" /\ \A s \in Sender : producer[s] = "wake" => producer'[s] = "wake"
    BY <1>0, <1>4 DEF Offer, TypeOK
  <2>5. WakeupInv'
    <3> SUFFICES ASSUME NEW j \in Kind, queue'[j] # <<>> PROVE Noticed(j)'
      BY DEF WakeupInv
    <3>1. CASE j = k
      BY <2>4, <3>1 DEF Noticed
    <3>2. CASE j # k
      <4>1. Noticed(j)
        BY <1>0, <2>2, <3>2 DEF WakeupInv
      <4> QED BY <1>4, <2>4, <4>1 DEF Offer, Noticed, worker
    <3> QED BY <3>1, <3>2
  <2>6. CoreInv'
    BY <1>0, <1>4 DEF Offer, CoreInv, worker
  <2> QED BY <2>3, <2>5, <2>6 DEF IInv
<1>5. CASE Interrupt(t)
  <2>1. TypeOK'
    BY <1>0, <1>5 DEF Interrupt, TypeOK, worker
  <2>2. WakeupInv'
    BY <1>5 DEF Interrupt, WakeupInv, Noticed
  <2>3. CoreInv'
    BY <1>0, <1>5 DEF Interrupt, CoreInv, worker
  <2> QED BY <2>1, <2>2, <2>3 DEF IInv
<1> QED BY <1>1, <1>2, <1>3, <1>4, <1>5 DEF HandOver

\* The worker between the rounds.
LEMMA RoundIInv == IInv /\ (StartMain \/ Top \/ Awake \/ Start) => IInv'
<1> SUFFICES ASSUME IInv, StartMain \/ Top \/ Awake \/ Start PROVE IInv'
  OBVIOUS
<1>0. "fix" \in Kind /\ "tick" \in Kind /\ TypeOK /\ WakeupInv /\ CoreInv
  BY Kinds DEF IInv
<1>1. CASE StartMain
  <2>1. TypeOK'
    BY <1>0, <1>1 DEF StartMain, TypeOK, producers, worker
  <2> QED BY <1>0, <1>1, <2>1
       DEF StartMain, IInv, WakeupInv, Noticed, CoreInv, producers, worker
<1>2. CASE Top
  <2>1. TypeOK'
    BY <1>0, <1>2 DEF Top, At, TypeOK, producers
  <2>2. WakeupInv'
    <3> SUFFICES ASSUME NEW k \in Kind, queue[k] # <<>> PROVE Noticed(k)'
      BY <1>2 DEF Top, WakeupInv
    <3>1. Noticed(k) /\ stage = "top" /\ stage \notin Before(k) \union {k}
      BY <1>0, <1>2, Kinds DEF WakeupInv, Top, At, Before
    <3>2. CASE stage' = "start"
      BY <3>2 DEF Noticed
    <3>3. CASE stage' = "sleep" /\ k \notin {"tick", "fix"}
      BY <1>2, <3>1, <3>3 DEF Top, At, Noticed, producers
    <3>4. CASE stage' = "sleep" /\ k \in {"tick", "fix"}
      BY <1>2, <3>4 DEF Top
    <3> QED BY <1>2, <3>2, <3>3, <3>4 DEF Top
  <2> QED BY <1>0, <1>2, <2>1, <2>2 DEF Top, At, IInv, CoreInv, producers
<1>3. CASE Awake
  <2>1. TypeOK'
    BY <1>0, <1>3 DEF Awake, At, TypeOK, producers
  <2> QED BY <1>0, <1>3, <2>1 DEF Awake, At, IInv, WakeupInv, Noticed, CoreInv, producers
<1>4. CASE Start
  <2>1. Rounds[1] = "lowqual" /\ "lowqual" \in Kind
    BY Kinds DEF Rounds
  <2>2. TypeOK'
    BY <1>0, <1>4, <2>1 DEF Start, TypeOK, producers
  <2>3. \A k \in Kind : "lowqual" \in Before(k) \union {k}
    BY Kinds DEF Before
  <2>4. WakeupInv'
    BY <1>4, <2>1, <2>3 DEF Start, WakeupInv, Noticed
  <2>5. CoreInv'
    BY <1>0, <1>4 DEF Start, CoreInv, producers
  <2> QED BY <2>2, <2>4, <2>5 DEF IInv
<1> QED BY <1>1, <1>2, <1>3, <1>4

\* The loop of a queue.
LEMMA LoopIInv == ASSUME IInv, NEW k \in Kind, Loop(k) PROVE IInv'
<1>0. "fix" \in Kind /\ "tick" \in Kind /\ TypeOK /\ WakeupInv /\ CoreInv
  BY Kinds DEF IInv
<1>a. stage = k /\ stage \in Kind
  BY DEF Loop, Take, Draw, FixBetween, Returned, Leave, At
<1>1. ASSUME queue' \in [Kind -> Seq(Nat)],
             \A j \in Kind : queue'[j] # <<>> => queue[j] # <<>>,
             UNCHANGED <<producers, interrupted, core, stage>>, TypeOK',
             core = "run" \/ step' \notin {"polled", "call"}
      PROVE  IInv'
  BY <1>0, <1>1 DEF IInv, WakeupInv, Noticed, CoreInv, producers
<1>2. CASE Take(k)
  <2>1. /\ queue' \in [Kind -> Seq(Nat)] /\ queue[k] \in Seq(Nat) /\ queue[k] # <<>>
        /\ \A j \in Kind : queue'[j] # <<>> => queue[j] # <<>>
    BY <1>0, <1>2 DEF Take, MayTake, TypeOK
  <2>2. queue[k][1] \in Nat
    BY <2>1
  <2>3. count' \in 0 .. TickBatch
    BY <1>0, <1>2, BoundsAssumption DEF Take, MayTake, TypeOK
  <2>4. TypeOK'
    BY <1>0, <1>2, <2>1, <2>2, <2>3 DEF Take, At, TypeOK, Step, producers
  <2>5. core = "run"
    BY <1>0, <2>1 DEF CoreInv
  <2> QED BY <1>1, <1>2, <2>1, <2>4, <2>5 DEF Take, At
<1>6. CASE Draw(k)
  <2>1. TypeOK'
    BY <1>0, <1>6 DEF Draw, At, TypeOK, Step, producers
  <2>2. core = "run"
    BY <1>0, <1>6 DEF Draw, CoreInv
  <2> QED BY <1>0, <1>1, <1>6, <2>1, <2>2 DEF Draw, At, TypeOK
<1>3. CASE FixBetween(k)
  <2>1. /\ queue' \in [Kind -> Seq(Nat)]
        /\ \A j \in Kind : queue'[j] # <<>> => queue[j] # <<>>
    BY <1>0, <1>3 DEF FixBetween, Polled, TypeOK
  <2>2. queue["fix"] # <<>> => queue["fix"][1] \in Nat
    BY <1>0 DEF TypeOK
  <2>3. TypeOK'
    BY <1>0, <1>3, <2>1, <2>2 DEF FixBetween, At, TypeOK, Step, producers
  <2> QED BY <1>1, <1>3, <2>1, <2>3 DEF FixBetween, At
<1>4. CASE Returned(k)
  <2>1. TypeOK'
    BY <1>0, <1>4 DEF Returned, At, TypeOK, Step, producers
  <2> QED BY <1>0, <1>1, <1>4, <2>1 DEF Returned, At, TypeOK
<1>5. CASE Leave(k)
  <2>1. NextStage(k) \in Kind \union {"top"}
    BY Kinds, NextStages
  <2>2. TypeOK'
    BY <1>0, <1>5, <2>1, BoundsAssumption DEF Leave, At, TypeOK, producers
  <2>3. \A j \in Kind : k \in Before(j) => NextStage(k) \in Before(j) \union {j}
    BY Kinds, NextStages DEF Before
  <2>4. stage' # "sleep"
    BY <1>5, <2>1, Kinds DEF Leave
  <2>5. WakeupInv'
    <3> SUFFICES ASSUME NEW j \in Kind, queue[j] # <<>> PROVE Noticed(j)'
      BY <1>5 DEF Leave, WakeupInv
    <3>1. Noticed(j) /\ UNCHANGED <<interrupted, producer>>
      BY <1>0, <1>5 DEF WakeupInv, Leave, At, producers
    <3>2. CASE k \in Before(j)
      BY <1>5, <2>3, <3>2 DEF Leave, Noticed
    <3>3. CASE j \in {"tick", "fix"}
      BY <2>4, <3>3 DEF Noticed
    <3>4. CASE j = k /\ j \notin {"tick", "fix"}
      BY <1>5, <3>4 DEF Leave, MayTake
    <3>5. CASE k \notin Before(j) /\ j # k /\ j \notin {"tick", "fix"}
      <4>1. k # "start"
        BY Kinds
      <4> QED BY <1>a, <3>1, <3>5, <4>1 DEF Noticed
    <3> QED BY <3>2, <3>3, <3>4, <3>5
  <2> QED BY <1>0, <1>5, <2>2, <2>5 DEF Leave, At, IInv, CoreInv, producers
<1> QED BY <1>2, <1>3, <1>4, <1>5, <1>6 DEF Loop

\* The invariant holds in every reachable state.
THEOREM WorkerIInv == Spec => []IInv
<1>1. ASSUME IInv, [Next]_vars PROVE IInv'
  <2>1. CASE UNCHANGED vars
    BY <1>1, <2>1 DEF vars, producers, worker, IInv, TypeOK, WakeupInv, Noticed, CoreInv
  <2> QED BY <1>1, <2>1, HandOverIInv, RoundIInv, LoopIInv DEF Next, Worker
<1> QED BY <1>1, InitIInv, PTL DEF Spec

\* Every variable keeps its type; no more ticks are counted than a round allows.
THEOREM WorkerTypeOK == Spec => []TypeOK
<1>1. IInv => TypeOK
  BY DEF IInv
<1> QED BY <1>1, WorkerIInv, PTL

\* No lost wakeup, although the worker tests two of its eight queues before it
\* sleeps: an event waits for a sleeping worker only until its own thread, which
\* is at that step, interrupts the worker.
THEOREM WorkerNoLostWakeup == Spec => []NoLostWakeup
<1>1. IInv => NoLostWakeup
  <2> SUFFICES ASSUME IInv, stage = "sleep", ~interrupted, NEW k \in Kind, queue[k] # <<>>
               PROVE  \E t \in Sender : KindOf(t) = k /\ producer[t] = "wake"
    BY DEF NoLostWakeup
  <2>1. Noticed(k)
    BY DEF IInv, WakeupInv
  <2>2. stage \notin Before(k) \union {k}
    BY Kinds DEF Before
  <2> QED BY <2>1, <2>2 DEF Noticed
<1> QED BY <1>1, WorkerIInv, PTL

\* Nothing reaches the C core before NavitMain has run.
THEOREM WorkerCoreFirst == Spec => []CoreFirst
<1>1. IInv => CoreFirst
  BY DEF IInv, CoreInv, CoreFirst
<1> QED BY <1>1, WorkerIInv, PTL

-----------------------------------------------------------------------------
(* The fixes.                                                               *)

Fixes == queue["fix"]

\* The waiting fixes are newer than the last one seen and in order.
OrderInv ==
    /\ \A i \in DOMAIN Fixes : last < Fixes[i] /\ Fixes[i] <= sent["fix"]
    /\ \A i, j \in DOMAIN Fixes : i < j => Fixes[i] < Fixes[j]
    /\ last <= sent["fix"]

\* The threads that are past the test of the size.
Offering == {t \in FixThread : producer[t] = "offer"}

BoundInv == Len(Fixes) + Cardinality(Offering) <= KeepFixes + Cardinality(FixThread)

FInv == IInv /\ OrderInv /\ BoundInv

\* Without its first fix the queue is still in order and shorter.
LEMMA TailInOrder ==
    ASSUME NEW s \in Seq(Nat), s # <<>>, NEW n \in Nat, NEW l \in Nat,
           \A i \in DOMAIN s : l < s[i] /\ s[i] <= n,
           \A i, j \in DOMAIN s : i < j => s[i] < s[j]
    PROVE  /\ Tail(s) \in Seq(Nat) /\ Len(Tail(s)) = Len(s) - 1
           /\ s[1] \in Nat /\ l < s[1] /\ s[1] <= n
           /\ \A i \in DOMAIN Tail(s) : s[1] < Tail(s)[i] /\ Tail(s)[i] <= n
           /\ \A i, j \in DOMAIN Tail(s) : i < j => Tail(s)[i] < Tail(s)[j]
<1>1. /\ Tail(s) \in Seq(Nat) /\ Len(Tail(s)) = Len(s) - 1
      /\ \A i \in DOMAIN Tail(s) : Tail(s)[i] = s[i + 1] /\ i + 1 \in DOMAIN s /\ 1 < i + 1
      /\ 1 \in DOMAIN s
  OBVIOUS
<1>2. \A i, j \in DOMAIN Tail(s) : i < j => i + 1 < j + 1
  BY <1>1
<1>3. \A i, j \in DOMAIN Tail(s) : i < j => Tail(s)[i] < Tail(s)[j]
  BY <1>1, <1>2
<1> QED BY <1>1, <1>3

LEMMA OfferingFinite ==
    /\ IsFiniteSet(Offering) /\ Cardinality(Offering) \in Nat
    /\ Cardinality(FixThread) \in Nat /\ Cardinality(Offering) <= Cardinality(FixThread)
<1>1. Offering \subseteq FixThread
  BY DEF Offering
<1> QED BY <1>1, KindsAssumption, FS_Subset, FS_CardinalityType

LEMMA InitFInv == Init => FInv
<1> SUFFICES ASSUME Init PROVE FInv
  OBVIOUS
<1>1. "fix" \in Kind
  BY Kinds
<1>2. Fixes = <<>> /\ sent["fix"] = 0 /\ last = 0
  BY <1>1 DEF Init, Fixes
<1>3. Cardinality(Offering) = 0
  <2>1. FixThread \subseteq Sender
    BY DEF Sender
  <2>2. Offering = {}
    BY <2>1 DEF Init, Offering
  <2> QED BY <2>2, FS_EmptySet
<1>4. BoundInv
  BY <1>2, <1>3, OfferingFinite, BoundsAssumption DEF BoundInv
<1>5. OrderInv
  BY <1>2 DEF OrderInv
<1> QED BY <1>4, <1>5, InitIInv DEF FInv

\* A step that leaves the fixes and the threads that offer them alone.
LEMMA FixesUntouched ==
    ASSUME OrderInv, BoundInv,
           Fixes' = Fixes, sent'["fix"] = sent["fix"], last' = last,
           Offering' = Offering
    PROVE  OrderInv' /\ BoundInv'
  BY DEF OrderInv, BoundInv

\* The worker, or a thread that makes room, polls the queue of fixes.
LEMMA FixPolled ==
    ASSUME TypeOK, OrderInv, BoundInv, Fixes # <<>>,
           Fixes' = Tail(Fixes), sent' = sent, last' \in {last, Fixes[1]},
           Offering' = Offering
    PROVE  OrderInv' /\ BoundInv'
<1>1. Fixes \in Seq(Nat) /\ last \in Nat /\ sent["fix"] \in Nat
  BY Kinds DEF TypeOK, Fixes
<1>2. /\ Len(Fixes') = Len(Fixes) - 1 /\ Fixes' \in Seq(Nat)
      /\ Fixes[1] \in Nat /\ last < Fixes[1] /\ Fixes[1] <= sent["fix"]
      /\ \A i \in DOMAIN Fixes' : Fixes[1] < Fixes'[i] /\ Fixes'[i] <= sent["fix"]
      /\ \A i, j \in DOMAIN Fixes' : i < j => Fixes'[i] < Fixes'[j]
  BY <1>1, TailInOrder DEF OrderInv
<1>3. \A i \in DOMAIN Fixes' : Fixes'[i] \in Nat
  BY <1>2
<1>4. OrderInv'
  BY <1>1, <1>2, <1>3 DEF OrderInv
<1>5. BoundInv'
  BY <1>1, <1>2, OfferingFinite, BoundsAssumption DEF BoundInv
<1> QED BY <1>4, <1>5

LEMMA SenderFInv ==
    ASSUME FInv, NEW t \in Sender, Begin(t) \/ HandOver(t) PROVE OrderInv' /\ BoundInv'
<1>0. /\ TypeOK /\ OrderInv /\ BoundInv /\ "fix" \in Kind
      /\ FixThread \subseteq Sender /\ Fixes \in Seq(Nat) /\ sent["fix"] \in Nat
  BY Kinds DEF FInv, IInv, Sender, TypeOK, Fixes
<1>1. CASE Begin(t)
  <2>1. Offering' = Offering
    BY <1>0, <1>1, KindsAssumption DEF Begin, Offering, TypeOK
  <2> QED BY <1>0, <1>1, <2>1, FixesUntouched DEF Begin, Fixes, worker
<1>2. CASE TestFixes(t)
  <2>1. CASE producer'[t] = "drop"
    <3>1. Offering' = Offering
      BY <1>0, <1>2, <2>1 DEF TestFixes, Offering, TypeOK
    <3> QED BY <1>0, <1>2, <3>1, FixesUntouched DEF TestFixes, Fixes, worker
  <2>2. CASE Len(Fixes) <= KeepFixes
    <3>1. OrderInv'
      BY <1>0, <1>2 DEF TestFixes, OrderInv, Fixes, worker
    <3>2. Fixes' = Fixes /\ Len(Fixes) \in Nat
      BY <1>0, <1>2 DEF TestFixes, Fixes
    <3>3. /\ Cardinality(Offering') \in Nat
          /\ Cardinality(Offering') <= Cardinality(FixThread)
          /\ Cardinality(FixThread) \in Nat
      <4>1. Offering' \subseteq FixThread
        BY DEF Offering
      <4> QED BY <4>1, KindsAssumption, FS_Subset, FS_CardinalityType
    <3>4. BoundInv'
      BY <2>2, <3>2, <3>3, BoundsAssumption DEF BoundInv
    <3> QED BY <3>1, <3>4
  <2> QED BY <1>0, <1>2, <2>1, <2>2, BoundsAssumption DEF TestFixes, Fixes, TypeOK
<1>3. CASE DropFix(t)
  <2>1. Offering' = Offering
    BY <1>0, <1>3 DEF DropFix, Offering, TypeOK
  <2>2. Fixes' = Polled(Fixes)
    BY <1>0, <1>3 DEF DropFix, Fixes, TypeOK
  <2>3. CASE Fixes = <<>>
    BY <1>0, <1>3, <2>1, <2>2, <2>3, FixesUntouched DEF DropFix, Polled, worker
  <2>4. CASE Fixes # <<>>
    BY <1>0, <1>3, <2>1, <2>2, <2>4, FixPolled DEF DropFix, Polled, worker
  <2> QED BY <2>3, <2>4
<1>4. CASE Offer(t)
  <2>1. CASE t \notin FixThread
    <3>1. KindOf(t) # "fix"
      BY <2>1 DEF KindOf, Sender
    <3>2. Fixes' = Fixes /\ sent'["fix"] = sent["fix"]
      BY <1>0, <1>4, <3>1 DEF Offer, Fixes, TypeOK
    <3>3. Offering' = Offering
      BY <1>0, <1>4, <2>1 DEF Offer, Offering, TypeOK
    <3> QED BY <1>0, <1>4, <3>2, <3>3, FixesUntouched DEF Offer, worker
  <2>2. CASE t \in FixThread
    <3>1. KindOf(t) = "fix"
      BY <2>2 DEF KindOf
    <3>2. sent'["fix"] = sent["fix"] + 1 /\ Fixes' = Append(Fixes, sent["fix"] + 1)
      BY <1>0, <1>4, <3>1, KindsAssumption DEF Offer, Fixes, TypeOK
    <3>3. last' = last /\ last \in Nat
      BY <1>0, <1>4 DEF Offer, worker, TypeOK
    <3>4. OrderInv'
      BY <1>0, <3>2, <3>3 DEF OrderInv
    <3>5. Offering' = Offering \ {t} /\ t \in Offering
      BY <1>0, <1>4, <2>2 DEF Offer, Offering, TypeOK
    <3>6. Cardinality(Offering') = Cardinality(Offering) - 1
      BY <3>5, OfferingFinite, FS_RemoveElement
    <3>7. Len(Fixes') = Len(Fixes) + 1 /\ Len(Fixes) \in Nat
      BY <1>0, <3>2
    <3>8. BoundInv'
      BY <1>0, <3>6, <3>7, OfferingFinite, BoundsAssumption DEF BoundInv
    <3> QED BY <3>4, <3>8
  <2> QED BY <2>1, <2>2
<1>5. CASE Interrupt(t)
  <2>1. Offering' = Offering
    BY <1>0, <1>5 DEF Interrupt, Offering, TypeOK
  <2> QED BY <1>0, <1>5, <2>1, FixesUntouched DEF Interrupt, Fixes, worker
<1> QED BY <1>1, <1>2, <1>3, <1>4, <1>5 DEF HandOver

LEMMA WorkerFInv ==
    ASSUME FInv, StartMain \/ Worker PROVE OrderInv' /\ BoundInv'
<1>0. TypeOK /\ OrderInv /\ BoundInv /\ "fix" \in Kind
  BY Kinds DEF FInv, IInv
<1>1. UNCHANGED producers
  BY DEF StartMain, Worker, Top, Awake, Start, Loop, Take, Draw, FixBetween, Returned, Leave, At
<1>2. Offering' = Offering /\ sent' = sent
  BY <1>1 DEF producers, Offering
<1>3. CASE UNCHANGED <<queue, last>>
  BY <1>0, <1>2, <1>3, FixesUntouched DEF Fixes
<1>4. ASSUME NEW k \in Kind, Take(k) PROVE OrderInv' /\ BoundInv'
  <2>1. CASE k = "fix"
    <3>1. Fixes # <<>> /\ Fixes' = Tail(Fixes) /\ last' = Fixes[1]
      BY <1>0, <1>4, <2>1 DEF Take, MayTake, Fixes, TypeOK
    <3> QED BY <1>0, <1>2, <3>1, FixPolled
  <2>2. CASE k # "fix"
    <3>1. Fixes' = Fixes /\ last' = last
      BY <1>0, <1>4, <2>2 DEF Take, Fixes, TypeOK
    <3> QED BY <1>0, <1>2, <3>1, FixesUntouched
  <2> QED BY <2>1, <2>2
<1>5. ASSUME NEW k \in Kind, FixBetween(k) PROVE OrderInv' /\ BoundInv'
  <2>1. Fixes' = Polled(Fixes)
    BY <1>0, <1>5 DEF FixBetween, Fixes, TypeOK
  <2>2. CASE Fixes = <<>>
    BY <1>0, <1>2, <1>5, <2>1, <2>2, FixesUntouched DEF FixBetween, Polled, Fixes
  <2>3. CASE Fixes # <<>>
    BY <1>0, <1>2, <1>5, <2>1, <2>3, FixPolled DEF FixBetween, Polled, Fixes
  <2> QED BY <2>2, <2>3
<1>6. ASSUME NEW k \in Kind, Draw(k) \/ Returned(k) \/ Leave(k)
      PROVE  UNCHANGED <<queue, last>>
  BY <1>6 DEF Draw, Returned, Leave
<1>7. CASE StartMain \/ Top \/ Awake \/ Start
  BY <1>3, <1>7 DEF StartMain, Top, Awake, Start, worker
<1> QED BY <1>3, <1>4, <1>5, <1>6, <1>7 DEF Worker, Loop

THEOREM WorkerFixesInv == Spec => []FInv
<1>1. ASSUME FInv, [Next]_vars PROVE FInv'
  <2>1. CASE UNCHANGED vars
    <3>1. UNCHANGED <<Fixes, Offering, sent, last>>
      BY <2>1 DEF vars, producers, worker, Fixes, Offering
    <3>2. IInv'
      BY <1>1, <2>1 DEF FInv, vars, producers, worker, IInv, TypeOK, WakeupInv, Noticed,
         CoreInv
    <3> QED BY <1>1, <3>1, <3>2, FixesUntouched DEF FInv
  <2>2. CASE Next
    <3>1. IInv'
      BY <1>1, <2>2, HandOverIInv, RoundIInv, LoopIInv DEF Next, Worker, FInv
    <3>2. OrderInv' /\ BoundInv'
      BY <1>1, <2>2, SenderFInv, WorkerFInv DEF Next
    <3> QED BY <3>1, <3>2 DEF FInv
  <2> QED BY <1>1, <2>1, <2>2
<1> QED BY <1>1, InitFInv, PTL DEF Spec

\* The C core sees the fixes in the order they came, each at most once, whatever
\* threads hand them over and make room.
THEOREM WorkerFixesInOrder == Spec => []FixesInOrder
<1>1. FInv => FixesInOrder
  BY DEF FInv, OrderInv, Fixes, FixesInOrder
<1> QED BY <1>1, WorkerFixesInv, PTL

\* The queue of fixes holds at most one per thread more than are kept.
THEOREM WorkerFixesBounded == Spec => []FixesBounded
<1>1. FInv => FixesBounded
  <2> SUFFICES ASSUME FInv PROVE FixesBounded
    OBVIOUS
  <2>1. Len(Fixes) \in Nat
    BY Kinds DEF FInv, IInv, TypeOK, Fixes
  <2> QED BY <2>1, OfferingFinite, BoundsAssumption DEF FInv, BoundInv, Fixes, FixesBounded
<1> QED BY <1>1, WorkerFixesInv, PTL

-----------------------------------------------------------------------------
(* The newest fix and the last motion.                                      *)

Newest ==
    \/ last = sent["fix"]
    \/ \E i \in DOMAIN Fixes : Fixes[i] = sent["fix"]

\* No thread with a fix is between the test of the size and the offer.
Settled == \A t \in FixThread : producer[t] \in {"idle", "wake"}

NewestInv == sent["fix"] > 0 /\ Settled => Newest

\* The other threads do not make room.
OthersInv == \A t \in Sender \ FixThread : producer[t] \in {"idle", "offer", "wake"}

\* The worker polls the queue: it sees the newest fix or leaves it there.
LEMMA NewestPolled ==
    ASSUME TypeOK, OrderInv, Newest, Fixes # <<>>,
           Fixes' = Tail(Fixes), sent' = sent, last' = Fixes[1]
    PROVE  Newest'
<1>1. Fixes \in Seq(Nat) /\ last \in Nat /\ sent["fix"] \in Nat
  BY Kinds DEF TypeOK, Fixes
<1>2. 1 \in DOMAIN Fixes /\ last < Fixes[1] /\ Fixes[1] <= sent["fix"] /\ Fixes[1] \in Nat
  BY <1>1 DEF OrderInv
<1>3. PICK i \in DOMAIN Fixes : Fixes[i] = sent["fix"]
  BY <1>1, <1>2 DEF Newest
<1>4. CASE i = 1
  BY <1>3, <1>4 DEF Newest
<1>5. CASE i # 1
  <2>1. i - 1 \in DOMAIN Tail(Fixes) /\ Tail(Fixes)[i - 1] = Fixes[i]
    BY <1>1, <1>5
  <2> QED BY <1>3, <2>1 DEF Newest
<1> QED BY <1>4, <1>5

\* A step that leaves the fixes alone, and lets no thread get past its offer.
LEMMA NewestUntouched ==
    ASSUME NewestInv, Fixes' = Fixes, sent'["fix"] = sent["fix"], last' = last, Settled' => Settled
    PROVE  NewestInv'
<1>1. Newest => Newest'
  BY DEF Newest
<1> QED BY <1>1 DEF NewestInv

LEMMA OthersNext == TypeOK /\ OthersInv /\ [Next]_vars => OthersInv'
<1> SUFFICES ASSUME TypeOK, OthersInv, [Next]_vars PROVE OthersInv'
  OBVIOUS
<1>1. ASSUME NEW t \in Sender, Begin(t) \/ HandOver(t) PROVE OthersInv'
  BY <1>1 DEF Begin, HandOver, TestFixes, DropFix, Offer, Interrupt, TypeOK, OthersInv
<1>2. CASE StartMain \/ Worker \/ UNCHANGED vars
  BY <1>2 DEF StartMain, Worker, Top, Awake, Start, Loop, Take, Draw, FixBetween, Returned, Leave, At,
     producers, vars, OthersInv
<1> QED BY <1>1, <1>2 DEF Next

LEMMA NewestNext == FInv /\ OthersInv /\ NewestInv /\ [Next]_vars => NewestInv'
<1> SUFFICES ASSUME FInv, OthersInv, NewestInv, [Next]_vars PROVE NewestInv'
  OBVIOUS
<1>0. /\ TypeOK /\ OrderInv /\ "fix" \in Kind /\ FixThread \subseteq Sender
      /\ Fixes \in Seq(Nat) /\ sent["fix"] \in Nat
  BY Kinds DEF FInv, IInv, Sender, TypeOK, Fixes
<1>1. ASSUME NEW t \in Sender, Begin(t) \/ HandOver(t) PROVE NewestInv'
  <2>0. producer' = [producer EXCEPT ![t] = producer'[t]]
    BY <1>0, <1>1 DEF Begin, HandOver, TestFixes, DropFix, Offer, Interrupt, TypeOK
  <2>1. CASE t \in FixThread /\ (Begin(t) \/ TestFixes(t) \/ DropFix(t))
    <3>1. producer'[t] \in {"test", "drop", "offer"}
      BY <1>0, <2>1 DEF Begin, TestFixes, DropFix, TypeOK
    <3> QED BY <2>1, <3>1 DEF NewestInv, Settled
  <2>2. CASE t \in FixThread /\ Offer(t)
    <3>1. sent'["fix"] = sent["fix"] + 1 /\ Fixes' = Append(Fixes, sent["fix"] + 1)
      BY <1>0, <2>2, KindsAssumption DEF Offer, KindOf, Fixes, TypeOK
    <3>2. Len(Fixes) + 1 \in DOMAIN Fixes' /\ Fixes'[Len(Fixes) + 1] = sent'["fix"]
      BY <1>0, <3>1
    <3> QED BY <3>2 DEF NewestInv, Newest
  <2>3. CASE Interrupt(t)
    <3>1. Settled' => Settled
      BY <1>0, <2>3 DEF Interrupt, Settled, TypeOK
    <3> QED BY <2>3, <3>1, NewestUntouched DEF Interrupt, Fixes, worker
  <2>4. CASE t \notin FixThread /\ ~Interrupt(t)
    <3>1. Settled' => Settled
      BY <1>0, <2>0, <2>4 DEF Settled, TypeOK
    <3>2. CASE Begin(t) \/ TestFixes(t)
      BY <3>1, <3>2, NewestUntouched DEF Begin, TestFixes, Fixes, worker
    <3>3. CASE Offer(t)
      <4>1. KindOf(t) # "fix"
        BY <2>4 DEF KindOf, Sender
      <4>2. Fixes' = Fixes /\ sent'["fix"] = sent["fix"] /\ last' = last
        BY <1>0, <3>3, <4>1 DEF Offer, Fixes, TypeOK, worker
      <4> QED BY <3>1, <4>2, NewestUntouched
    <3>4. ~DropFix(t)
      BY <2>4 DEF DropFix, OthersInv
    <3> QED BY <1>1, <2>4, <3>2, <3>3, <3>4 DEF HandOver
  <2> QED BY <1>1, <2>1, <2>2, <2>3, <2>4 DEF HandOver
<1>2. CASE StartMain \/ Worker
  <2>1. UNCHANGED producers
    BY <1>2 DEF StartMain, Worker, Top, Awake, Start, Loop, Take, Draw, FixBetween, Returned, Leave, At
  <2>2. sent' = sent /\ Settled' = Settled
    BY <2>1 DEF producers, Settled
  <2>3. CASE Fixes' = Fixes /\ last' = last
    BY <2>2, <2>3, NewestUntouched
  <2>4. CASE Fixes # <<>> /\ Fixes' = Tail(Fixes) /\ last' = Fixes[1]
    BY <1>0, <2>2, <2>4, NewestPolled DEF NewestInv
  <2>5. ASSUME NEW k \in Kind, Take(k) \/ FixBetween(k)
        PROVE  \/ Fixes' = Fixes /\ last' = last
               \/ Fixes # <<>> /\ Fixes' = Tail(Fixes) /\ last' = Fixes[1]
    BY <1>0, <2>5 DEF Take, MayTake, FixBetween, Polled, Fixes, TypeOK
  <2>6. CASE StartMain \/ Top \/ Awake \/ Start \/ \E k \in Kind : Draw(k) \/ Returned(k) \/ Leave(k)
    BY <2>3, <2>6 DEF StartMain, Top, Awake, Start, Draw, Returned, Leave, Fixes, worker
  <2> QED BY <1>2, <2>3, <2>4, <2>5, <2>6 DEF Worker, Loop
<1>3. CASE UNCHANGED vars
  BY <1>3, NewestUntouched DEF vars, producers, worker, Fixes, Settled
<1> QED BY <1>1, <1>2, <1>3 DEF Next

\* When the threads with fixes have handed theirs over, the newest fix of all waits or
\* was seen: making room for a fix never costs the newest one, whatever the worker and
\* the other threads poll meanwhile.
THEOREM WorkerNewestFixKept == Spec => []NewestFixKept
<1>1. Init => NewestInv /\ OthersInv
  BY Kinds DEF Init, NewestInv, OthersInv
<1>2. NewestInv => NewestFixKept
  BY DEF NewestInv, Newest, Settled, Fixes, NewestFixKept
<1>3. FInv => TypeOK
  BY DEF FInv, IInv
<1> QED BY <1>1, <1>2, <1>3, OthersNext, NewestNext, WorkerFixesInv, PTL DEF Spec

\* A motion that is taken is in the hands of the loop of its queue until it is decided
\* whether the map is drawn.
MotionInv == LastMotionDrawn /\ (step = "polled" => stage = "motion")

\* A motion that is skipped leaves another one to draw, and the next one is decided on
\* after its own poll.
LEMMA MotionNext == TypeOK /\ MotionInv /\ [Next]_vars => MotionInv'
<1> SUFFICES ASSUME TypeOK, MotionInv, [Next]_vars PROVE MotionInv'
  OBVIOUS
<1>0. "motion" \in Kind /\ "fix" \in Kind /\ queue["motion"] \in Seq(Nat)
  BY Kinds DEF TypeOK
<1>1. ASSUME queue'["motion"] = queue["motion"], drawn' = drawn, stage' = stage, step' = step
      PROVE  MotionInv'
  BY <1>1 DEF MotionInv, LastMotionDrawn
<1>2. ASSUME NEW t \in Sender, Begin(t) \/ HandOver(t) PROVE MotionInv'
  <2>1. CASE Offer(t)
    <3>1. queue'["motion"] = queue["motion"] \/ \E n : queue'["motion"] = Append(queue["motion"], n)
      BY <1>0, <2>1 DEF Offer, TypeOK
    <3>2. drawn' = drawn /\ stage' = stage /\ step' = step
      BY <2>1 DEF Offer, worker
    <3>3. \A n : Append(queue["motion"], n) # <<>>
      BY <1>0
    <3> QED BY <1>1, <3>1, <3>2, <3>3 DEF MotionInv, LastMotionDrawn
  <2>2. CASE Begin(t) \/ TestFixes(t) \/ DropFix(t) \/ Interrupt(t)
    BY <1>0, <1>1, <2>2 DEF Begin, TestFixes, DropFix, Interrupt, worker, TypeOK
  <2> QED BY <1>2, <2>1, <2>2 DEF HandOver
<1>3. ASSUME NEW k \in Kind, Take(k) PROVE MotionInv'
  <2>1. CASE k = "motion"
    BY <1>3, <2>1 DEF Take, At, MotionInv, LastMotionDrawn
  <2>2. CASE k # "motion"
    <3>1. queue'["motion"] = queue["motion"] /\ drawn' = drawn /\ step # "polled" /\ step' = "call"
      BY <1>0, <1>3, <2>2 DEF Take, TypeOK
    <3> QED BY <3>1 DEF MotionInv, LastMotionDrawn
  <2> QED BY <2>1, <2>2
<1>4. ASSUME NEW k \in Kind, Draw(k) PROVE MotionInv'
  <2>1. k = "motion" /\ step' = "call" /\ queue' = queue
    BY <1>4 DEF Draw, At, MotionInv
  <2>2. queue["motion"] = <<>> => drawn'
    BY <1>4, <2>1 DEF Draw
  <2> QED BY <2>1, <2>2 DEF MotionInv, LastMotionDrawn
<1>5. ASSUME NEW k \in Kind, FixBetween(k) \/ Returned(k) \/ Leave(k) PROVE MotionInv'
  <2>1. queue'["motion"] = queue["motion"] /\ drawn' = drawn
    BY <1>0, <1>5 DEF FixBetween, Returned, Leave, TypeOK
  <2>2. step # "polled" /\ step' # "polled"
    BY <1>5 DEF FixBetween, Returned, Leave
  <2> QED BY <2>1, <2>2 DEF MotionInv, LastMotionDrawn
<1>6. CASE Top \/ Awake \/ Start
  <2>1. queue' = queue /\ drawn' = drawn /\ step' = step /\ step # "polled"
    BY <1>6 DEF Top, Awake, Start, At, MotionInv
  <2> QED BY <2>1 DEF MotionInv, LastMotionDrawn
<1>7. CASE StartMain \/ UNCHANGED vars
  BY <1>1, <1>7 DEF StartMain, vars, worker
<1> QED BY <1>2, <1>3, <1>4, <1>5, <1>6, <1>7 DEF Next, Worker, Loop

\* While motions are skipped to catch up, the last one is still drawn, whether another one
\* arrives before its poll, between the poll and the test that decides, or after it.
THEOREM WorkerLastMotionDrawn == Spec => []LastMotionDrawn
<1>1. Init => MotionInv
  BY DEF Init, MotionInv, LastMotionDrawn
<1>2. IInv => TypeOK
  BY DEF IInv
<1>3. MotionInv => LastMotionDrawn
  BY DEF MotionInv
<1> QED BY <1>1, <1>2, <1>3, MotionNext, WorkerIInv, PTL DEF Spec

=============================================================================

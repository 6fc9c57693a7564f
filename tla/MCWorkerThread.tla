--------------------------- MODULE MCWorkerThread ---------------------------
(* Kinds of events for the runs.  The loops of queue8, queue5 and queue2    *)
(* are alike, and so are the threads that fill them.                        *)
EXTENDS WorkerThread

TwoThreads == {"listener", "tunnel"}
Listener == {"listener"}
FixesAndMotions == {"fix", "motion"}
TicksAndMessages == {"fix", "message", "tick", "geo"}
Flooding == {"message", "tick", "geo"}
Served == {"message", "tick", "geo", "motion"}
OnlyTicks == {"tick"}
Nothing == {}

=============================================================================

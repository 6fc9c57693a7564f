--------------------------- MODULE MCEventTimers ---------------------------
(* Two timers and a queue of two: a tick can be queued, another one about   *)
(* to be queued and a third in the worker's hands when a timer is removed.  *)
EXTENDS EventTimers

CONSTANTS t1, t2

MCTimer == {t1, t2}

=============================================================================

----------------------------- MODULE MCSchedulerLive -----------------------------
(***************************************************************************)
(* TLC's instance of TaskScheduler for its liveness properties: no clock,  *)
(* so behaviours are infinite and every sleep has a next interrupt.        *)
(***************************************************************************)
EXTENDS TaskScheduler

CONSTANTS sampling, reporting

\* Two cyclic tasks, the first of which is ready again one tick after it was
\* due, and the one-shot that a running task adds to run at once.
MCRequest ==
    { [task |-> sampling, delay |-> 1, looptime |-> 1],
      [task |-> reporting, delay |-> 3, looptime |-> 4],
      [task |-> reporting, delay |-> 0, looptime |-> 0] }

AvrTearAt == {3}
=============================================================================

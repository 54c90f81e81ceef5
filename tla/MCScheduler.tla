------------------------------- MODULE MCScheduler -------------------------------
(***************************************************************************)
(* TLC's instance of SchedulerTiming: the requests of setup() and of a     *)
(* running reporting task, scaled down (the delays are seconds, the code's *)
(* are 60, 600 and 14400), and on the AVR a byte of 3 values, not 256.     *)
(***************************************************************************)
EXTENDS SchedulerTiming

CONSTANTS sampling, reporting

\* One cyclic task of the shortest period, one that waits for longer than a
\* byte holds, and the one-shot retry that a running task adds.
MCRequest ==
    { [task |-> sampling, delay |-> 1, looptime |-> 1],
      [task |-> reporting, delay |-> 3, looptime |-> 4],
      [task |-> reporting, delay |-> 0, looptime |-> 0] }

AvrTearAt == {3}
=============================================================================

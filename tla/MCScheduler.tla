---------------------------- MODULE MCScheduler ----------------------------
(* Instances of Scheduler for model checking. *)
EXTENDS Scheduler, TLC

CONSTANTS c0, c1, start0, start1, noop, startinit, extra

\* The start-up process of each processor.
MCStartProc == [c \in CPUs |-> IF c = c0 THEN start0 ELSE start1]
=============================================================================

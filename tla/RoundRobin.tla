----------------------------- MODULE RoundRobin -----------------------------
(***************************************************************************)
(* What a user of the scheduler may rely on, and nothing of how it is      *)
(* done: processes are admitted to the end of one queue; a processor only  *)
(* ever changes hands to the head of that queue, and the process that had  *)
(* it goes to the end, except an idle process, which steps aside.          *)
(***************************************************************************)
EXTENDS Sequences

CONSTANTS CPUs, Procs, NoProc, First, FirstCpu

VARIABLES running, queue, idle

rrVars == <<running, queue, idle>>

Waiting == {queue[i] : i \in DOMAIN queue}
Busy == {running[c] : c \in CPUs}

RRInit ==
  /\ running = [c \in CPUs |-> IF c = FirstCpu THEN First ELSE NoProc]
  /\ queue = <<>>
  /\ idle = [c \in CPUs |-> NoProc]

\* scheduler_enqueue of a new process.
Admit(p) ==
  /\ p \notin Waiting /\ p \notin Busy
  /\ queue' = Append(queue, p)
  /\ UNCHANGED <<running, idle>>

\* The processor c changes hands.
Rotate(c) ==
  /\ running[c] # NoProc /\ queue # <<>>
  /\ running' = [running EXCEPT ![c] = Head(queue)]
  /\ queue' = IF running[c] = idle[c] THEN Tail(queue)
              ELSE Append(Tail(queue), running[c])
  /\ UNCHANGED idle

\* A further processor starts on a process of its own.
Join(c, p) ==
  /\ running[c] = NoProc
  /\ p \notin Waiting /\ p \notin Busy
  /\ running' = [running EXCEPT ![c] = p]
  /\ UNCHANGED <<queue, idle>>

\* The running process of c declares itself the idle process.
SetIdle(c) ==
  /\ running[c] # NoProc
  /\ idle' = [idle EXCEPT ![c] = running[c]]
  /\ UNCHANGED <<running, queue>>

RRNext ==
  \/ \E p \in Procs : Admit(p)
  \/ \E c \in CPUs : Rotate(c) \/ SetIdle(c) \/ \E p \in Procs : Join(c, p)

Spec == RRInit /\ [][RRNext]_rrVars
=============================================================================

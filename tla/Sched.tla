------------------------------- MODULE Sched -------------------------------
(***************************************************************************)
(* What the scheduler promises: one round-robin queue whose head runs.  A  *)
(* task joins at the tail, leaves when it exits or is killed, and keeps    *)
(* its memory until it is reaped; only dead tasks are reaped.              *)
(***************************************************************************)
EXTENDS Integers, Sequences

CONSTANTS Tasks, Kernel

VARIABLES
  queue,      \* the running task, then the ready ones in turn
  zombies,    \* tasks that ended and still own memory
  owners      \* tasks that own a PCB, a stack and an address space

vars == <<queue, zombies, owners>>

Init ==
  /\ queue = <<Kernel>>
  /\ zombies = {}
  /\ owners = {}

Spawn(t) ==
  /\ t \notin owners
  /\ queue' = Append(queue, t)
  /\ owners' = owners \cup {t}
  /\ UNCHANGED zombies

\* A switch; every zombie there is is reaped first.
Rotate ==
  /\ queue' = Append(Tail(queue), Head(queue))
  /\ zombies' = {}
  /\ owners' = owners \ zombies

\* The running task ends; the next one runs.
Exit ==
  /\ Head(queue) # Kernel
  /\ queue' = Tail(queue)
  /\ zombies' = {}
  /\ owners' = owners \ (zombies \cup {Head(queue)})

Without(s, i) == SubSeq(s, 1, i - 1) \o SubSeq(s, i + 1, Len(s))

\* A task that does not run is taken out of the queue.
Kill(i) ==
  /\ queue[i] # Kernel
  /\ queue' = Without(queue, i)
  /\ zombies' = zombies \cup {queue[i]}
  /\ UNCHANGED owners

Next ==
  \/ \E t \in Tasks : Spawn(t)
  \/ Rotate \/ Exit
  \/ \E i \in 2 .. Len(queue) : Kill(i)

Spec == Init /\ [][Next]_vars
=============================================================================

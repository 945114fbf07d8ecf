-------------------------------- MODULE Task --------------------------------
(***************************************************************************)
(* The scheduler, src/kernel/task/task.c, with the timer interrupt and the *)
(* keyboard system call that drive it.                                     *)
(*                                                                         *)
(* One CPU.  task_create, task_yield, task_exit and task_kill run between  *)
(* irq_save and irq_restore, so each is one action; what they do to the    *)
(* interrupt flag is kept, per task, in flags (the eflags task_yield       *)
(* saved) and frames (the interrupt frames on the task's stack).           *)
(* ready_list is a sequence.  dead_list and all_tasks_list are sets: the   *)
(* first is always emptied as a whole, and the order of the second is not  *)
(* used.                                                                   *)
(***************************************************************************)
EXTENDS Integers, Sequences, FiniteSets, Functions

CONSTANTS
  Tasks,      \* the PCBs kmalloc can return
  Kernel,     \* kernel_task
  EcxHoldsCr3,  \* the build passes next_task->cr3 to switch_context in ECX
  MaxPid      \* bound: the last pid handed out

ASSUME TaskAssumption ==
  Kernel \notin Tasks /\ MaxPid \in Nat /\ EcxHoldsCr3 \in BOOLEAN

AllTasks == Tasks \cup {Kernel}
Pieces == {"pcb", "stack", "pdir"}

VARIABLES
  ready_list, dead_list, all_tasks_list,
  current,        \* current_task_ptr
  state, pid,     \* PCB fields; "NONE" where no PCB is allocated
  task_count, next_pid,
  allocated,      \* <<piece, task>>: memory that is not free
  cr3, esp0,      \* the task whose page directory and stack the CPU uses
  iflag,          \* the interrupt flag
  flags, frames,
  in_service,     \* the PIC still waits for the EOI of the timer
  hung            \* in the hlt loop at the end of task_exit

lists == <<ready_list, dead_list, all_tasks_list, current, state, pid,
           task_count, next_pid, allocated, cr3, esp0>>
vars == <<lists, iflag, flags, frames, in_service, hung>>

task_init ==
  /\ ready_list = <<>> /\ dead_list = {} /\ all_tasks_list = {Kernel}
  /\ current = Kernel
  /\ state = [t \in AllTasks |-> IF t = Kernel THEN "RUNNING" ELSE "NONE"]
  /\ pid = [t \in AllTasks |-> IF t = Kernel THEN 1 ELSE 0]
  /\ task_count = 1 /\ next_pid = 2
  /\ allocated = {}
  /\ cr3 = Kernel /\ esp0 = Kernel
  /\ iflag = TRUE
  /\ flags = [t \in AllTasks |-> TRUE]
  /\ frames = [t \in AllTasks |-> <<>>]
  /\ in_service = FALSE
  /\ hung = FALSE

\* Task code outside interrupt handlers and system calls.
InTask == ~hung /\ frames[current] = <<>>

list_add(list, t) == <<t>> \o list

list_add_tail(list, t) == Append(list, t)

\* list_del of a node that is on the list.
list_del(s, t) ==
  LET i == CHOOSE j \in DOMAIN s : s[j] = t
  IN  [j \in 1 .. Len(s) - 1 |-> IF j < i THEN s[j] ELSE s[j + 1]]

-----------------------------------------------------------------------------
(* task_create *)

\* What was allocated when the (n+1)-st allocation failed, and what the
\* chain of error labels frees then.
Acquired(t, n) == {<<(<<"pcb", "stack", "pdir">>)[i], t>> : i \in 1 .. n}

UnwindNoFallThrough(t, n) ==
  CASE n = 0 -> {}
    [] n = 1 -> {<<"pcb", t>>}
    [] n = 2 -> {<<"stack", t>>}

Unwind(t, n) ==
  CASE n = 0 -> {}
    [] n = 1 -> {<<"pcb", t>>}
    [] n = 2 -> {<<"stack", t>>, <<"pcb", t>>}

task_create_fail(t, n) ==
  /\ InTask
  /\ <<"pcb", t>> \notin allocated
  /\ allocated' = (allocated \cup Acquired(t, n)) \ Unwind(t, n)
  /\ UNCHANGED <<ready_list, dead_list, all_tasks_list, current, state, pid,
                 task_count, next_pid, cr3, esp0, iflag, flags, frames,
                 in_service, hung>>

NewPid == next_pid

\* The stack of a new task makes switch_context return to the trampoline
\* with eflags 0x202: interrupts on.
task_create(t) ==
  /\ InTask
  /\ <<"pcb", t>> \notin allocated
  /\ next_pid <= MaxPid
  /\ allocated' = allocated \cup Acquired(t, 3)
  /\ pid' = [pid EXCEPT ![t] = NewPid]
  /\ next_pid' = next_pid + 1
  /\ state' = [state EXCEPT ![t] = "READY"]
  /\ ready_list' = list_add_tail(ready_list, t)
  /\ all_tasks_list' = all_tasks_list \cup {t}
  /\ task_count' = task_count + 1
  /\ flags' = [flags EXCEPT ![t] = TRUE]
  /\ frames' = [frames EXCEPT ![t] = <<>>]
  /\ UNCHANGED <<dead_list, current, cr3, esp0, iflag, in_service, hung>>

-----------------------------------------------------------------------------
(* task_yield *)

reap_dead_tasks_noCount(D) ==
  /\ dead_list' = {}
  /\ all_tasks_list' = all_tasks_list \ D
  /\ allocated' = allocated \ (Pieces \X D)
  /\ UNCHANGED task_count

reap_dead_tasks(D) ==
  /\ dead_list' = {}
  /\ all_tasks_list' = all_tasks_list \ D
  /\ allocated' = allocated \ (Pieces \X D)
  /\ task_count' = task_count - Cardinality(D)

SwitchStaleCr3(next, eflags) ==
  /\ current' = next /\ esp0' = next
  /\ flags' = [flags EXCEPT ![current] = eflags]
  /\ iflag' = flags[next]
  /\ UNCHANGED cr3

\* switch_context fetches new_cr3 from the stack into EAX (task.asm:29), loses
\* it (:32), and compares CR3 with and loads it from ECX, which it never sets:
\* CR3 becomes what the compiler left in ECX for the call in task_yield.  In
\* the image that is kept with the sources (BenmoshOS.bin, gcc -O0) this is
\* next_task->cr3; nothing in the source asks for it, and another build may
\* leave the directory of any task there, or of none.
EcxAtCall(next) == IF EcxHoldsCr3 THEN {next} ELSE AllTasks

\* switch_context: task next continues with the eflags it saved.
Switch(next, eflags) ==
  /\ current' = next /\ esp0' = next
  /\ cr3' \in EcxAtCall(next)
  /\ flags' = [flags EXCEPT ![current] = eflags]
  /\ iflag' = flags[next]

\* The body of task_yield, called with task states St, dead list D and
\* interrupt flag eflags.
Yield(St, D, eflags) ==
  LET reaped == [t \in AllTasks |-> IF t \in D THEN "NONE" ELSE St[t]]
      running == St[current] = "RUNNING"
      q == IF running THEN list_add_tail(ready_list, current) ELSE ready_list
      next == Head(q)
  IN  /\ reap_dead_tasks(D)
      /\ IF ready_list = <<>>
         THEN /\ iflag' = eflags
              /\ state' = reaped
              /\ hung' = ~running
              /\ UNCHANGED <<ready_list, current, cr3, esp0, flags>>
         ELSE /\ ready_list' = Tail(q)
              /\ state' = [t \in AllTasks |->
                             CASE t = next -> "RUNNING"
                               [] running /\ t = current -> "READY"
                               [] OTHER -> reaped[t]]
              /\ Switch(next, eflags)
              /\ UNCHANGED hung
      /\ UNCHANGED <<pid, next_pid>>

task_yield ==
  /\ InTask
  /\ Yield(state, dead_list, iflag)
  /\ UNCHANGED <<frames, in_service>>

-----------------------------------------------------------------------------
(* task_exit, by the trampoline when the entry point returns (the kernel   *)
(* task has none), and task_kill.                                          *)

Exit ==
  /\ Yield([state EXCEPT ![current] = "DEAD"], dead_list \cup {current}, FALSE)
  /\ UNCHANGED <<frames, in_service>>

task_exit ==
  /\ InTask
  /\ current # Kernel
  /\ Exit

MayKill(p, t) == p > 1 /\ pid[t] = p /\ state[t] # "DEAD"

task_kill_current(p) ==
  /\ InTask
  /\ MayKill(p, current)
  /\ Exit

task_kill_other(p, t) ==
  /\ InTask
  /\ t \in all_tasks_list \ {current}
  /\ MayKill(p, t)
  /\ ready_list' = list_del(ready_list, t)
  /\ state' = [state EXCEPT ![t] = "DEAD"]
  /\ dead_list' = dead_list \cup {t}
  /\ UNCHANGED <<all_tasks_list, current, pid, task_count, next_pid,
                 allocated, cr3, esp0, iflag, flags, frames, in_service, hung>>

\* -1 is returned.
task_kill_fail(p) ==
  /\ InTask
  /\ \A t \in all_tasks_list : ~MayKill(p, t)
  /\ UNCHANGED vars

-----------------------------------------------------------------------------
(* Interrupts.  An interrupt gate pushes a frame and clears it; iret pops  *)
(* it and sets it, which was on.                                           *)

isr_timer_lateEoi ==
  /\ ~hung /\ iflag /\ ~in_service
  /\ frames' = [frames EXCEPT ![current] = Append(@, "timer")]
  /\ in_service' = TRUE
  /\ Yield(state, dead_list, FALSE)

\* The EOI is sent before task_yield, which may return only much later.
isr_timer ==
  /\ ~hung /\ iflag /\ ~in_service
  /\ frames' = [frames EXCEPT ![current] = Append(@, "timer")]
  /\ in_service' = FALSE
  /\ Yield(state, dead_list, FALSE)

TopFrame(f) ==
  /\ ~hung
  /\ frames[current] # <<>>
  /\ frames[current][Len(frames[current])] = f

\* The second EOI, and the return to the interrupted code.
isr_timer_return ==
  /\ TopFrame("timer") /\ ~iflag
  /\ frames' = [frames EXCEPT ![current] = SubSeq(@, 1, Len(@) - 1)]
  /\ iflag' = TRUE
  /\ in_service' = FALSE
  /\ UNCHANGED <<lists, flags, hung>>

\* int 0x80 with eax = 4.
syscall_enter ==
  /\ InTask /\ iflag
  /\ frames' = [frames EXCEPT ![current] = <<"syscall">>]
  /\ iflag' = FALSE
  /\ UNCHANGED <<lists, flags, in_service, hung>>

\* sti; hlt
syscall_wait ==
  /\ TopFrame("syscall") /\ ~iflag
  /\ iflag' = TRUE
  /\ UNCHANGED <<lists, flags, frames, in_service, hung>>

\* cli; no key was pressed.
syscall_yield ==
  /\ TopFrame("syscall") /\ iflag
  /\ Yield(state, dead_list, FALSE)
  /\ UNCHANGED <<frames, in_service>>

\* cli; the line is complete: iret.
syscall_return ==
  /\ TopFrame("syscall") /\ iflag
  /\ frames' = [frames EXCEPT ![current] = <<>>]
  /\ iflag' = TRUE
  /\ UNCHANGED <<lists, flags, in_service, hung>>

Next ==
  \/ \E t \in Tasks : task_create(t) \/ \E n \in 0 .. 2 : task_create_fail(t, n)
  \/ task_yield \/ task_exit
  \/ \E p \in 0 .. MaxPid :
       \/ task_kill_current(p)
       \/ task_kill_fail(p)
       \/ \E t \in AllTasks : task_kill_other(p, t)
  \/ isr_timer \/ isr_timer_return
  \/ syscall_enter \/ syscall_wait \/ syscall_yield \/ syscall_return

\* The CPU goes on inside handlers, and the PIC keeps a timer request until
\* interrupts are on.
Fairness ==
  /\ WF_vars(isr_timer_return)
  /\ WF_vars(syscall_wait)
  /\ SF_vars(isr_timer)

Spec == task_init /\ [][Next]_vars
FairSpec == Spec /\ Fairness

-----------------------------------------------------------------------------
(* Properties *)

\* The PCB states and the lists agree: the one list node of a task is on the
\* list its state says and no list holds it twice, so list_del and
\* list_add_tail never meet a node that is linked elsewhere; task_count
\* counts all_tasks_list.  There is always a running task: one that ends
\* finds another to switch to ("should never reach heare", task.c:216).
ListsAgree ==
  /\ IsInjective(ready_list)
  /\ Range(ready_list) = {t \in AllTasks : state[t] = "READY"}
  /\ dead_list = {t \in AllTasks : state[t] = "DEAD"}
  /\ {current} = {t \in AllTasks : state[t] = "RUNNING"}
  /\ all_tasks_list = {t \in AllTasks : state[t] # "NONE"}
  /\ task_count = Cardinality(all_tasks_list)

\* The CPU runs on the stack and in the address space of the current task,
\* and the reaper has not freed them, in a build where ECX holds the cr3 of
\* the next task when task_yield calls switch_context (see EcxAtCall).  (A task that exits is reaped by its
\* own task_yield, before the switch; interrupts are off until then.)  No
\* stack ever holds more than the frames of a system call that waits for a
\* key and of one timer interrupt.
RunningOwnsContext ==
  /\ cr3 = current /\ esp0 = current
  /\ \A t \in AllTasks :
       frames[t] \in {<<>>, <<"timer">>, <<"syscall">>, <<"syscall", "timer">>}
  /\ current # Kernel => Pieces \X {current} \subseteq allocated

\* Memory is held by tasks on all_tasks_list only, whatever failed in
\* task_create and however tasks ended (test.c:568, :572).
NoTaskLeak == allocated = Pieces \X (all_tasks_list \ {Kernel})

S == INSTANCE Sched WITH
       queue <- <<current>> \o ready_list,
       zombies <- dead_list,
       owners <- {t \in Tasks : <<"pcb", t>> \in allocated}

\* The scheduler implements the round-robin queue, whatever mix of timer,
\* yield, exit and kill drives it.
SchedSpec == S!Spec

\* Every ready task runs or is killed, even if no other task ever yields.
ReadyRuns == \A t \in AllTasks : state[t] = "READY" ~> state[t] # "READY"

\* What was killed is reaped (test.c:568, "Killed task fully reaped").
DeadReaped == \A t \in Tasks : state[t] = "DEAD" ~> state[t] # "DEAD"
=============================================================================

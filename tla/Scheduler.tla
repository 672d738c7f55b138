------------------------------ MODULE Scheduler ------------------------------
(***************************************************************************)
(* The task scheduler of the kernel (kernel/core/task.c): a pool of task   *)
(* control blocks, a priority-ordered ready queue, a deadline-ordered      *)
(* linked list, and one CPU that runs the tasks cooperatively while the    *)
(* timer interrupt may strike between any two steps.                       *)
(*                                                                         *)
(* "current" is sched_state.current_task, the scheduler's belief; "cpu" is *)
(* the context that really executes.  A task calls the scheduler at pc     *)
(* "run"; the other values of pc are the places inside schedule(), the     *)
(* loops over the deadline list and kernel_main's bootstrap.               *)
(*                                                                         *)
(* A definition marked "Mutant" is not used: it is a plausible bug that a  *)
(* property of this module detects when it replaces the code's definition. *)
(***************************************************************************)
EXTENDS Integers, Sequences, FiniteSets, SequencesExt

CONSTANTS MAX_TASKS,      \* number of task control blocks (16)
          MAX_PRIO,       \* lowest priority (31); 0 is the highest
          QUANTUM,        \* ticks of a time slice (10)
          BOOST_WINDOW,   \* a deadline nearer than this boosts (10)
          HEAP_STACKS,    \* bound: stacks kmalloc can hand out before it fails
          Resident,       \* slots whose task never blocks and never exits
          Priorities,     \* priorities passed to task_create
          NewPriorities,  \* priorities passed to task_set_priority
          Deadlines,      \* absolute deadlines the callers pass
          RearmAfterMiss, \* callers arm a task again after it missed a deadline
          MAX_TICKS,      \* bound: timer interrupts
          MAX_DISABLE     \* bound: nesting of scheduler_disable_preemption

Slots  == 1..MAX_TASKS
NoTask == 0               \* NULL; as a value of cpu, kernel_main's boot context

ASSUME ConstantsAssumption ==
  /\ MAX_TASKS \in Nat \ {0}
  /\ MAX_PRIO \in Nat
  /\ QUANTUM \in Nat \ {0}
  /\ BOOST_WINDOW \in Nat
  /\ HEAP_STACKS \in Nat
  /\ Resident \subseteq Slots
  /\ Priorities \subseteq Nat /\ NewPriorities \subseteq Nat
  /\ Deadlines \subseteq Nat
  /\ RearmAfterMiss \in BOOLEAN
  /\ MAX_TICKS \in Nat
  /\ MAX_DISABLE \in Nat

VARIABLES state,          \* task_t.state
          prio,           \* task_t.priority
          deadline,       \* task_t.deadline, 0 for none
          dnext,          \* task_t.next_deadline
          frame,          \* what the stack_pointer of the slot designates
          readyQueue,     \* the linked ready queue, head first
          dhead,          \* sched_state.deadline_list
          current,        \* sched_state.current_task
          ticksRemaining, disableCount, pending,
          stacks,         \* stacks obtained from kmalloc so far
          cpu, pc,        \* the executing context and its place in the code
          arg, val, cursor, now,  \* locals of the loops over the deadline list
          ticks,          \* timer ticks since boot
          registered      \* scheduler_tick is the timer's tick handler

taskVars  == <<state, prio, frame, readyQueue, stacks>>
dlVars    == <<deadline, dnext, dhead>>
loopVars  == <<arg, val, cursor, now>>
timerVars == <<ticks, registered>>
tickVars  == <<ticksRemaining, disableCount, pending>>
vars == <<taskVars, dlVars, loopVars, timerVars, tickVars, current, cpu, pc>>

States == {"READY", "RUNNING", "BLOCKED", "DEAD"}
Frames == {"none",      \* the slot was never used
           "fresh",     \* the initial frame task_create builds
           "saved",     \* ctx_switch saved the task here
           "live"}      \* the task has run since: the frame is stale
PCs    == {"boot", "boot2", "run", "sched", "walk", "requeue", "select",
           "rmwalk", "dset", "inswalk", "halt"}

TypeOK ==
  /\ state \in [Slots -> States]
  /\ prio \in [Slots -> 0..MAX_PRIO]
  /\ deadline \in [Slots -> Nat]
  /\ dnext \in [Slots -> Slots \cup {NoTask}]
  /\ frame \in [Slots -> Frames]
  /\ readyQueue \in Seq(Slots)
  /\ dhead \in Slots \cup {NoTask}
  /\ current \in Slots \cup {NoTask}
  /\ ticksRemaining \in 0..QUANTUM
  /\ disableCount \in 0..MAX_DISABLE
  /\ pending \in BOOLEAN
  /\ stacks \in 0..HEAP_STACKS
  /\ cpu \in Slots \cup {NoTask}
  /\ pc \in PCs
  /\ arg \in Slots \cup {NoTask}
  /\ val \in Nat
  /\ cursor \in Slots \cup {NoTask}
  /\ now \in Nat
  /\ ticks \in 0..MAX_TICKS
  /\ registered \in BOOLEAN

-----------------------------------------------------------------------------
(* The ready queue.                                                        *)

\* Mutant: the range check is missing.
ClampForgotten(p) == p

Clamp(p) == IF p > MAX_PRIO THEN MAX_PRIO ELSE p

\* Mutant: the newcomer goes to the head.
InsertionPointHead(q, p) == 1
\* Mutant: >= for > in the comparison of priorities.
InsertionPointBeforeEquals(q, p) ==
  Min({i \in 1..Len(q) : prio[q[i]] >= p} \cup {Len(q) + 1})

\* Where ready_queue_insert puts a task of priority p: before the first task
\* of a larger number, hence after every task of the same priority.
InsertionPoint(q, p) == Min({i \in 1..Len(q) : prio[q[i]] > p} \cup {Len(q) + 1})

ready_queue_insert(q, t, p) == InsertAt(q, InsertionPoint(q, p), t)

Places(q, t) == {i \in 1..Len(q) : q[i] = t}

\* Mutant: the task is not unlinked.
ready_queue_removeForgotten(q, t) == q

ready_queue_remove(q, t) ==
  IF Places(q, t) = {} THEN q ELSE RemoveAt(q, Min(Places(q, t)))

\* Mutant: the priority changes, the place in the queue does not.
ChangePriorityInPlace(t, p) ==
  /\ prio' = [prio EXCEPT ![t] = p]
  /\ UNCHANGED readyQueue

\* Give task t priority p, moving it in the ready queue when it is READY.
ChangePriority(t, p) ==
  /\ prio' = [prio EXCEPT ![t] = p]
  /\ readyQueue' = IF state[t] = "READY"
                   THEN ready_queue_insert(ready_queue_remove(readyQueue, t), t, p)
                   ELSE readyQueue

HigherReady == readyQueue # <<>> /\ prio[Head(readyQueue)] < prio[current]
EqualReady  == readyQueue # <<>> /\ prio[Head(readyQueue)] <= prio[current]

-----------------------------------------------------------------------------
(* Creation of tasks and bootstrap.                                        *)

DeadSlots == {s \in Slots : state[s] = "DEAD"}
FreeSlot  == Min(DeadSlots)

\* task_create finds no free slot.
CreateNoSlot == DeadSlots = {} /\ UNCHANGED <<taskVars, dlVars>>

\* task_create's slot fields are written before kmalloc may fail.
CreateInit(s, p) ==
  /\ prio' = [prio EXCEPT ![s] = Clamp(p)]
  /\ deadline' = [deadline EXCEPT ![s] = 0]
  /\ dnext' = [dnext EXCEPT ![s] = NoTask]
  /\ UNCHANGED dhead

CreateNoStack(p) ==
  /\ DeadSlots # {} /\ stacks >= HEAP_STACKS
  /\ CreateInit(FreeSlot, p)
  /\ UNCHANGED <<state, frame, readyQueue, stacks>>

CreateOk(p) ==
  /\ DeadSlots # {} /\ stacks < HEAP_STACKS
  /\ CreateInit(FreeSlot, p)
  /\ state' = [state EXCEPT ![FreeSlot] = "READY"]
  /\ frame' = [frame EXCEPT ![FreeSlot] = "fresh"]
  /\ stacks' = stacks + 1
  /\ readyQueue' = ready_queue_insert(readyQueue, FreeSlot, Clamp(p))

task_create(p) == CreateNoSlot \/ CreateNoStack(p) \/ CreateOk(p)

\* kernel_main creates the shell at the lowest priority, then the monitor,
\* halts when either fails, and otherwise hands the CPU over.
BootStep(from, to, p) ==
  /\ pc = from
  /\ task_create(p)
  /\ pc' = IF stacks' > stacks THEN to ELSE "halt"
  /\ UNCHANGED <<loopVars, timerVars, tickVars, current, cpu>>

BootShell   == BootStep("boot", "boot2", MAX_PRIO)
BootMonitor == \E p \in Priorities : BootStep("boot2", "sched", p)

scheduler_register_timer ==
  /\ pc = "boot" /\ ~registered
  /\ registered' = TRUE
  /\ UNCHANGED <<taskVars, dlVars, loopVars, tickVars, ticks, current, cpu, pc>>

-----------------------------------------------------------------------------
(* Calls a running task makes.                                             *)

Create ==
  /\ pc = "run"
  /\ \E p \in Priorities : task_create(p)
  /\ UNCHANGED <<loopVars, timerVars, tickVars, current, cpu, pc>>

task_yield ==
  /\ pc = "run"
  /\ pc' = "sched"
  /\ UNCHANGED <<taskVars, dlVars, loopVars, timerVars, tickVars, current, cpu>>

task_block ==
  /\ pc = "run" /\ current # NoTask /\ current \notin Resident
  /\ state' = [state EXCEPT ![current] = "BLOCKED"]
  /\ pc' = "sched"
  /\ UNCHANGED <<prio, frame, readyQueue, stacks, dlVars, loopVars, timerVars,
                 tickVars, current, cpu>>

\* Mutant: the test for a blocked task lets the running one through.
task_wakeAnyone(t) ==
  /\ pc = "run" /\ state[t] \in {"BLOCKED", "RUNNING"}
  /\ state' = [state EXCEPT ![t] = "READY"]
  /\ readyQueue' = ready_queue_insert(readyQueue, t, prio[t])
  /\ UNCHANGED <<prio, frame, stacks, dlVars, loopVars, timerVars, tickVars,
                 current, cpu, pc>>

task_wake(t) ==
  /\ pc = "run" /\ state[t] = "BLOCKED"
  /\ state' = [state EXCEPT ![t] = "READY"]
  /\ readyQueue' = ready_queue_insert(readyQueue, t, prio[t])
  /\ UNCHANGED <<prio, frame, stacks, dlVars, loopVars, timerVars, tickVars,
                 current, cpu, pc>>

task_set_priority(t, p) ==
  /\ pc = "run" /\ state[t] # "DEAD"
  /\ ChangePriority(t, Clamp(p))
  /\ UNCHANGED <<state, frame, stacks, dlVars, loopVars, timerVars, tickVars,
                 current, cpu, pc>>

-----------------------------------------------------------------------------
(* The deadline list.  Its loops are stepped one pointer at a time.        *)

\* Tasks reached from the head of the list through next_deadline.
Listed ==
  {t \in Slots : \A S \in SUBSET Slots :
     /\ dhead # NoTask => dhead \in S
     /\ \A s \in S : dnext[s] # NoTask => dnext[s] \in S
     => t \in S}

\* deadline_list_remove(t), up to its loop: the place to go on from is
\* "then" when the list is empty or t is its head, the loop otherwise.
RemoveStart(t, then) ==
  \/ /\ dhead = NoTask
     /\ pc' = then /\ UNCHANGED <<dnext, dhead, cursor>>
  \/ /\ dhead = t
     /\ dhead' = dnext[t] /\ dnext' = [dnext EXCEPT ![t] = NoTask]
     /\ pc' = then /\ UNCHANGED cursor
  \/ /\ dhead \notin {NoTask, t}
     /\ cursor' = dhead
     /\ pc' = "rmwalk" /\ UNCHANGED <<dnext, dhead>>

\* Where deadline_list_remove returns: task_exit removes a DEAD task.
AfterRemove == IF state[arg] = "DEAD" THEN "sched" ELSE "dset"

RemoveWalk ==
  /\ pc = "rmwalk"
  /\ IF dnext[cursor] \in {NoTask, arg}
     THEN /\ dnext' = IF dnext[cursor] = arg
                      THEN [dnext EXCEPT ![cursor] = dnext[arg], ![arg] = NoTask]
                      ELSE dnext
          /\ cursor' = NoTask
          /\ pc' = AfterRemove
     ELSE cursor' = dnext[cursor] /\ UNCHANGED <<dnext, pc>>
  /\ UNCHANGED <<taskVars, deadline, dhead, arg, val, now, timerVars, tickVars,
                 current, cpu>>

\* task_set_deadline removes the task only if its deadline field is not 0.
\* RearmAfterMiss = FALSE keeps callers from arming a task whose entry
\* check_deadlines left in the list.
task_set_deadline(t, d) ==
  /\ pc = "run" /\ state[t] # "DEAD"
  /\ RearmAfterMiss \/ d = 0 \/ ~(deadline[t] = 0 /\ t \in Listed)
  /\ arg' = t /\ val' = d
  /\ IF deadline[t] # 0
     THEN RemoveStart(t, "dset")
     ELSE pc' = "dset" /\ UNCHANGED <<dnext, dhead, cursor>>
  /\ UNCHANGED <<taskVars, deadline, now, timerVars, tickVars, current, cpu>>

\* The store of the deadline and deadline_list_insert up to its loop.
SetDeadline ==
  /\ pc = "dset"
  /\ deadline' = [deadline EXCEPT ![arg] = val]
  /\ IF dhead # NoTask /\ val # 0 /\ val >= deadline'[dhead]
     THEN pc' = "inswalk" /\ cursor' = dhead /\ UNCHANGED <<dnext, dhead, arg, val>>
     ELSE /\ IF val = 0 THEN UNCHANGED <<dnext, dhead>>
             ELSE dnext' = [dnext EXCEPT ![arg] = dhead] /\ dhead' = arg
          /\ pc' = "run" /\ arg' = NoTask /\ val' = 0 /\ UNCHANGED cursor
  /\ UNCHANGED <<taskVars, now, timerVars, tickVars, current, cpu>>

InsertWalk ==
  /\ pc = "inswalk"
  /\ IF dnext[cursor] # NoTask /\ deadline[dnext[cursor]] <= val
     THEN cursor' = dnext[cursor] /\ UNCHANGED <<dnext, arg, val, pc>>
     ELSE /\ dnext' = [[dnext EXCEPT ![arg] = dnext[cursor]] EXCEPT ![cursor] = arg]
          /\ pc' = "run" /\ cursor' = NoTask /\ arg' = NoTask /\ val' = 0
  /\ UNCHANGED <<taskVars, deadline, dhead, now, timerVars, tickVars, current, cpu>>

\* Mutant: the deadline entry is not removed.
task_exitKeepsDeadline ==
  /\ pc = "run" /\ current \notin Resident /\ current # NoTask
  /\ state' = [state EXCEPT ![current] = "DEAD"]
  /\ readyQueue' = ready_queue_remove(readyQueue, current)
  /\ pc' = "sched"
  /\ UNCHANGED <<prio, frame, stacks, dlVars, loopVars, timerVars, tickVars,
                 current, cpu>>

\* task_exit: with no current task it returns into the trampoline, which halts.
task_exit ==
  /\ pc = "run" /\ current \notin Resident
  /\ IF current = NoTask
     THEN pc' = "halt" /\ UNCHANGED <<taskVars, dlVars, loopVars>>
     ELSE /\ state' = [state EXCEPT ![current] = "DEAD"]
          /\ readyQueue' = ready_queue_remove(readyQueue, current)
          /\ arg' = current
          /\ RemoveStart(current, "sched")
          /\ UNCHANGED <<prio, frame, stacks, deadline, val, now>>
  /\ UNCHANGED <<timerVars, tickVars, current, cpu>>

-----------------------------------------------------------------------------
(* schedule()                                                              *)

\* check_deadlines reads the time once, at its start.
CheckStart ==
  /\ pc = "sched"
  /\ now' = ticks /\ cursor' = dhead /\ arg' = NoTask
  /\ pc' = "walk"
  /\ UNCHANGED <<taskVars, dlVars, val, timerVars, tickVars, current, cpu>>

Missed(t)      == deadline[t] # 0 /\ now > deadline[t]
Approaching(t) == deadline[t] # 0 /\ now <= deadline[t] /\ deadline[t] - now < BOOST_WINDOW

\* Mutant: the walk ends at a missed deadline.
CheckWalkStopsAtMiss ==
  /\ pc = "walk" /\ cursor # NoTask
  /\ deadline' = IF Missed(cursor) THEN [deadline EXCEPT ![cursor] = 0] ELSE deadline
  /\ IF Approaching(cursor) /\ prio[cursor] > 0
     THEN ChangePriority(cursor, 0)
     ELSE UNCHANGED <<prio, readyQueue>>
  /\ cursor' = IF Missed(cursor) THEN NoTask ELSE dnext[cursor]
  /\ UNCHANGED <<state, frame, stacks, dnext, dhead, arg, val, now, timerVars,
                 tickVars, current, cpu, pc>>

\* Mutant: the walk does not advance past a missed deadline.
CheckWalkStuckAtMiss ==
  /\ pc = "walk" /\ cursor # NoTask
  /\ deadline' = IF Missed(cursor) THEN [deadline EXCEPT ![cursor] = 0] ELSE deadline
  /\ IF Approaching(cursor) /\ prio[cursor] > 0
     THEN ChangePriority(cursor, 0)
     ELSE UNCHANGED <<prio, readyQueue>>
  /\ cursor' = IF deadline'[cursor] = 0 THEN cursor ELSE dnext[cursor]
  /\ UNCHANGED <<state, frame, stacks, dnext, dhead, arg, val, now, timerVars,
                 tickVars, current, cpu, pc>>

\* One turn of check_deadlines: clear a missed deadline, boost a near one.
CheckWalk ==
  /\ pc = "walk" /\ cursor # NoTask
  /\ deadline' = IF Missed(cursor) THEN [deadline EXCEPT ![cursor] = 0] ELSE deadline
  /\ IF Approaching(cursor) /\ prio[cursor] > 0
     THEN ChangePriority(cursor, 0)
     ELSE UNCHANGED <<prio, readyQueue>>
  /\ cursor' = dnext[cursor]
  /\ UNCHANGED <<state, frame, stacks, dnext, dhead, arg, val, now, timerVars,
                 tickVars, current, cpu, pc>>

CheckDone ==
  /\ pc = "walk" /\ cursor = NoTask
  /\ pc' = "requeue"
  /\ UNCHANGED <<taskVars, dlVars, loopVars, timerVars, tickVars, current, cpu>>

\* A caller that is still RUNNING goes back to the ready queue.
Requeue ==
  /\ pc = "requeue"
  /\ IF current # NoTask /\ state[current] = "RUNNING"
     THEN /\ state' = [state EXCEPT ![current] = "READY"]
          /\ readyQueue' = ready_queue_insert(readyQueue, current, prio[current])
     ELSE UNCHANGED <<state, readyQueue>>
  /\ pc' = "select"
  /\ UNCHANGED <<prio, frame, stacks, dlVars, loopVars, timerVars, tickVars, current, cpu>>

\* No ready task: schedule() returns to its caller.  task_exit and the boot
\* context halt then; any other caller runs on.
SelectNone ==
  /\ pc = "select" /\ readyQueue = <<>>
  /\ pc' = IF cpu = NoTask \/ (current # NoTask /\ state[current] = "DEAD")
           THEN "halt" ELSE "run"
  /\ current' = NoTask /\ now' = 0
  /\ UNCHANGED <<taskVars, dlVars, arg, val, cursor, timerVars, tickVars, cpu>>

\* Mutant: the caller is not saved.
SwitchFramesUnsaved(next) == frame' = [frame EXCEPT ![next] = "live"]

\* The head of the queue is dispatched.  ctx_switch saves the caller in the
\* slot of current, or in boot_sp_slot (never resumed) when there is none.
SwitchFrames(next) ==
  frame' = IF current = NoTask THEN [frame EXCEPT ![next] = "live"]
           ELSE [frame EXCEPT ![current] = "saved", ![next] = "live"]

SelectTask ==
  /\ pc = "select" /\ readyQueue # <<>>
  /\ LET next == Head(readyQueue) IN
       /\ state' = [state EXCEPT ![next] = "RUNNING"]
       /\ IF next = current
          THEN UNCHANGED <<frame, current, cpu>>
          ELSE SwitchFrames(next) /\ current' = next /\ cpu' = next
  /\ readyQueue' = Tail(readyQueue)
  /\ ticksRemaining' = QUANTUM
  /\ pc' = "run" /\ now' = 0
  /\ UNCHANGED <<prio, stacks, dlVars, arg, val, cursor, timerVars, disableCount, pending>>

-----------------------------------------------------------------------------
(* Timer interrupt and preemption control.                                 *)

\* scheduler_tick only marks a preemption pending; it never switches.
scheduler_tick ==
  LET left == IF ticksRemaining > 0 THEN ticksRemaining - 1 ELSE 0
      open == disableCount = 0
  IN /\ pending' = (pending \/ HigherReady \/ (open /\ left = 0 /\ EqualReady))
     /\ ticksRemaining' = IF open /\ left = 0 /\ ~EqualReady THEN QUANTUM ELSE left
     /\ UNCHANGED disableCount

Tick ==
  /\ pc # "halt" /\ ticks < MAX_TICKS
  /\ ticks' = ticks + 1
  /\ IF registered /\ current # NoTask THEN scheduler_tick ELSE UNCHANGED tickVars
  /\ UNCHANGED <<taskVars, dlVars, loopVars, registered, current, cpu, pc>>

scheduler_disable_preemption ==
  /\ pc = "run" /\ disableCount < MAX_DISABLE
  /\ disableCount' = disableCount + 1
  /\ UNCHANGED <<taskVars, dlVars, loopVars, timerVars, ticksRemaining, pending,
                 current, cpu, pc>>

\* The last enable honours a pending preemption if a task of higher priority
\* is still ready.
scheduler_enable_preemption ==
  /\ pc = "run" /\ disableCount > 0
  /\ disableCount' = disableCount - 1
  /\ IF disableCount = 1 /\ pending
     THEN /\ pending' = FALSE
          /\ pc' = IF current # NoTask /\ HigherReady THEN "sched" ELSE "run"
     ELSE UNCHANGED <<pending, pc>>
  /\ UNCHANGED <<taskVars, dlVars, loopVars, timerVars, ticksRemaining, current, cpu>>

-----------------------------------------------------------------------------
Init ==
  /\ state = [s \in Slots |-> "DEAD"]
  /\ prio = [s \in Slots |-> 0]
  /\ deadline = [s \in Slots |-> 0]
  /\ dnext = [s \in Slots |-> NoTask]
  /\ frame = [s \in Slots |-> "none"]
  /\ readyQueue = <<>>
  /\ dhead = NoTask /\ current = NoTask
  /\ ticksRemaining = 0 /\ disableCount = 0 /\ pending = FALSE
  /\ stacks = 0
  /\ cpu = NoTask /\ pc = "boot"
  /\ arg = NoTask /\ val = 0 /\ cursor = NoTask /\ now = 0
  /\ ticks = 0 /\ registered = FALSE

\* What the executing context does of its own accord.
TaskCall ==
  \/ Create \/ task_yield \/ task_block \/ task_exit
  \/ \E t \in Slots : \/ task_wake(t)
                      \/ \E p \in NewPriorities : task_set_priority(t, p)
                      \/ \E d \in Deadlines : task_set_deadline(t, d)
  \/ scheduler_disable_preemption \/ scheduler_enable_preemption

\* Straight-line kernel code, which goes on until it returns to the task.
KernelStep ==
  \/ BootShell \/ BootMonitor
  \/ RemoveWalk \/ SetDeadline \/ InsertWalk
  \/ CheckStart \/ CheckWalk \/ CheckDone \/ Requeue \/ SelectNone \/ SelectTask

Next == TaskCall \/ KernelStep \/ Tick \/ scheduler_register_timer

Spec == Init /\ [][Next]_vars

\* Kernel code keeps executing, and every task reaches its next yield, however
\* many calls it makes before: the bodies are loops around task_yield() or
\* schedule().
FairSpec == Spec /\ WF_vars(KernelStep) /\ SF_vars(task_yield)

-----------------------------------------------------------------------------
(* Properties.                                                             *)

\* A task is READY exactly when it is in the ready queue, and it is there
\* once: no step of schedule(), task_wake(), a boost or a priority change
\* orphans a task (the comment at task.c:773-776) or queues it twice.
QueueExact ==
  /\ \A s \in Slots : state[s] = "READY" <=> Contains(readyQueue, s)
  /\ IsInjective(readyQueue)

\* The queue is ordered by priority although priorities change under it, by
\* task_set_priority and by deadline boosts.
QueueSorted ==
  \A i, j \in 1..Len(readyQueue) : i < j => prio[readyQueue[i]] <= prio[readyQueue[j]]

\* The CPU executes the task the scheduler believes is running, only that
\* task is RUNNING, and a task blocked by task_block stays off the CPU
\* (task.c:912-920, "stays asleep until another task calls task_wake()").
RunningExecutes ==
  /\ \A s \in Slots : state[s] = "RUNNING" => s = current /\ s = cpu
  /\ pc = "run" => cpu # NoTask /\ state[cpu] = "RUNNING"

\* Every live task that is not executing can be resumed: its stack pointer
\* designates the initial frame or the frame ctx_switch saved last.
SuspendedResumable ==
  \A s \in Slots : state[s] \in {"READY", "BLOCKED"} /\ s # cpu
                    => frame[s] \in {"fresh", "saved"}

\* schedule() dispatches no task while one of higher priority is READY
\* (task.c:723).
DispatchHighest ==
  [][pc = "select" /\ pc' = "run" /\ current' # NoTask =>
       \A s \in Slots : state'[s] = "READY" => prio'[current'] <= prio'[s]]_vars

\* When the next task is selected, every live task whose deadline is near
\* has been boosted to priority 0 (task.c:725), whatever other calls have
\* done to its priority and to the deadline list.
NearDeadlineBoosted ==
  pc \in {"requeue", "select"} =>
    \A s \in Slots : state[s] # "DEAD" /\ Approaching(s) => prio[s] = 0

\* Between calls, every live task with a deadline is in the deadline list,
\* which is in order of deadlines and holds no dead task (task.c:1084-1085,
\* "tracked in a deadline-ordered list").
DeadlineListSound ==
  pc = "run" =>
    /\ \A s \in Slots : state[s] # "DEAD" /\ deadline[s] # 0 => s \in Listed
    /\ \A s \in Listed : /\ state[s] # "DEAD"
                          /\ dnext[s] # NoTask => deadline[s] <= deadline[dnext[s]]

\* Every call of schedule() ends: it reaches a task, or it halts when no task
\* is left.  The walk over the deadline list, whose entries misses, exits and
\* new deadlines rearrange between two calls, never runs in a circle.
ScheduleReturns == pc = "sched" ~> pc \in {"run", "halt"}

\* Round robin (task.c:724): a READY task runs eventually, unless a task of
\* higher priority is there or the CPU halts for want of tasks.
Outranked(s) == \E t \in Slots : state[t] \in {"READY", "RUNNING"} /\ prio[t] < prio[s]
EqualsShare  ==
  \A s \in Slots : state[s] = "READY" ~> state[s] # "READY" \/ Outranked(s) \/ pc = "halt"
=============================================================================

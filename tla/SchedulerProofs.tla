---------------------------- MODULE SchedulerProofs ----------------------------
(***************************************************************************)
(* Proofs about Scheduler for any number of tasks and priorities.          *)
(*                                                                         *)
(* TypeOK, the exactness and the order of the ready queue (task.c,         *)
(* ready_queue_insert and ready_queue_remove) and what the loops of        *)
(* schedule() rely on form the inductive invariant IInv.  On top of it,    *)
(* with a first task that always stays ready, ShellOK says which task's    *)
(* code the CPU executes.                                                  *)
(***************************************************************************)
EXTENDS Scheduler, QueueTheorems

\* ready_queue_insert stops behind the last task of the same or a higher
\* priority: the place it finds is in the queue, and splits it.
LEMMA InsertionPointPlace ==
  ASSUME NEW q \in Seq(Slots), NEW p \in Nat, prio \in [Slots -> Nat]
  PROVE  /\ InsertionPoint(q, p) \in 1..(Len(q) + 1)
         /\ \A j \in 1..Len(q) : j < InsertionPoint(q, p) => prio[q[j]] <= p
         /\ InsertionPoint(q, p) <= Len(q) => prio[q[InsertionPoint(q, p)]] > p
<1> DEFINE S == {i \in 1..Len(q) : prio[q[i]] > p} \cup {Len(q) + 1}
           k == Min(S)
<1>1. S \in SUBSET Nat /\ S # {} /\ S \subseteq 1..(Len(q) + 1)
  OBVIOUS
<1>2. k \in S /\ \A y \in S : k <= y
  BY <1>1, MinOfNaturals
<1>3. InsertionPoint(q, p) = k
  BY DEF InsertionPoint
<1> HIDE DEF k
<1>4. ASSUME NEW j \in 1..Len(q), j < k PROVE prio[q[j]] <= p
  <2>1. j \in S => k <= j
    BY <1>2
  <2>2. ~(k <= j)
    BY <1>1, <1>2, <1>4
  <2>3. ~(prio[q[j]] > p)
    BY <2>1, <2>2
  <2>4. prio[q[j]] \in Nat
    OBVIOUS
  <2> QED BY <2>3, <2>4
<1>5. k <= Len(q) => prio[q[k]] > p
  BY <1>2
<1> QED BY <1>1, <1>2, <1>3, <1>4, <1>5

\* ready_queue_insert adds the task, once, at a place that keeps the order.
LEMMA InsertFacts ==
  ASSUME NEW q \in Seq(Slots), NEW t \in Slots, NEW p \in Nat, prio \in [Slots -> Nat]
  PROVE  LET r == ready_queue_insert(q, t, p)
         IN  /\ r \in Seq(Slots)
             /\ \A s \in Slots : Contains(r, s) <=> Contains(q, s) \/ s = t
             /\ IsInjective(q) /\ ~Contains(q, t) => IsInjective(r)
             /\ \A f \in [Slots -> Nat] :
                  /\ SortedBy(q, prio) /\ ~Contains(q, t)
                  /\ f[t] = p /\ \A s \in Slots \ {t} : f[s] = prio[s]
                  => SortedBy(r, f)
<1> DEFINE k == InsertionPoint(q, p)
           r == ready_queue_insert(q, t, p)
<1>1. /\ k \in 1..(Len(q) + 1)
      /\ \A j \in 1..Len(q) : j < k => prio[q[j]] <= p
      /\ k <= Len(q) => prio[q[k]] > p
  BY InsertionPointPlace
<1>2. r = InsertAt(q, k, t)
  BY DEF ready_queue_insert
<1> HIDE DEF k, r
<1>3. r \in Seq(Slots)
  BY <1>1, <1>2, InsertAtSeq
<1>4. /\ \A s \in Slots : Contains(r, s) <=> Contains(q, s) \/ s = t
      /\ IsInjective(q) /\ ~Contains(q, t) => IsInjective(r)
  BY <1>1, <1>2, InsertAtFacts
<1>5. ASSUME NEW f \in [Slots -> Nat], SortedBy(q, prio), ~Contains(q, t),
             f[t] = p, \A s \in Slots \ {t} : f[s] = prio[s]
      PROVE  SortedBy(r, f)
  <2>1. \A j \in 1..Len(q) : q[j] \in Slots /\ q[j] # t
    BY <1>5 DEF Contains
  <2>2. \A j \in 1..Len(q) : f[q[j]] = prio[q[j]] /\ f[q[j]] \in Nat
    BY <1>5, <2>1
  <2>3. SortedBy(q, f)
    BY <1>5, <2>2 DEF SortedBy
  <2>4. \A j \in 1..Len(q) : j < k => f[q[j]] <= f[t]
    BY <1>1, <1>5, <2>2
  <2>5. k <= Len(q) => f[q[k]] >= f[t]
    <3>1. ASSUME k <= Len(q) PROVE k \in 1..Len(q)
      BY <1>1, <3>1
    <3> QED BY <1>1, <1>5, <2>2, <3>1
  <2> QED BY <1>1, <1>2, <2>3, <2>4, <2>5, InsertAtFacts
<1> QED BY <1>3, <1>4, <1>5 DEF r

\* ready_queue_remove removes the task, if it is there, and nothing else.
LEMMA RemoveFacts ==
  ASSUME NEW q \in Seq(Slots), NEW t \in Slots, IsInjective(q)
  PROVE  LET r == ready_queue_remove(q, t)
         IN  /\ r \in Seq(Slots)
             /\ \A s \in Slots : Contains(r, s) <=> Contains(q, s) /\ s # t
             /\ IsInjective(r)
             /\ \A f \in [Slots -> Nat] : SortedBy(q, f) => SortedBy(r, f)
<1> DEFINE r == ready_queue_remove(q, t)
<1>1. CASE Places(q, t) = {}
  <2>1. r = q
    BY <1>1 DEF ready_queue_remove
  <2>2. ~Contains(q, t)
    BY <1>1 DEF Places, Contains
  <2> QED BY <2>1, <2>2
<1>2. CASE Places(q, t) # {}
  <2> DEFINE k == Min(Places(q, t))
  <2>1. Places(q, t) \in SUBSET Nat
    BY DEF Places
  <2>2. k \in Places(q, t)
    BY <1>2, <2>1, MinOfNaturals
  <2>3. k \in 1..Len(q) /\ q[k] = t
    BY <2>2 DEF Places
  <2>4. r = RemoveAt(q, k)
    BY <1>2 DEF ready_queue_remove
  <2> HIDE DEF k, r
  <2> QED BY <2>3, <2>4, RemoveAtFacts DEF r
<1> QED BY <1>1, <1>2
-----------------------------------------------------------------------------
(* The inductive invariant.                                                *)

\* The loops over the deadline list hold a task to work on and a position.
LoopOK ==
  /\ pc \in {"rmwalk", "inswalk"} => cursor # NoTask
  /\ pc \in {"rmwalk", "dset", "inswalk"} => arg # NoTask

\* Who is RUNNING: only the current task, which executes; at pc "run" and in
\* task_set_deadline it is RUNNING indeed, and during the selection nobody is.
RunOK ==
  /\ \A s \in Slots : state[s] = "RUNNING" => s = current /\ s = cpu
  /\ pc = "select" => \A s \in Slots : state[s] # "RUNNING"
  /\ current # NoTask /\ state[current] = "READY" => pc = "select" /\ current = cpu
  /\ pc \in {"run", "dset", "inswalk"} /\ current # NoTask => state[current] = "RUNNING"
  /\ pc = "rmwalk" /\ current # NoTask /\ state[arg] # "DEAD" => state[current] = "RUNNING"
  /\ pc \in {"boot", "boot2"} => current = NoTask

QueueOK == QueueExact /\ SortedBy(readyQueue, prio)

IInv == TypeOK /\ LoopOK /\ QueueOK /\ RunOK

\* The part of the state the queue invariants speak about.
queueVars == <<state, prio, readyQueue>>

\* A step that leaves states, priorities and the queue alone keeps it right:
\* ticks, preemption counters and the deadline loops are such steps.
LEMMA QueueUnchanged == QueueOK /\ UNCHANGED queueVars => QueueOK'
  BY DEF QueueOK, QueueExact, SortedBy, queueVars, Contains, IsInjective

\* task_create's clamp yields a priority in range.
LEMMA ClampRange ==
  ASSUME NEW p \in Nat PROVE Clamp(p) \in 0..MAX_PRIO
  BY ConstantsAssumption DEF Clamp

\* A task that enters the ready queue as its state becomes READY.
LEMMA EnqueueKeepsQueue ==
  ASSUME TypeOK, QueueOK, NEW t \in Slots, state[t] # "READY", NEW p \in 0..MAX_PRIO,
         state' = [state EXCEPT ![t] = "READY"],
         prio' = [prio EXCEPT ![t] = p],
         readyQueue' = ready_queue_insert(readyQueue, t, p)
  PROVE  QueueOK' /\ readyQueue' \in Seq(Slots)
<1>1. readyQueue \in Seq(Slots) /\ prio \in [Slots -> Nat] /\ p \in Nat
  BY ConstantsAssumption DEF TypeOK
<1>2. ~Contains(readyQueue, t) /\ IsInjective(readyQueue) /\ SortedBy(readyQueue, prio)
  BY DEF QueueOK, QueueExact
<1>3. prio' \in [Slots -> Nat] /\ prio'[t] = p /\ \A s \in Slots \ {t} : prio'[s] = prio[s]
  BY <1>1
<1>4. /\ readyQueue' \in Seq(Slots)
      /\ \A s \in Slots : Contains(readyQueue', s) <=> Contains(readyQueue, s) \/ s = t
      /\ IsInjective(readyQueue')
      /\ SortedBy(readyQueue', prio')
  BY <1>1, <1>2, <1>3, InsertFacts
<1>5. \A s \in Slots : state'[s] = "READY" <=> state[s] = "READY" \/ s = t
  BY DEF TypeOK
<1> QED BY <1>4, <1>5 DEF QueueOK, QueueExact

\* ChangePriority moves a READY task and keeps the queue exact and sorted.
LEMMA ChangePriorityKeepsQueue ==
  ASSUME TypeOK, QueueOK, NEW t \in Slots, NEW p \in 0..MAX_PRIO,
         ChangePriority(t, p), state' = state
  PROVE  QueueOK' /\ readyQueue' \in Seq(Slots) /\ prio' \in [Slots -> 0..MAX_PRIO]
<1>1. readyQueue \in Seq(Slots) /\ prio \in [Slots -> Nat] /\ p \in Nat
  BY ConstantsAssumption DEF TypeOK
<1>2. IsInjective(readyQueue) /\ SortedBy(readyQueue, prio)
  BY DEF QueueOK, QueueExact
<1>3. /\ prio' \in [Slots -> Nat] /\ prio'[t] = p /\ \A s \in Slots \ {t} : prio'[s] = prio[s]
      /\ prio' \in [Slots -> 0..MAX_PRIO]
  BY <1>1 DEF ChangePriority, TypeOK
<1>4. CASE state[t] = "READY"
  <2> DEFINE q == ready_queue_remove(readyQueue, t)
  <2>1. /\ q \in Seq(Slots) /\ IsInjective(q) /\ SortedBy(q, prio)
        /\ \A s \in Slots : Contains(q, s) <=> Contains(readyQueue, s) /\ s # t
    BY <1>1, <1>2, RemoveFacts
  <2>2. readyQueue' = ready_queue_insert(q, t, p)
    BY <1>4 DEF ChangePriority
  <2> HIDE DEF q
  <2>3. ~Contains(q, t)
    BY <2>1
  <2>4. /\ readyQueue' \in Seq(Slots)
        /\ \A s \in Slots : Contains(readyQueue', s) <=> Contains(q, s) \/ s = t
        /\ IsInjective(readyQueue')
        /\ SortedBy(readyQueue', prio')
    BY <1>1, <1>3, <2>1, <2>2, <2>3, InsertFacts
  <2>5. \A s \in Slots : Contains(readyQueue', s) <=> Contains(readyQueue, s)
    BY <1>4, <2>1, <2>4 DEF QueueOK, QueueExact
  <2> QED BY <1>3, <2>4, <2>5 DEF QueueOK, QueueExact
<1>5. CASE state[t] # "READY"
  <2>1. readyQueue' = readyQueue
    BY <1>5 DEF ChangePriority
  <2>2. ~Contains(readyQueue, t)
    BY <1>5 DEF QueueOK, QueueExact
  <2>3. \A j \in 1..Len(readyQueue) : readyQueue[j] \in Slots \ {t}
    BY <1>1, <2>2 DEF Contains
  <2>4. SortedBy(readyQueue', prio')
    BY <1>2, <1>3, <2>1, <2>3 DEF SortedBy
  <2>5. QueueExact'
    BY <2>1 DEF QueueOK, QueueExact
  <2> QED BY <1>1, <1>3, <2>1, <2>4, <2>5 DEF QueueOK
<1> QED BY <1>4, <1>5

\* A task that stops RUNNING leaves the queue as it was.
LEMMA StopKeepsQueue ==
  ASSUME TypeOK, QueueOK, NEW t \in Slots, state[t] # "READY",
         NEW x \in States \ {"READY"}, state' = [state EXCEPT ![t] = x],
         UNCHANGED <<prio, readyQueue>>
  PROVE  QueueOK'
<1>1. \A s \in Slots : state'[s] = "READY" <=> state[s] = "READY"
  BY DEF TypeOK
<1> QED BY <1>1 DEF QueueOK, QueueExact, SortedBy, Contains, IsInjective

\* The slot task_create picks is DEAD, so it is in no queue.
LEMMA FreeSlotDead ==
  ASSUME DeadSlots # {} PROVE FreeSlot \in Slots /\ state[FreeSlot] = "DEAD"
<1>1. DeadSlots \in SUBSET Nat
  BY ConstantsAssumption DEF DeadSlots, Slots
<1>2. FreeSlot \in DeadSlots
  BY <1>1, MinOfNaturals DEF FreeSlot
<1> QED BY <1>2 DEF DeadSlots
-----------------------------------------------------------------------------
(* Each part of the invariant is kept by every step.                       *)

\* The outcomes of task_create keep the types of what it writes.
LEMMA CreateKeepsType ==
  ASSUME TypeOK, QueueOK, NEW p \in Nat, task_create(p)
  PROVE  /\ QueueOK'
         /\ state' \in [Slots -> States] /\ prio' \in [Slots -> 0..MAX_PRIO]
         /\ deadline' \in [Slots -> Nat] /\ dnext' \in [Slots -> Slots \cup {NoTask}]
         /\ frame' \in [Slots -> Frames] /\ readyQueue' \in Seq(Slots)
         /\ stacks' \in 0..HEAP_STACKS /\ dhead' = dhead
         /\ \A s \in Slots : state'[s] # state[s] => state[s] = "DEAD" /\ state'[s] = "READY"
<1>1. CASE CreateNoSlot
  <2>1. UNCHANGED queueVars
    BY <1>1 DEF CreateNoSlot, taskVars, queueVars
  <2> QED BY <1>1, <2>1, QueueUnchanged DEF CreateNoSlot, TypeOK, taskVars, dlVars
<1> DEFINE f == FreeSlot
<1>2. CASE CreateNoStack(p)
  <2>1. f \in Slots /\ state[f] = "DEAD"
    BY <1>2, FreeSlotDead DEF CreateNoStack
  <2>2. Clamp(p) \in 0..MAX_PRIO
    BY ClampRange
  <2> HIDE DEF f
  <2>3. /\ prio' = [prio EXCEPT ![f] = Clamp(p)]
        /\ deadline' = [deadline EXCEPT ![f] = 0]
        /\ dnext' = [dnext EXCEPT ![f] = NoTask]
        /\ UNCHANGED <<dhead, state, frame, readyQueue, stacks>>
    BY <1>2 DEF CreateNoStack, CreateInit, f
  <2>4. ChangePriority(f, Clamp(p))
    BY <2>1, <2>3 DEF ChangePriority
  <2>5. QueueOK' /\ prio' \in [Slots -> 0..MAX_PRIO]
    BY <2>1, <2>2, <2>3, <2>4, ChangePriorityKeepsQueue
  <2> QED BY <2>1, <2>3, <2>5 DEF TypeOK
<1>3. CASE CreateOk(p)
  <2>1. f \in Slots /\ state[f] = "DEAD"
    BY <1>3, FreeSlotDead DEF CreateOk
  <2>2. Clamp(p) \in 0..MAX_PRIO
    BY ClampRange
  <2> HIDE DEF f
  <2>3. /\ prio' = [prio EXCEPT ![f] = Clamp(p)]
        /\ deadline' = [deadline EXCEPT ![f] = 0]
        /\ dnext' = [dnext EXCEPT ![f] = NoTask]
        /\ state' = [state EXCEPT ![f] = "READY"]
        /\ frame' = [frame EXCEPT ![f] = "fresh"]
        /\ stacks < HEAP_STACKS /\ stacks' = stacks + 1
        /\ readyQueue' = ready_queue_insert(readyQueue, f, Clamp(p))
        /\ dhead' = dhead
    BY <1>3 DEF CreateOk, CreateInit, f
  <2>4. QueueOK' /\ readyQueue' \in Seq(Slots)
    BY <2>1, <2>2, <2>3, EnqueueKeepsQueue
  <2>5. stacks' \in 0..HEAP_STACKS
    BY <2>3, ConstantsAssumption DEF TypeOK
  <2>6. state' \in [Slots -> States] /\ frame' \in [Slots -> Frames]
    BY <2>1, <2>3 DEF TypeOK, States, Frames
  <2>7. /\ prio' \in [Slots -> 0..MAX_PRIO] /\ deadline' \in [Slots -> Nat]
        /\ dnext' \in [Slots -> Slots \cup {NoTask}]
    BY <2>1, <2>2, <2>3 DEF TypeOK
  <2>8. \A s \in Slots : state'[s] # state[s] => state[s] = "DEAD" /\ state'[s] = "READY"
    BY <2>1, <2>3 DEF TypeOK
  <2> QED BY <2>3, <2>4, <2>5, <2>6, <2>7, <2>8
<1> QED BY <1>1, <1>2, <1>3 DEF task_create
\* Every assignment of task.c keeps its field in its type: the bounded counters
\* stay in range and the priorities valid indices.
LEMMA TypeStep ==
  ASSUME IInv, [Next]_vars PROVE TypeOK'
<1> USE DEF vars, taskVars, dlVars, loopVars, timerVars, tickVars
<1>0. TypeOK /\ LoopOK /\ QueueOK
  BY DEF IInv
<1>1. ASSUME NEW from \in PCs, NEW to \in PCs, NEW p \in Nat, BootStep(from, to, p)
      PROVE  TypeOK'
  <2>1. task_create(p) /\ pc' \in PCs
    BY <1>1 DEF BootStep, PCs
  <2>2. UNCHANGED <<loopVars, timerVars, tickVars, current, cpu>>
    BY <1>1 DEF BootStep
  <2> QED BY <1>0, <2>1, <2>2, CreateKeepsType DEF TypeOK
<1>2. CASE BootShell
  <2>1. MAX_PRIO \in Nat /\ "boot" \in PCs /\ "boot2" \in PCs
    BY ConstantsAssumption DEF PCs
  <2> QED BY <1>1, <1>2, <2>1 DEF BootShell
<1>3. CASE BootMonitor
  <2>1. Priorities \subseteq Nat /\ "sched" \in PCs /\ "boot2" \in PCs
    BY ConstantsAssumption DEF PCs
  <2> QED BY <1>1, <1>3, <2>1 DEF BootMonitor
<1>4. CASE Create
  <2>1. PICK p \in Priorities : task_create(p)
    BY <1>4 DEF Create
  <2>2. p \in Nat
    BY ConstantsAssumption
  <2>3. UNCHANGED <<loopVars, timerVars, tickVars, current, cpu, pc>>
    BY <1>4 DEF Create
  <2> QED BY <1>0, <2>1, <2>2, <2>3, CreateKeepsType DEF TypeOK
<1>5. CASE scheduler_register_timer
  BY <1>0, <1>5 DEF TypeOK, scheduler_register_timer
<1>6. CASE task_yield
  BY <1>0, <1>6 DEF TypeOK, task_yield, PCs
<1>7. CASE task_block
  BY <1>0, <1>7 DEF TypeOK, task_block, PCs, States
<1>8. CASE task_exit
  <2>1. CASE current = NoTask
    BY <1>0, <1>8, <2>1 DEF TypeOK, task_exit, PCs
  <2>2. CASE current # NoTask
    <3>1. current \in Slots /\ IsInjective(readyQueue) /\ readyQueue \in Seq(Slots)
      BY <1>0, <2>2 DEF TypeOK, QueueOK, QueueExact
    <3>2. ready_queue_remove(readyQueue, current) \in Seq(Slots)
      BY <3>1, RemoveFacts
    <3>3. /\ dhead' \in Slots \cup {NoTask} /\ dnext' \in [Slots -> Slots \cup {NoTask}]
          /\ cursor' \in Slots \cup {NoTask} /\ pc' \in PCs
      BY <1>0, <1>8, <2>2, <3>1 DEF TypeOK, task_exit, RemoveStart, PCs
    <3>4. readyQueue' = ready_queue_remove(readyQueue, current) /\ arg' = current
          /\ state' = [state EXCEPT ![current] = "DEAD"]
          /\ UNCHANGED <<prio, frame, stacks, deadline, val, now, timerVars, tickVars,
                         current, cpu>>
      BY <1>8, <2>2 DEF task_exit
    <3> QED BY <1>0, <3>1, <3>2, <3>3, <3>4 DEF TypeOK, States
  <2> QED BY <2>1, <2>2
<1>9. ASSUME NEW t \in Slots, task_wake(t) PROVE TypeOK'
  <2>1. prio[t] \in 0..MAX_PRIO /\ state[t] # "READY" /\ prio' = [prio EXCEPT ![t] = prio[t]]
        /\ state' = [state EXCEPT ![t] = "READY"]
        /\ readyQueue' = ready_queue_insert(readyQueue, t, prio[t])
    BY <1>0, <1>9 DEF task_wake, TypeOK
  <2>2. readyQueue' \in Seq(Slots)
    BY <1>0, <2>1, EnqueueKeepsQueue
  <2> QED BY <1>0, <1>9, <2>1, <2>2 DEF TypeOK, task_wake, States
<1>10. ASSUME NEW t \in Slots, NEW p \in NewPriorities, task_set_priority(t, p)
       PROVE  TypeOK'
  <2>1. Clamp(p) \in 0..MAX_PRIO
    BY ClampRange, ConstantsAssumption
  <2>2. ChangePriority(t, Clamp(p)) /\ state' = state
    BY <1>10 DEF task_set_priority
  <2>3. readyQueue' \in Seq(Slots) /\ prio' \in [Slots -> 0..MAX_PRIO]
    BY <1>0, <2>1, <2>2, ChangePriorityKeepsQueue
  <2> QED BY <1>0, <1>10, <2>3 DEF TypeOK, task_set_priority
<1>11. ASSUME NEW t \in Slots, NEW d \in Deadlines, task_set_deadline(t, d)
       PROVE  TypeOK'
  <2>1. d \in Nat
    BY ConstantsAssumption
  <2>2. /\ dhead' \in Slots \cup {NoTask} /\ dnext' \in [Slots -> Slots \cup {NoTask}]
        /\ cursor' \in Slots \cup {NoTask} /\ pc' \in PCs
    BY <1>0, <1>11 DEF TypeOK, task_set_deadline, RemoveStart, PCs
  <2> QED BY <1>0, <1>11, <2>1, <2>2 DEF TypeOK, task_set_deadline
<1>12. CASE scheduler_disable_preemption
  BY <1>0, <1>12, ConstantsAssumption DEF TypeOK, scheduler_disable_preemption
<1>13. CASE scheduler_enable_preemption
  <2>1. disableCount' \in 0..MAX_DISABLE
    BY <1>0, <1>13, ConstantsAssumption DEF TypeOK, scheduler_enable_preemption
  <2>2. pending' \in BOOLEAN
    BY <1>0, <1>13, Zenon DEF TypeOK, scheduler_enable_preemption
  <2>3. pc' \in PCs
    <3>1. pc' \in {pc, "sched", "run"}
      BY <1>13, Zenon DEF scheduler_enable_preemption
    <3> QED BY <1>0, <3>1 DEF TypeOK, PCs
  <2> QED BY <1>0, <1>13, <2>1, <2>2, <2>3 DEF TypeOK, scheduler_enable_preemption
<1>14. CASE RemoveWalk
  BY <1>0, <1>14 DEF TypeOK, LoopOK, RemoveWalk, AfterRemove, PCs
<1>15. CASE SetDeadline
  <2>1. arg \in Slots
    BY <1>0, <1>15 DEF TypeOK, LoopOK, SetDeadline
  <2>2. deadline' \in [Slots -> Nat]
    BY <1>0, <1>15, <2>1 DEF TypeOK, SetDeadline
  <2> DEFINE long == dhead # NoTask /\ val # 0 /\ val >= deadline'[dhead]
  <2> HIDE DEF long
  <2>3. CASE long
    <3>1. pc' = "inswalk" /\ cursor' = dhead /\ UNCHANGED <<dnext, dhead, arg, val>>
      BY <1>15, <2>3 DEF SetDeadline, long
    <3> QED BY <1>0, <1>15, <2>2, <3>1 DEF TypeOK, SetDeadline, PCs
  <2>4. CASE ~long
    <3>1. /\ IF val = 0 THEN UNCHANGED <<dnext, dhead>>
             ELSE dnext' = [dnext EXCEPT ![arg] = dhead] /\ dhead' = arg
          /\ pc' = "run" /\ arg' = NoTask /\ val' = 0 /\ UNCHANGED cursor
      BY <1>15, <2>4 DEF SetDeadline, long
    <3>2. dnext' \in [Slots -> Slots \cup {NoTask}] /\ dhead' \in Slots \cup {NoTask}
      BY <1>0, <2>1, <3>1 DEF TypeOK
    <3> QED BY <1>0, <1>15, <2>2, <3>1, <3>2 DEF TypeOK, SetDeadline, PCs
  <2> QED BY <2>3, <2>4
<1>16. CASE InsertWalk
  <2>1. arg \in Slots /\ cursor \in Slots
    BY <1>0, <1>16 DEF TypeOK, LoopOK, InsertWalk
  <2> DEFINE more == dnext[cursor] # NoTask /\ deadline[dnext[cursor]] <= val
  <2> HIDE DEF more
  <2>2. CASE more
    <3>1. cursor' = dnext[cursor] /\ UNCHANGED <<dnext, arg, val, pc>>
      BY <1>16, <2>2 DEF InsertWalk, more
    <3> QED BY <1>0, <1>16, <2>1, <3>1 DEF TypeOK, InsertWalk
  <2>3. CASE ~more
    <3>1. /\ dnext' = [[dnext EXCEPT ![arg] = dnext[cursor]] EXCEPT ![cursor] = arg]
          /\ pc' = "run" /\ cursor' = NoTask /\ arg' = NoTask /\ val' = 0
      BY <1>16, <2>3 DEF InsertWalk, more
    <3>2. dnext' \in [Slots -> Slots \cup {NoTask}]
      BY <1>0, <2>1, <3>1 DEF TypeOK
    <3> QED BY <1>0, <1>16, <3>1, <3>2 DEF TypeOK, InsertWalk, PCs
  <2> QED BY <2>2, <2>3
<1>17. CASE CheckStart
  BY <1>0, <1>17, ConstantsAssumption DEF TypeOK, CheckStart, PCs
<1>18. CASE CheckWalk
  <2>1. cursor \in Slots /\ 0 \in 0..MAX_PRIO
    BY <1>0, <1>18, ConstantsAssumption DEF TypeOK, CheckWalk
  <2>2. readyQueue' \in Seq(Slots) /\ prio' \in [Slots -> 0..MAX_PRIO]
    <3>1. CASE Approaching(cursor) /\ prio[cursor] > 0
      <4>1. ChangePriority(cursor, 0) /\ state' = state
        BY <1>18, <3>1 DEF CheckWalk
      <4> QED BY <1>0, <2>1, <4>1, ChangePriorityKeepsQueue
    <3>2. CASE ~(Approaching(cursor) /\ prio[cursor] > 0)
      BY <1>0, <1>18, <3>2 DEF CheckWalk, TypeOK
    <3> QED BY <3>1, <3>2
  <2>3. deadline' \in [Slots -> Nat] /\ cursor' \in Slots \cup {NoTask}
    BY <1>0, <1>18, <2>1 DEF CheckWalk, TypeOK
  <2> QED BY <1>0, <1>18, <2>2, <2>3 DEF TypeOK, CheckWalk
<1>19. CASE CheckDone
  BY <1>0, <1>19 DEF TypeOK, CheckDone, PCs
<1>20. CASE Requeue
  <2>1. state' \in [Slots -> States] /\ readyQueue' \in Seq(Slots)
    <3>1. CASE current # NoTask /\ state[current] = "RUNNING"
      <4>1. /\ current \in Slots /\ prio[current] \in 0..MAX_PRIO
            /\ prio' = [prio EXCEPT ![current] = prio[current]]
            /\ state' = [state EXCEPT ![current] = "READY"]
            /\ readyQueue' = ready_queue_insert(readyQueue, current, prio[current])
        BY <1>0, <1>20, <3>1 DEF TypeOK, Requeue
      <4>2. readyQueue' \in Seq(Slots)
        BY <1>0, <3>1, <4>1, EnqueueKeepsQueue
      <4> QED BY <1>0, <4>1, <4>2 DEF TypeOK, States
    <3>2. CASE ~(current # NoTask /\ state[current] = "RUNNING")
      BY <1>0, <1>20, <3>2 DEF TypeOK, Requeue
    <3> QED BY <3>1, <3>2
  <2> QED BY <1>0, <1>20, <2>1 DEF TypeOK, Requeue, PCs
<1>21. CASE SelectNone
  BY <1>0, <1>21 DEF TypeOK, SelectNone, PCs
<1>22. CASE SelectTask
  <2> DEFINE next == Head(readyQueue)
  <2>1. next \in Slots /\ Tail(readyQueue) \in Seq(Slots)
    BY <1>0, <1>22, TailFacts DEF TypeOK, QueueOK, QueueExact, SelectTask
  <2>2. /\ state' = [state EXCEPT ![next] = "RUNNING"]
        /\ IF next = current
           THEN UNCHANGED <<frame, current, cpu>>
           ELSE SwitchFrames(next) /\ current' = next /\ cpu' = next
        /\ readyQueue' = Tail(readyQueue)
    BY <1>22 DEF SelectTask
  <2> HIDE DEF next
  <2>3. frame' \in [Slots -> Frames] /\ current' \in Slots \cup {NoTask}
        /\ cpu' \in Slots \cup {NoTask}
    BY <1>0, <2>1, <2>2 DEF TypeOK, SwitchFrames, Frames
  <2>4. state' \in [Slots -> States] /\ readyQueue' \in Seq(Slots)
    BY <1>0, <2>1, <2>2 DEF TypeOK, States
  <2>5. ticksRemaining' \in 0..QUANTUM /\ pc' \in PCs /\ now' \in Nat
        /\ UNCHANGED <<prio, stacks, dlVars, arg, val, cursor, timerVars, disableCount, pending>>
    BY <1>22, ConstantsAssumption DEF SelectTask, PCs
  <2> QED BY <1>0, <2>3, <2>4, <2>5 DEF TypeOK
<1>23. CASE Tick
  <2>1. pending' \in BOOLEAN
    BY <1>0, <1>23 DEF TypeOK, Tick, scheduler_tick
  <2>2. ticksRemaining' \in 0..QUANTUM /\ disableCount' \in 0..MAX_DISABLE
        /\ ticks' \in 0..MAX_TICKS
    BY <1>0, <1>23, ConstantsAssumption DEF TypeOK, Tick, scheduler_tick
  <2> QED BY <1>0, <1>23, <2>1, <2>2 DEF TypeOK, Tick
<1>24. CASE UNCHANGED vars
  BY <1>0, <1>24 DEF TypeOK
<1> QED BY <1>2, <1>3, <1>4, <1>5, <1>6, <1>7, <1>8, <1>9, <1>10, <1>11, <1>12, <1>13,
           <1>14, <1>15, <1>16, <1>17, <1>18, <1>19, <1>20, <1>21, <1>22, <1>23, <1>24
        DEF Next, TaskCall, KernelStep
\* The loops over the deadline list are entered with a task and a position,
\* and leave the loop before the position becomes NULL.
LEMMA LoopStep ==
  ASSUME IInv, [Next]_vars PROVE LoopOK'
<1> USE DEF LoopOK, vars, taskVars, dlVars, loopVars, timerVars, tickVars
<1>0. TypeOK /\ LoopOK
  BY DEF IInv
<1>1. CASE KernelStep
  <2>1. CASE BootShell \/ BootMonitor
    BY <2>1 DEF BootShell, BootMonitor, BootStep
  <2>2. CASE RemoveWalk
    BY <1>0, <2>2 DEF RemoveWalk, AfterRemove
  <2>3. CASE SetDeadline
    BY <1>0, <2>3 DEF SetDeadline
  <2>4. CASE InsertWalk
    BY <1>0, <2>4 DEF InsertWalk
  <2>5. CASE CheckStart \/ CheckWalk \/ CheckDone \/ Requeue
    BY <2>5 DEF CheckStart, CheckWalk, CheckDone, Requeue
  <2>6. CASE SelectNone
    <3>1. pc' \in {"halt", "run"}
      BY <2>6 DEF SelectNone
    <3> QED BY <3>1
  <2>7. CASE SelectTask
    BY <2>7 DEF SelectTask
  <2> QED BY <1>1, <2>1, <2>2, <2>3, <2>4, <2>5, <2>6, <2>7 DEF KernelStep
<1>2. CASE TaskCall
  <2>1. CASE Create \/ task_yield \/ task_block
    BY <2>1 DEF Create, task_yield, task_block
  <2>2. CASE task_exit
    BY <1>0, <2>2 DEF task_exit, RemoveStart, TypeOK
  <2>3. ASSUME NEW t \in Slots, task_wake(t) PROVE LoopOK'
    BY <2>3 DEF task_wake
  <2>4. ASSUME NEW t \in Slots, NEW p \in NewPriorities, task_set_priority(t, p)
        PROVE  LoopOK'
    BY <2>4 DEF task_set_priority
  <2>5. ASSUME NEW t \in Slots, NEW d \in Deadlines, task_set_deadline(t, d)
        PROVE  LoopOK'
    <3>1. arg' = t /\ t # NoTask
      BY <2>5 DEF task_set_deadline, Slots, NoTask
    <3>2. RemoveStart(t, "dset") \/ pc' = "dset"
      BY <2>5, Zenon DEF task_set_deadline
    <3>3. pc' = "dset" \/ (pc' = "rmwalk" /\ cursor' # NoTask)
      <4>1. dhead \notin {NoTask, t} => dhead # NoTask
        OBVIOUS
      <4> QED BY <3>2, <4>1, Zenon DEF RemoveStart
    <3> QED BY <3>1, <3>3
  <2>6. CASE scheduler_disable_preemption \/ scheduler_enable_preemption
    <3>1. pc' \in {"run", "sched"}
      BY <2>6, Zenon DEF scheduler_disable_preemption, scheduler_enable_preemption
    <3> QED BY <3>1
  <2> QED BY <1>2, <2>1, <2>2, <2>3, <2>4, <2>5, <2>6 DEF TaskCall
<1>3. CASE Tick \/ scheduler_register_timer \/ UNCHANGED vars
  BY <1>0, <1>3 DEF Tick, scheduler_register_timer
<1> QED BY <1>1, <1>2, <1>3 DEF Next

\* task_create, task_wake, task_set_priority, task_exit, the boosts and
\* schedule() keep the ready queue exact and sorted.
LEMMA QueueStep ==
  ASSUME IInv, [Next]_vars PROVE QueueOK'
<1> USE DEF vars, taskVars, dlVars, loopVars, timerVars, tickVars, queueVars
<1>0. TypeOK /\ QueueOK /\ RunOK
  BY DEF IInv
<1>1. CASE KernelStep
  <2>1. CASE BootShell
    <3>1. MAX_PRIO \in Nat /\ task_create(MAX_PRIO)
      BY <2>1, ConstantsAssumption DEF BootShell, BootStep
    <3> QED BY <1>0, <3>1, CreateKeepsType
  <2>2. CASE BootMonitor
    <3>1. PICK p \in Priorities : task_create(p)
      BY <2>2 DEF BootMonitor, BootStep
    <3> QED BY <1>0, <3>1, ConstantsAssumption, CreateKeepsType
  <2>3. CASE RemoveWalk \/ SetDeadline \/ InsertWalk \/ CheckStart \/ CheckDone \/ SelectNone
    <3>1. UNCHANGED queueVars
      BY <2>3, Zenon DEF RemoveWalk, SetDeadline, InsertWalk, CheckStart, CheckDone, SelectNone
    <3> QED BY <1>0, <3>1, QueueUnchanged
  <2>4. CASE CheckWalk
    <3>1. CASE Approaching(cursor) /\ prio[cursor] > 0
      <4>1. ChangePriority(cursor, 0) /\ state' = state /\ cursor \in Slots /\ 0 \in 0..MAX_PRIO
        BY <1>0, <2>4, <3>1, ConstantsAssumption DEF CheckWalk, TypeOK
      <4> QED BY <1>0, <4>1, ChangePriorityKeepsQueue
    <3>2. CASE ~(Approaching(cursor) /\ prio[cursor] > 0)
      BY <1>0, <2>4, <3>2, QueueUnchanged DEF CheckWalk
    <3> QED BY <3>1, <3>2
  <2>5. CASE Requeue
    <3>1. CASE current # NoTask /\ state[current] = "RUNNING"
      <4>1. /\ current \in Slots /\ prio[current] \in 0..MAX_PRIO
            /\ prio' = [prio EXCEPT ![current] = prio[current]]
            /\ state' = [state EXCEPT ![current] = "READY"]
            /\ readyQueue' = ready_queue_insert(readyQueue, current, prio[current])
        BY <1>0, <2>5, <3>1 DEF TypeOK, Requeue
      <4> QED BY <1>0, <3>1, <4>1, EnqueueKeepsQueue
    <3>2. CASE ~(current # NoTask /\ state[current] = "RUNNING")
      BY <1>0, <2>5, <3>2, QueueUnchanged DEF Requeue
    <3> QED BY <3>1, <3>2
  <2>6. CASE SelectTask
    <3> DEFINE next == Head(readyQueue)
    <3>1. /\ readyQueue \in Seq(Slots) /\ readyQueue # <<>> /\ IsInjective(readyQueue)
          /\ SortedBy(readyQueue, prio) /\ prio \in [Slots -> Nat]
      BY <1>0, <2>6, ConstantsAssumption DEF TypeOK, QueueOK, QueueExact, SelectTask
    <3>2. /\ next \in Slots /\ IsInjective(Tail(readyQueue)) /\ SortedBy(Tail(readyQueue), prio)
          /\ \A s \in Slots : Contains(Tail(readyQueue), s) <=> Contains(readyQueue, s) /\ s # next
      BY <3>1, TailFacts
    <3>3. state' = [state EXCEPT ![next] = "RUNNING"] /\ readyQueue' = Tail(readyQueue)
          /\ prio' = prio
      BY <2>6 DEF SelectTask
    <3> HIDE DEF next
    <3>4. \A s \in Slots : state'[s] = "READY" <=> state[s] = "READY" /\ s # next
      BY <1>0, <3>2, <3>3 DEF TypeOK
    <3> QED BY <1>0, <3>2, <3>3, <3>4 DEF QueueOK, QueueExact
  <2> QED BY <1>1, <2>1, <2>2, <2>3, <2>4, <2>5, <2>6 DEF KernelStep
<1>2. CASE TaskCall
  <2>1. CASE Create
    <3>1. PICK p \in Priorities : task_create(p)
      BY <2>1 DEF Create
    <3> QED BY <1>0, <3>1, ConstantsAssumption, CreateKeepsType
  <2>2. CASE task_yield \/ scheduler_disable_preemption \/ scheduler_enable_preemption
    <3>1. UNCHANGED queueVars
      BY <2>2 DEF task_yield, scheduler_disable_preemption, scheduler_enable_preemption
    <3> QED BY <1>0, <3>1, QueueUnchanged
  <2>3. CASE task_block
    <3>1. /\ current \in Slots /\ state[current] # "READY"
          /\ state' = [state EXCEPT ![current] = "BLOCKED"] /\ UNCHANGED <<prio, readyQueue>>
      BY <1>0, <2>3 DEF task_block, RunOK, TypeOK
    <3>2. "BLOCKED" \in States \ {"READY"}
      BY DEF States
    <3> QED BY <1>0, <3>1, <3>2, StopKeepsQueue
  <2>4. CASE task_exit
    <3>1. CASE current = NoTask
      BY <1>0, <2>4, <3>1, QueueUnchanged DEF task_exit
    <3>2. CASE current # NoTask
      <4>1. /\ current \in Slots /\ IsInjective(readyQueue) /\ readyQueue \in Seq(Slots)
            /\ SortedBy(readyQueue, prio) /\ prio \in [Slots -> Nat]
        BY <1>0, <3>2, ConstantsAssumption DEF TypeOK, QueueOK, QueueExact
      <4> DEFINE r == ready_queue_remove(readyQueue, current)
      <4>2. /\ IsInjective(r) /\ SortedBy(r, prio)
            /\ \A s \in Slots : Contains(r, s) <=> Contains(readyQueue, s) /\ s # current
        BY <4>1, RemoveFacts
      <4>3. readyQueue' = r /\ state' = [state EXCEPT ![current] = "DEAD"] /\ prio' = prio
        BY <2>4, <3>2 DEF task_exit
      <4> HIDE DEF r
      <4>4. \A s \in Slots : state'[s] = "READY" <=> state[s] = "READY" /\ s # current
        BY <1>0, <4>1, <4>3 DEF TypeOK
      <4> QED BY <1>0, <4>2, <4>3, <4>4 DEF QueueOK, QueueExact
    <3> QED BY <3>1, <3>2
  <2>5. ASSUME NEW t \in Slots, task_wake(t) PROVE QueueOK'
    <3>1. /\ prio[t] \in 0..MAX_PRIO /\ state[t] # "READY"
          /\ prio' = [prio EXCEPT ![t] = prio[t]]
          /\ state' = [state EXCEPT ![t] = "READY"]
          /\ readyQueue' = ready_queue_insert(readyQueue, t, prio[t])
      BY <1>0, <2>5 DEF task_wake, TypeOK
    <3> QED BY <1>0, <3>1, EnqueueKeepsQueue
  <2>6. ASSUME NEW t \in Slots, NEW p \in NewPriorities, task_set_priority(t, p)
        PROVE  QueueOK'
    <3>1. Clamp(p) \in 0..MAX_PRIO
      BY ClampRange, ConstantsAssumption
    <3>2. ChangePriority(t, Clamp(p)) /\ state' = state
      BY <2>6 DEF task_set_priority
    <3> QED BY <1>0, <3>1, <3>2, ChangePriorityKeepsQueue
  <2>7. ASSUME NEW t \in Slots, NEW d \in Deadlines, task_set_deadline(t, d)
        PROVE  QueueOK'
    BY <1>0, <2>7, QueueUnchanged DEF task_set_deadline
  <2> QED BY <1>2, <2>1, <2>2, <2>3, <2>4, <2>5, <2>6, <2>7 DEF TaskCall
<1>3. CASE Tick \/ scheduler_register_timer \/ UNCHANGED vars
  BY <1>0, <1>3, QueueUnchanged DEF Tick, scheduler_register_timer
<1> QED BY <1>1, <1>2, <1>3 DEF Next
\* Only the current task is RUNNING, and it stays so until it blocks, exits or
\* is requeued: every place of the code that calls schedule() keeps the
\* scheduler's belief and the CPU together.
LEMMA RunStep ==
  ASSUME IInv, [Next]_vars PROVE RunOK'
<1> USE DEF RunOK, vars, taskVars, dlVars, loopVars, timerVars, tickVars
<1>0. TypeOK /\ QueueOK /\ RunOK
  BY DEF IInv
<1>1. CASE KernelStep
  <2>1. ASSUME NEW from, NEW p \in Nat, BootStep("boot", from, p) \/ BootStep("boot2", from, p),
               from \in {"boot2", "sched"}
        PROVE  RunOK'
    <3>1. /\ task_create(p) /\ pc' \in {from, "halt"} /\ UNCHANGED <<current, cpu>>
          /\ current = NoTask
      BY <1>0, <2>1 DEF BootStep
    <3>2. \A s \in Slots : state'[s] = "RUNNING" => state[s] = "RUNNING"
      BY <1>0, <3>1, CreateKeepsType
    <3> QED BY <1>0, <2>1, <3>1, <3>2
  <2>2. CASE BootShell
    BY <2>1, <2>2, ConstantsAssumption DEF BootShell
  <2>3. CASE BootMonitor
    BY <2>1, <2>3, ConstantsAssumption DEF BootMonitor
  <2>4. CASE RemoveWalk
    BY <1>0, <2>4 DEF RemoveWalk, AfterRemove
  <2>5. CASE SetDeadline
    <3>1. pc' \in {"inswalk", "run"} /\ pc = "dset" /\ UNCHANGED <<state, current, cpu>>
      BY <2>5, Zenon DEF SetDeadline
    <3> QED BY <1>0, <3>1
  <2>6. CASE InsertWalk
    <3>1. pc' \in {"inswalk", "run"} /\ pc = "inswalk" /\ UNCHANGED <<state, current, cpu>>
      BY <2>6, Zenon DEF InsertWalk
    <3> QED BY <1>0, <3>1
  <2>7. CASE CheckStart \/ CheckWalk \/ CheckDone
    <3>1. /\ pc \in {"sched", "walk"} /\ pc' \in {"walk", "requeue"}
          /\ UNCHANGED <<state, current, cpu>>
      BY <2>7 DEF CheckStart, CheckWalk, CheckDone, ChangePriority
    <3> QED BY <1>0, <3>1
  <2>8. CASE Requeue
    <3>1. pc = "requeue" /\ pc' = "select" /\ UNCHANGED <<current, cpu>>
      BY <2>8 DEF Requeue
    <3>2. CASE current # NoTask /\ state[current] = "RUNNING"
      <4>1. state' = [state EXCEPT ![current] = "READY"]
        BY <2>8, <3>2 DEF Requeue
      <4>2. \A s \in Slots : state'[s] # "RUNNING"
        BY <1>0, <4>1 DEF TypeOK
      <4>3. current = cpu
        BY <1>0, <3>2 DEF TypeOK
      <4> QED BY <3>1, <4>2, <4>3
    <3>3. CASE ~(current # NoTask /\ state[current] = "RUNNING")
      <4>1. state' = state
        BY <2>8, <3>3 DEF Requeue
      <4>2. \A s \in Slots : state[s] # "RUNNING"
        BY <1>0, <3>3 DEF TypeOK, Slots, NoTask
      <4> QED BY <1>0, <3>1, <4>1, <4>2
    <3> QED BY <3>2, <3>3
  <2>9. CASE SelectNone
    <3>1. pc' \in {"halt", "run"} /\ pc = "select" /\ current' = NoTask /\ state' = state
      BY <2>9, Zenon DEF SelectNone
    <3> QED BY <1>0, <3>1
  <2>10. CASE SelectTask
    <3> DEFINE next == Head(readyQueue)
    <3>1. next \in Slots /\ Contains(readyQueue, next)
      BY <1>0, <2>10, TailFacts DEF TypeOK, QueueOK, QueueExact, SelectTask
    <3>2. /\ state' = [state EXCEPT ![next] = "RUNNING"]
          /\ IF next = current THEN UNCHANGED <<frame, current, cpu>>
             ELSE SwitchFrames(next) /\ current' = next /\ cpu' = next
          /\ pc' = "run" /\ pc = "select"
      BY <2>10 DEF SelectTask
    <3> HIDE DEF next
    <3>3. current' = next /\ (cpu' = next \/ (next = current /\ cpu' = cpu))
      BY <3>2
    <3>4. \A s \in Slots : state'[s] = "RUNNING" <=> s = next
      BY <1>0, <3>1, <3>2 DEF TypeOK
    <3>5. next = current => next = cpu
      \* a READY task is current only if it was requeued: it is still on the CPU
      <4>1. state[next] = "READY" /\ next # NoTask
        BY <1>0, <3>1 DEF QueueOK, QueueExact, Slots, NoTask
      <4> QED BY <1>0, <4>1
    <3>6. cpu' = next /\ state'[next] = "RUNNING"
      BY <3>1, <3>3, <3>4, <3>5
    <3> QED BY <3>2, <3>3, <3>4, <3>6
  <2> QED BY <1>1, <2>2, <2>3, <2>4, <2>5, <2>6, <2>7, <2>8, <2>9, <2>10 DEF KernelStep
<1>2. CASE TaskCall
  <2>1. CASE Create
    <3>1. PICK p \in Priorities : task_create(p)
      BY <2>1 DEF Create
    <3>2. /\ \A s \in Slots : state'[s] # state[s] => state[s] = "DEAD" /\ state'[s] = "READY"
          /\ state' \in [Slots -> States]
      BY <1>0, <3>1, ConstantsAssumption, CreateKeepsType
    <3>3. pc = "run" /\ UNCHANGED <<current, cpu, pc>>
      BY <2>1 DEF Create
    <3> QED BY <1>0, <3>2, <3>3 DEF TypeOK
  <2>2. CASE task_yield
    BY <1>0, <2>2 DEF task_yield
  <2>3. CASE task_block
    BY <1>0, <2>3 DEF task_block, TypeOK
  <2>4. CASE task_exit
    BY <1>0, <2>4 DEF task_exit, RemoveStart, TypeOK
  <2>5. ASSUME NEW t \in Slots, task_wake(t) PROVE RunOK'
    BY <1>0, <2>5 DEF task_wake, TypeOK
  <2>6. ASSUME NEW t \in Slots, NEW p \in NewPriorities, task_set_priority(t, p)
        PROVE  RunOK'
    BY <1>0, <2>6 DEF task_set_priority
  <2>7. ASSUME NEW t \in Slots, NEW d \in Deadlines, task_set_deadline(t, d)
        PROVE  RunOK'
    <3>1. RemoveStart(t, "dset") \/ pc' = "dset"
      BY <2>7, Zenon DEF task_set_deadline
    <3>2. pc' \in {"rmwalk", "dset"}
      BY <3>1 DEF RemoveStart
    <3>3. pc = "run" /\ UNCHANGED <<state, current, cpu>>
      BY <2>7 DEF task_set_deadline
    <3> QED BY <1>0, <3>2, <3>3
  <2>8. CASE scheduler_disable_preemption \/ scheduler_enable_preemption
    <3>1. pc' \in {"run", "sched"} /\ pc = "run" /\ UNCHANGED <<state, current, cpu>>
      BY <2>8, Zenon DEF scheduler_disable_preemption, scheduler_enable_preemption
    <3> QED BY <1>0, <3>1
  <2> QED BY <1>2, <2>1, <2>2, <2>3, <2>4, <2>5, <2>6, <2>7, <2>8 DEF TaskCall
<1>3. CASE Tick \/ scheduler_register_timer \/ UNCHANGED vars
  BY <1>0, <1>3 DEF Tick, scheduler_register_timer
<1> QED BY <1>1, <1>2, <1>3 DEF Next
-----------------------------------------------------------------------------
(* The theorems.                                                           *)

\* The inductive invariant holds of every reachable state.
THEOREM Inductive == Spec => []IInv
<1>1. Init => IInv
  <2> SUFFICES ASSUME Init PROVE IInv
    OBVIOUS
  <2>1. TypeOK
    <3>1. /\ 0 \in 0..MAX_PRIO /\ 0 \in 0..QUANTUM /\ 0 \in 0..MAX_DISABLE
          /\ 0 \in 0..HEAP_STACKS /\ 0 \in 0..MAX_TICKS /\ 0 \in Nat
          /\ "DEAD" \in States /\ "none" \in Frames /\ "boot" \in PCs
      BY ConstantsAssumption DEF States, Frames, PCs
    <3>2. readyQueue \in Seq(Slots)
      BY DEF Init
    <3>3. /\ state \in [Slots -> States] /\ prio \in [Slots -> 0..MAX_PRIO]
          /\ deadline \in [Slots -> Nat] /\ dnext \in [Slots -> Slots \cup {NoTask}]
          /\ frame \in [Slots -> Frames]
      BY <3>1 DEF Init
    <3>4. registered \in BOOLEAN /\ pending \in BOOLEAN
      BY Zenon DEF Init
    <3> QED BY <3>1, <3>2, <3>3, <3>4 DEF Init, TypeOK
  <2>2. LoopOK /\ RunOK
    <3>1. pc = "boot" /\ current = NoTask /\ \A s \in Slots : state[s] = "DEAD"
      BY DEF Init
    <3> QED BY <3>1 DEF LoopOK, RunOK
  <2>3. QueueOK
    <3>1. \A s \in Slots : state[s] # "READY" /\ ~Contains(readyQueue, s)
      BY DEF Init, Contains
    <3>2. IsInjective(readyQueue) /\ SortedBy(readyQueue, prio)
      BY DEF Init, IsInjective, SortedBy
    <3> QED BY <3>1, <3>2 DEF QueueOK, QueueExact
  <2> QED BY <2>1, <2>2, <2>3 DEF IInv
<1>2. IInv /\ [Next]_vars => IInv'
  BY TypeStep, LoopStep, QueueStep, RunStep DEF IInv
<1> QED BY <1>1, <1>2, PTL DEF Spec

\* Type correctness of the scheduler's state.
THEOREM TypeCorrect == Spec => []TypeOK
<1>1. IInv => TypeOK
  BY DEF IInv
<1> QED BY <1>1, Inductive, PTL

\* The ready queue holds exactly the READY tasks, each once: no step of
\* task_create, task_wake, task_exit, a priority change or schedule() orphans
\* a task or queues it twice.
THEOREM QueueExactAlways == Spec => []QueueExact
<1>1. IInv => QueueExact
  BY DEF IInv, QueueOK
<1> QED BY <1>1, Inductive, PTL

\* The ready queue stays in order of priority while task_set_priority and
\* deadline boosts change priorities under it.
THEOREM QueueSortedAlways == Spec => []QueueSorted
<1>1. IInv => QueueSorted
  BY DEF IInv, QueueOK, QueueSorted, SortedBy
<1> QED BY <1>1, Inductive, PTL

\* schedule() dispatches a READY task of the highest priority.
THEOREM DispatchHighestAlways == Spec => DispatchHighest
<1> DEFINE Right == pc = "select" /\ pc' = "run" /\ current' # NoTask =>
                     \A s \in Slots : state'[s] = "READY" => prio'[current'] <= prio'[s]
<1>1. ASSUME IInv, [Next]_vars PROVE Right \/ UNCHANGED vars
  <2>1. CASE SelectTask
    <3> DEFINE next == Head(readyQueue)
    <3>1. /\ readyQueue \in Seq(Slots) /\ readyQueue # <<>> /\ IsInjective(readyQueue)
          /\ SortedBy(readyQueue, prio) /\ prio \in [Slots -> Nat]
      BY <1>1, <2>1, ConstantsAssumption DEF IInv, TypeOK, QueueOK, QueueExact, SelectTask
    <3>2. next \in Slots /\ \A s \in Slots : Contains(readyQueue, s) => prio[next] <= prio[s]
      BY <3>1, TailFacts
    <3>3. state' = [state EXCEPT ![next] = "RUNNING"] /\ current' = next /\ prio' = prio
      BY <2>1 DEF SelectTask
    <3> HIDE DEF next
    <3>4. \A s \in Slots : state'[s] = "READY" => state[s] = "READY"
      BY <1>1, <3>2, <3>3 DEF IInv, TypeOK
    <3>5. \A s \in Slots : state[s] = "READY" => Contains(readyQueue, s)
      BY <1>1 DEF IInv, QueueOK, QueueExact
    <3> QED BY <3>2, <3>3, <3>4, <3>5
  <2>2. CASE SelectNone
    BY <2>2 DEF SelectNone
  <2>3. CASE pc = "select" /\ pc' = "run" /\ ~SelectTask /\ ~SelectNone
    <3>1. ~KernelStep
      BY <2>3 DEF KernelStep, BootShell, BootMonitor, BootStep, RemoveWalk, SetDeadline,
                  InsertWalk, CheckStart, CheckWalk, CheckDone, Requeue
    <3>2. ~TaskCall
      BY <2>3 DEF TaskCall, Create, task_yield, task_block, task_exit, task_wake,
                  task_set_priority, task_set_deadline, scheduler_disable_preemption,
                  scheduler_enable_preemption
    <3>3. ~Tick /\ ~scheduler_register_timer
      BY <2>3 DEF Tick, scheduler_register_timer
    <3> QED BY <1>1, <3>1, <3>2, <3>3 DEF Next
  <2> QED BY <2>1, <2>2, <2>3
<1>2. IInv /\ [Next]_vars => [Right]_vars
  BY <1>1
<1> QED BY <1>2, Inductive, PTL DEF Spec, DispatchHighest
-----------------------------------------------------------------------------
(* With a task that never blocks or exits, as kernel_main's shell, the      *)
(* scheduler's belief and the CPU agree for good.                           *)

\* The shell got the first slot and is READY or RUNNING since; the current
\* task is the one that executes, and a suspended task has a frame to resume.
ShellOK ==
  /\ pc = "boot" => \A s \in Slots : state[s] = "DEAD"
  /\ pc \notin {"boot", "halt"} => state[1] \in {"READY", "RUNNING"}
  /\ current = cpu
  /\ pc \in {"run", "rmwalk", "dset", "inswalk"} => current # NoTask
  /\ SuspendedResumable

\* No step takes the shell away: the queue is never empty in schedule(), so
\* the path on which a caller runs on without being current is not taken.
LEMMA ShellStep ==
  ASSUME 1 \in Resident, IInv, IInv', ShellOK, [Next]_vars PROVE ShellOK'
<1> USE DEF ShellOK, SuspendedResumable, vars, taskVars, dlVars, loopVars, timerVars, tickVars
<1>0. TypeOK /\ QueueOK /\ RunOK /\ TypeOK' /\ 1 \in Slots /\ 1 # NoTask
  BY ConstantsAssumption DEF IInv, NoTask
<1>1. CASE KernelStep
  <2>1. CASE BootShell
    <3>1. pc = "boot" /\ UNCHANGED <<current, cpu>> /\ pc' \in {"boot2", "halt"}
          /\ task_create(MAX_PRIO) /\ (pc' = "boot2" => stacks' > stacks)
      BY <2>1 DEF BootShell, BootStep
    <3>2. DeadSlots = Slots /\ FreeSlot = 1
      <4>1. DeadSlots = Slots
        BY <1>0, <3>1 DEF DeadSlots
      <4>2. Slots \in SUBSET Nat /\ Slots # {} /\ \A s \in Slots : 1 <= s
        BY <1>0 DEF Slots
      <4>3. FreeSlot \in Slots /\ FreeSlot <= 1
        BY <1>0, <4>1, <4>2, MinOfNaturals DEF FreeSlot
      <4> QED BY <4>1, <4>2, <4>3
    <3>3. CASE CreateOk(MAX_PRIO)
      <4>1. state' = [state EXCEPT ![1] = "READY"] /\ frame' = [frame EXCEPT ![1] = "fresh"]
        BY <3>2, <3>3 DEF CreateOk
      <4> QED BY <1>0, <3>1, <4>1 DEF TypeOK
    <3>4. CASE ~CreateOk(MAX_PRIO)
      <4>1. UNCHANGED <<state, frame, stacks>>
        BY <3>1, <3>4 DEF task_create, CreateNoSlot, CreateNoStack
      <4>2. pc' = "halt"
        BY <1>0, <3>1, <4>1 DEF TypeOK
      <4> QED BY <3>1, <4>1, <4>2
    <3> QED BY <3>3, <3>4
  <2>2. CASE BootMonitor
    <3>1. PICK p \in Priorities : BootStep("boot2", "sched", p)
      BY <2>2 DEF BootMonitor
    <3>2. /\ pc = "boot2" /\ UNCHANGED <<current, cpu>> /\ pc' \in {"sched", "halt"}
          /\ task_create(p) /\ current = NoTask
      BY <1>0, <3>1 DEF BootStep, RunOK
    <3>3. ShellOK' \/ CreateOk(p)
      BY <3>2 DEF task_create, CreateNoSlot, CreateNoStack
    <3>4. CASE CreateOk(p)
      <4>1. FreeSlot \in Slots /\ state[FreeSlot] = "DEAD"
        BY <3>4, FreeSlotDead DEF CreateOk
      <4>2. state' = [state EXCEPT ![FreeSlot] = "READY"] /\ frame' = [frame EXCEPT ![FreeSlot] = "fresh"]
        BY <3>4 DEF CreateOk
      <4>3. state'[1] \in {"READY", "RUNNING"}
        BY <1>0, <3>2, <4>1, <4>2 DEF TypeOK
      <4>4. SuspendedResumable'
        BY <1>0, <3>2, <4>1, <4>2 DEF TypeOK
      <4> QED BY <3>2, <4>3, <4>4
    <3> QED BY <3>3, <3>4
  <2>3. CASE RemoveWalk
    BY <2>3 DEF RemoveWalk, AfterRemove
  <2>4. CASE SetDeadline
    <3>1. pc = "dset" /\ pc' \in {"inswalk", "run"} /\ UNCHANGED <<state, frame, current, cpu>>
      BY <2>4, Zenon DEF SetDeadline
    <3> QED BY <3>1
  <2>5. CASE InsertWalk
    <3>1. pc = "inswalk" /\ pc' \in {"inswalk", "run"} /\ UNCHANGED <<state, frame, current, cpu>>
      BY <2>5, Zenon DEF InsertWalk
    <3> QED BY <3>1
  <2>6. CASE CheckStart \/ CheckWalk \/ CheckDone
    <3>1. /\ pc \in {"sched", "walk"} /\ pc' \in {"walk", "requeue"}
          /\ UNCHANGED <<state, frame, current, cpu>>
      BY <2>6 DEF CheckStart, CheckWalk, CheckDone, ChangePriority
    <3> QED BY <3>1
  <2>7. CASE Requeue
    <3>1. pc = "requeue" /\ pc' = "select" /\ UNCHANGED <<frame, current, cpu>>
      BY <2>7 DEF Requeue
    <3>2. CASE current # NoTask /\ state[current] = "RUNNING"
      <4>1. state' = [state EXCEPT ![current] = "READY"]
        BY <2>7, <3>2 DEF Requeue
      <4> QED BY <1>0, <3>1, <3>2, <4>1 DEF TypeOK
    <3>3. CASE ~(current # NoTask /\ state[current] = "RUNNING")
      BY <2>7, <3>1, <3>3 DEF Requeue
    <3> QED BY <3>2, <3>3
  <2>8. CASE SelectNone
    <3>1. Contains(readyQueue, 1)
      BY <1>0, <2>8 DEF SelectNone, RunOK, QueueOK, QueueExact
    <3>2. readyQueue # <<>>
      BY <3>1 DEF Contains
    <3> QED BY <2>8, <3>2 DEF SelectNone
  <2>9. CASE SelectTask
    <3> DEFINE next == Head(readyQueue)
    <3>1. next \in Slots /\ Contains(readyQueue, next)
      BY <1>0, <2>9, TailFacts DEF TypeOK, QueueOK, QueueExact, SelectTask
    <3>2. /\ state' = [state EXCEPT ![next] = "RUNNING"]
          /\ IF next = current THEN UNCHANGED <<frame, current, cpu>>
             ELSE SwitchFrames(next) /\ current' = next /\ cpu' = next
          /\ pc' = "run" /\ pc = "select"
      BY <2>9 DEF SelectTask
    <3> HIDE DEF next
    <3>3. current' = next /\ cpu' = next /\ next # NoTask
      BY <3>1, <3>2 DEF Slots, NoTask
    <3>4. state'[1] \in {"READY", "RUNNING"}
      BY <1>0, <3>1, <3>2 DEF TypeOK
    <3>5. ASSUME NEW s \in Slots, state'[s] \in {"READY", "BLOCKED"}, s # next
          PROVE  frame'[s] \in {"fresh", "saved"}
      <4>1. state[s] = state'[s]
        BY <1>0, <3>1, <3>2, <3>5 DEF TypeOK
      <4>2. CASE s = current
        BY <1>0, <3>2, <3>5, <4>2 DEF SwitchFrames, TypeOK, NoTask, Slots
      <4>3. CASE s # current
        BY <1>0, <3>2, <3>5, <4>1, <4>3 DEF SwitchFrames, TypeOK
      <4> QED BY <4>2, <4>3
    <3> QED BY <3>2, <3>3, <3>4, <3>5
  <2> QED BY <1>1, <2>1, <2>2, <2>3, <2>4, <2>5, <2>6, <2>7, <2>8, <2>9 DEF KernelStep
<1>2. CASE TaskCall
  <2>0. pc = "run" /\ current # NoTask /\ current \in Slots /\ state[current] = "RUNNING"
    <3>1. pc = "run"
      BY <1>2 DEF TaskCall, Create, task_yield, task_block, task_exit, task_wake,
                  task_set_priority, task_set_deadline, scheduler_disable_preemption,
                  scheduler_enable_preemption
    <3> QED BY <1>0, <3>1 DEF RunOK, TypeOK
  <2>1. CASE Create
    <3>1. PICK p \in Priorities : task_create(p)
      BY <2>1 DEF Create
    <3>2. UNCHANGED <<current, cpu, pc>>
      BY <2>1 DEF Create
    <3>3. ShellOK' \/ CreateOk(p)
      BY <3>1, <3>2 DEF task_create, CreateNoSlot, CreateNoStack
    <3>4. CASE CreateOk(p)
      <4>1. FreeSlot \in Slots /\ state[FreeSlot] = "DEAD"
        BY <3>4, FreeSlotDead DEF CreateOk
      <4>2. state' = [state EXCEPT ![FreeSlot] = "READY"] /\ frame' = [frame EXCEPT ![FreeSlot] = "fresh"]
        BY <3>4 DEF CreateOk
      <4>3. state'[1] \in {"READY", "RUNNING"}
        BY <1>0, <2>0, <3>2, <4>1, <4>2 DEF TypeOK
      <4>4. SuspendedResumable'
        BY <1>0, <3>2, <4>1, <4>2 DEF TypeOK
      <4> QED BY <2>0, <3>2, <4>3, <4>4
    <3> QED BY <3>3, <3>4
  <2>2. CASE task_yield
    BY <2>2 DEF task_yield
  <2>3. CASE task_block
    BY <1>0, <2>0, <2>3 DEF task_block, TypeOK
  <2>4. CASE task_exit
    <3>1. /\ state' = [state EXCEPT ![current] = "DEAD"] /\ UNCHANGED <<frame, current, cpu>>
          /\ current # 1 /\ RemoveStart(current, "sched")
      BY <2>0, <2>4 DEF task_exit
    <3>2. pc' \in {"sched", "rmwalk"}
      BY <3>1 DEF RemoveStart
    <3>3. state'[1] \in {"READY", "RUNNING"}
      BY <1>0, <2>0, <3>1 DEF TypeOK
    <3>4. SuspendedResumable'
      BY <1>0, <2>0, <3>1 DEF TypeOK
    <3> QED BY <2>0, <3>1, <3>2, <3>3, <3>4
  <2>5. ASSUME NEW t \in Slots, task_wake(t) PROVE ShellOK'
    <3>1. /\ state' = [state EXCEPT ![t] = "READY"] /\ state[t] = "BLOCKED"
          /\ UNCHANGED <<frame, current, cpu, pc>>
      BY <2>5 DEF task_wake
    <3>2. state'[1] \in {"READY", "RUNNING"}
      BY <1>0, <2>0, <3>1 DEF TypeOK
    <3>3. SuspendedResumable'
      BY <1>0, <3>1 DEF TypeOK
    <3> QED BY <2>0, <3>1, <3>2, <3>3
  <2>6. ASSUME NEW t \in Slots, NEW p \in NewPriorities, task_set_priority(t, p)
        PROVE  ShellOK'
    BY <2>6 DEF task_set_priority
  <2>7. ASSUME NEW t \in Slots, NEW d \in Deadlines, task_set_deadline(t, d)
        PROVE  ShellOK'
    <3>1. RemoveStart(t, "dset") \/ pc' = "dset"
      BY <2>7, Zenon DEF task_set_deadline
    <3>2. pc' \in {"rmwalk", "dset"}
      BY <3>1 DEF RemoveStart
    <3>3. UNCHANGED <<state, frame, current, cpu>>
      BY <2>7 DEF task_set_deadline
    <3> QED BY <2>0, <3>2, <3>3
  <2>8. CASE scheduler_disable_preemption \/ scheduler_enable_preemption
    <3>1. pc' \in {"run", "sched"} /\ UNCHANGED <<state, frame, current, cpu>>
      BY <2>8, Zenon DEF scheduler_disable_preemption, scheduler_enable_preemption
    <3> QED BY <2>0, <3>1
  <2> QED BY <1>2, <2>1, <2>2, <2>3, <2>4, <2>5, <2>6, <2>7, <2>8 DEF TaskCall
<1>3. CASE Tick \/ scheduler_register_timer \/ UNCHANGED vars
  BY <1>3 DEF Tick, scheduler_register_timer
<1> QED BY <1>1, <1>2, <1>3 DEF Next

\* The shell's invariant in every reachable state.
LEMMA ShellInvariant ==
  ASSUME 1 \in Resident PROVE Spec => [](IInv /\ ShellOK)
<1>1. Init => ShellOK
  BY DEF Init, ShellOK, SuspendedResumable
<1>2. IInv /\ IInv' /\ ShellOK /\ [Next]_vars => ShellOK'
  BY ShellStep
<1> QED BY <1>1, <1>2, Inductive, PTL DEF Spec

\* While one task stays ready, the CPU executes the task the scheduler
\* believes is running, no other task is RUNNING, and a blocked task stays
\* off the CPU.
THEOREM RunningExecutesAlways ==
  ASSUME 1 \in Resident PROVE Spec => []RunningExecutes
<1>1. IInv /\ ShellOK => RunningExecutes
  <2> SUFFICES ASSUME IInv, ShellOK PROVE RunningExecutes
    OBVIOUS
  <2>1. \A s \in Slots : state[s] = "RUNNING" => s = current /\ s = cpu
    BY DEF IInv, RunOK
  <2>2. pc = "run" => cpu # NoTask /\ state[cpu] = "RUNNING"
    BY DEF IInv, RunOK, ShellOK
  <2> QED BY <2>1, <2>2 DEF RunningExecutes
<1> QED BY <1>1, ShellInvariant, PTL

\* While one task stays ready, every task that is not executing has a stack
\* pointer ctx_switch or task_create left, from which it can be resumed.
THEOREM SuspendedResumableAlways ==
  ASSUME 1 \in Resident PROVE Spec => []SuspendedResumable
<1>1. ShellOK => SuspendedResumable
  BY DEF ShellOK
<1> QED BY <1>1, ShellInvariant, PTL
-----------------------------------------------------------------------------
(* The deadline list, as long as callers do not arm a task whose missed     *)
(* entry is still in it: its pointers are those of a sequence of tasks.      *)

At(L, i) == IF i \in 1..Len(L) THEN L[i] ELSE NoTask

\* The head h and the pointers nx link the tasks of L, and end.
Links(L, h, nx) ==
  /\ L \in Seq(Slots) /\ IsInjective(L)
  /\ h = At(L, 1)
  /\ \A i \in 1..Len(L) : nx[L[i]] = At(L, i + 1)

LEMMA LinkFacts ==
  ASSUME NEW L, NEW h, NEW nx, Links(L, h, nx)
  PROVE  /\ L \in Seq(Slots) /\ Len(L) \in Nat
         /\ h = NoTask <=> Len(L) = 0
         /\ h # NoTask => 1 \in 1..Len(L) /\ h = L[1]
         /\ \A i \in 1..Len(L) : /\ L[i] \in Slots /\ L[i] # NoTask /\ Contains(L, L[i])
                                 /\ nx[L[i]] = NoTask <=> i = Len(L)
                                 /\ i # Len(L) => i + 1 \in 1..Len(L) /\ nx[L[i]] = L[i + 1]
<1>1. L \in Seq(Slots) /\ Len(L) \in Nat /\ \A i \in 1..Len(L) : L[i] \in Slots /\ L[i] # NoTask
  <2>1. L \in Seq(Slots)
    BY DEF Links
  <2>2. \A s \in Slots : s # NoTask
    BY DEF Slots, NoTask
  <2> QED BY <2>1, <2>2
<1>2. h = At(L, 1) /\ \A i \in 1..Len(L) : nx[L[i]] = At(L, i + 1)
  BY DEF Links
<1>3. \A i \in 1..Len(L) : i # Len(L) <=> i + 1 \in 1..Len(L)
  BY <1>1
<1>4. 1 \in 1..Len(L) <=> Len(L) # 0
  BY <1>1
<1>5. \A i \in 1..Len(L) : Contains(L, L[i])
  BY <1>1 DEF Contains
<1> QED BY <1>1, <1>2, <1>3, <1>4, <1>5 DEF At

\* Unlinking the k-th task, as deadline_list_remove does at the head and
\* behind a predecessor.
LEMMA LinksRemove ==
  ASSUME NEW L, NEW h, NEW nx \in [Slots -> Slots \cup {NoTask}], Links(L, h, nx),
         NEW k \in 1..Len(L)
  PROVE  /\ k = 1 => Links(RemoveAt(L, k), nx[L[k]], [nx EXCEPT ![L[k]] = NoTask])
         /\ k # 1 => Links(RemoveAt(L, k), h,
                           [nx EXCEPT ![L[k - 1]] = nx[L[k]], ![L[k]] = NoTask])
<1>0. /\ L \in Seq(Slots) /\ IsInjective(L) /\ Len(L) \in Nat
      /\ h = At(L, 1) /\ \A i \in 1..Len(L) : nx[L[i]] = At(L, i + 1)
  BY DEF Links
<1> DEFINE M == RemoveAt(L, k)
           n == Len(L)
<1>1. /\ M \in Seq(Slots) /\ IsInjective(M) /\ Len(M) = n - 1
      /\ \A j \in 1..(n - 1) : M[j] = IF j < k THEN L[j] ELSE L[j + 1]
  BY <1>0, RemoveAtFacts, RemoveAtSeq
<1>2. \A i, j \in 1..n : L[i] = L[j] => i = j
  BY <1>0 DEF IsInjective
<1>3. \A i \in 1..n : L[i] \in Slots
  BY <1>0
<1> HIDE DEF M
<1>4. \A i \in Nat \ {0} : At(M, i) = IF i < k THEN At(L, i) ELSE At(L, i + 1)
  <2> SUFFICES ASSUME NEW i \in Nat \ {0}
               PROVE  At(M, i) = IF i < k THEN At(L, i) ELSE At(L, i + 1)
    OBVIOUS
  <2>1. CASE i < k
    BY <1>0, <1>1, <2>1 DEF At
  <2>2. CASE ~(i < k)
    BY <1>0, <1>1, <2>2 DEF At
  <2> QED BY <2>1, <2>2
<1>5. CASE k = 1
  <2> DEFINE m == [nx EXCEPT ![L[k]] = NoTask]
  <2>1. nx[L[k]] = At(M, 1)
    BY <1>0, <1>4, <1>5
  <2>2. ASSUME NEW j \in 1..(n - 1) PROVE m[M[j]] = At(M, j + 1)
    <3>1. M[j] = L[j + 1] /\ j + 1 \in 1..n /\ j + 1 # k
      BY <1>0, <1>1, <1>5
    <3>2. L[j + 1] # L[k] /\ L[j + 1] \in Slots
      BY <1>2, <1>3, <3>1
    <3>3. m[M[j]] = nx[L[j + 1]]
      BY <3>1, <3>2
    <3>4. At(M, j + 1) = At(L, (j + 1) + 1)
      BY <1>0, <1>4, <1>5, <3>1
    <3> QED BY <1>0, <3>1, <3>3, <3>4
  <2> HIDE DEF m
  <2>3. Links(M, nx[L[k]], m)
    BY <1>1, <2>1, <2>2 DEF Links
  <2> QED BY <1>5, <2>3 DEF M, m
<1>6. CASE k # 1
  <2> DEFINE m == [nx EXCEPT ![L[k - 1]] = nx[L[k]], ![L[k]] = NoTask]
  <2>0. k - 1 \in 1..n /\ k - 1 # k
    BY <1>0, <1>6
  <2>1. h = At(M, 1)
    BY <1>0, <1>4, <1>6
  <2>2. ASSUME NEW j \in 1..(n - 1) PROVE m[M[j]] = At(M, j + 1)
    <3>0. j \in 1..n /\ j + 1 \in 1..n /\ j + 1 \in Nat \ {0}
      BY <1>0
    <3>1. CASE j < k - 1
      <4>1. M[j] = L[j] /\ j + 1 < k /\ j # k - 1 /\ j # k
        BY <1>0, <1>1, <3>1
      <4>2. L[j] # L[k - 1] /\ L[j] # L[k] /\ L[j] \in Slots
        BY <1>2, <1>3, <2>0, <3>0, <4>1
      <4>3. m[M[j]] = nx[L[j]]
        BY <4>1, <4>2
      <4>4. At(M, j + 1) = At(L, j + 1)
        BY <1>4, <3>0, <4>1
      <4> QED BY <1>0, <3>0, <4>3, <4>4
    <3>2. CASE j = k - 1
      <4>1. M[j] = L[k - 1] /\ j + 1 = k
        BY <1>0, <1>1, <2>0, <3>2
      <4>2. L[k - 1] # L[k] /\ L[k - 1] \in Slots
        BY <1>2, <1>3, <2>0
      <4>3. m[M[j]] = nx[L[k]]
        BY <4>1, <4>2
      <4>4. At(M, j + 1) = At(L, k + 1)
        BY <1>4, <3>0, <4>1
      <4> QED BY <1>0, <4>3, <4>4
    <3>3. CASE j > k - 1
      <4>1. M[j] = L[j + 1] /\ ~(j + 1 < k) /\ j + 1 # k - 1 /\ j + 1 # k
        BY <1>0, <1>1, <3>3
      <4>2. L[j + 1] # L[k - 1] /\ L[j + 1] # L[k] /\ L[j + 1] \in Slots
        BY <1>2, <1>3, <2>0, <3>0, <4>1
      <4>3. m[M[j]] = nx[L[j + 1]]
        BY <4>1, <4>2
      <4>4. At(M, j + 1) = At(L, (j + 1) + 1)
        BY <1>4, <3>0, <4>1
      <4> QED BY <1>0, <3>0, <4>3, <4>4
    <3> QED BY <1>0, <3>1, <3>2, <3>3
  <2> HIDE DEF m
  <2>3. Links(M, h, m)
    BY <1>1, <2>1, <2>2 DEF Links
  <2> QED BY <1>6, <2>3 DEF M, m
<1> QED BY <1>5, <1>6

\* Linking a task before the k-th one, as deadline_list_insert does at the
\* head and behind a predecessor.
LEMMA LinksInsert ==
  ASSUME NEW L, NEW h, NEW nx \in [Slots -> Slots \cup {NoTask}], Links(L, h, nx),
         NEW t \in Slots, ~Contains(L, t), NEW k \in 1..(Len(L) + 1)
  PROVE  /\ k = 1 => Links(InsertAt(L, k, t), t, [nx EXCEPT ![t] = h])
         /\ k # 1 => Links(InsertAt(L, k, t), h,
                           [[nx EXCEPT ![t] = nx[L[k - 1]]] EXCEPT ![L[k - 1]] = t])
<1>0. /\ L \in Seq(Slots) /\ IsInjective(L) /\ Len(L) \in Nat
      /\ h = At(L, 1) /\ \A i \in 1..Len(L) : nx[L[i]] = At(L, i + 1)
  BY DEF Links
<1> DEFINE M == InsertAt(L, k, t)
           n == Len(L)
<1>1. /\ M \in Seq(Slots) /\ IsInjective(M) /\ Len(M) = n + 1
      /\ \A j \in 1..(n + 1) : M[j] = IF j < k THEN L[j] ELSE IF j = k THEN t ELSE L[j - 1]
  <2>1. M \in Seq(Slots) /\ Len(M) = n + 1 /\ Inserted(Slots, n, L, k, t, M)
    BY <1>0, InsertAtSeq
  <2>2. IsInjective(M)
    BY <1>0, InsertAtFacts
  <2> HIDE DEF M
  <2> QED BY <2>1, <2>2 DEF Inserted
<1>2. \A i, j \in 1..n : L[i] = L[j] => i = j
  BY <1>0 DEF IsInjective
<1>3. \A i \in 1..n : L[i] \in Slots /\ L[i] # t
  BY <1>0 DEF Contains
<1> HIDE DEF M
<1>4. \A i \in Nat \ {0} : At(M, i) = IF i < k THEN At(L, i)
                                      ELSE IF i = k THEN t ELSE At(L, i - 1)
  <2> SUFFICES ASSUME NEW i \in Nat \ {0}
               PROVE  At(M, i) = IF i < k THEN At(L, i) ELSE IF i = k THEN t ELSE At(L, i - 1)
    OBVIOUS
  <2>1. CASE i < k
    BY <1>0, <1>1, <2>1 DEF At
  <2>2. CASE i = k
    BY <1>0, <1>1, <2>2 DEF At
  <2>3. CASE i > k
    BY <1>0, <1>1, <2>3 DEF At
  <2> QED BY <1>0, <2>1, <2>2, <2>3
<1>5. CASE k = 1
  <2> DEFINE m == [nx EXCEPT ![t] = h]
  <2>1. t = At(M, 1)
    BY <1>4, <1>5
  <2>2. ASSUME NEW j \in 1..(n + 1) PROVE m[M[j]] = At(M, j + 1)
    <3>1. CASE j = 1
      <4>1. M[j] = t /\ At(M, j + 1) = At(L, 1)
        BY <1>0, <1>1, <1>4, <1>5, <3>1
      <4> QED BY <1>0, <4>1
    <3>2. CASE j # 1
      <4>1. M[j] = L[j - 1] /\ j - 1 \in 1..n /\ At(M, j + 1) = At(L, j)
        BY <1>0, <1>1, <1>4, <1>5, <3>2
      <4>2. m[M[j]] = nx[L[j - 1]]
        BY <1>3, <4>1
      <4>3. nx[L[j - 1]] = At(L, (j - 1) + 1) /\ (j - 1) + 1 = j
        BY <1>0, <4>1
      <4> QED BY <4>1, <4>2, <4>3
    <3> QED BY <3>1, <3>2
  <2> HIDE DEF m
  <2>3. Links(M, t, m)
    BY <1>1, <2>1, <2>2 DEF Links
  <2> QED BY <1>5, <2>3 DEF M, m
<1>6. CASE k # 1
  <2> DEFINE m == [[nx EXCEPT ![t] = nx[L[k - 1]]] EXCEPT ![L[k - 1]] = t]
  <2>0. k - 1 \in 1..n /\ L[k - 1] \in Slots /\ L[k - 1] # t /\ k \in Nat
    BY <1>0, <1>3, <1>6
  <2>1. h = At(M, 1)
    BY <1>0, <1>4, <1>6
  <2>2. ASSUME NEW j \in 1..(n + 1) PROVE m[M[j]] = At(M, j + 1)
    <3>0. j \in Nat \ {0} /\ j + 1 \in Nat \ {0}
      OBVIOUS
    <3>1. CASE j < k - 1
      <4>1. M[j] = L[j] /\ j + 1 < k /\ j \in 1..n /\ j # k - 1
        BY <1>0, <1>1, <2>0, <3>1
      <4>2. L[j] # L[k - 1] /\ L[j] \in Slots /\ L[j] # t
        BY <1>2, <1>3, <2>0, <4>1
      <4>3. m[M[j]] = nx[L[j]]
        BY <4>1, <4>2
      <4>4. At(M, j + 1) = At(L, j + 1)
        BY <1>4, <3>0, <4>1
      <4> QED BY <1>0, <4>1, <4>3, <4>4
    <3>2. CASE j = k - 1
      <4>1. M[j] = L[k - 1] /\ j + 1 = k
        BY <1>0, <1>1, <2>0, <3>2
      <4>2. m[M[j]] = t
        BY <2>0, <4>1
      <4>3. At(M, j + 1) = t
        BY <1>4, <3>0, <4>1
      <4> QED BY <4>2, <4>3
    <3>3. CASE j = k
      <4>1. M[j] = t /\ At(M, j + 1) = At(L, k)
        BY <1>0, <1>1, <1>4, <2>0, <3>0, <3>3
      <4>2. m[t] = nx[L[k - 1]]
        BY <2>0
      <4>3. nx[L[k - 1]] = At(L, (k - 1) + 1) /\ (k - 1) + 1 = k
        BY <1>0, <2>0
      <4> QED BY <4>1, <4>2, <4>3
    <3>4. CASE j > k
      <4>1. M[j] = L[j - 1] /\ j - 1 \in 1..n /\ j - 1 # k - 1 /\ At(M, j + 1) = At(L, j)
        BY <1>0, <1>1, <1>4, <2>0, <3>0, <3>4
      <4>2. L[j - 1] # L[k - 1] /\ L[j - 1] \in Slots /\ L[j - 1] # t
        BY <1>2, <1>3, <2>0, <4>1
      <4>3. m[M[j]] = nx[L[j - 1]]
        BY <4>1, <4>2
      <4>4. nx[L[j - 1]] = At(L, (j - 1) + 1) /\ (j - 1) + 1 = j
        BY <1>0, <4>1
      <4> QED BY <4>1, <4>3, <4>4
    <3> QED BY <2>0, <3>1, <3>2, <3>3, <3>4
  <2> HIDE DEF m
  <2>3. Links(M, h, m)
    BY <1>1, <2>1, <2>2 DEF Links
  <2> QED BY <1>6, <2>3 DEF M, m
<1> QED BY <1>5, <1>6

\* What the pointers reach is what the sequence holds.
LEMMA ListedIs ==
  ASSUME NEW L, Links(L, dhead, dnext), NEW s \in Slots
  PROVE  s \in Listed <=> Contains(L, s)
<1>0. /\ L \in Seq(Slots) /\ Len(L) \in Nat
      /\ dhead = NoTask <=> Len(L) = 0
      /\ dhead # NoTask => 1 \in 1..Len(L) /\ dhead = L[1]
      /\ \A i \in 1..Len(L) : /\ L[i] \in Slots /\ L[i] # NoTask /\ Contains(L, L[i])
                              /\ dnext[L[i]] = NoTask <=> i = Len(L)
                              /\ i # Len(L) => i + 1 \in 1..Len(L) /\ dnext[L[i]] = L[i + 1]
  BY LinkFacts
<1>1. ASSUME s \in Listed PROVE Contains(L, s)
  <2> DEFINE T == {x \in Slots : Contains(L, x)}
  <2>1. T \in SUBSET Slots /\ (dhead # NoTask => dhead \in T)
    BY <1>0
  <2>2. ASSUME NEW x \in T, dnext[x] # NoTask PROVE dnext[x] \in T
    <3>1. PICK i \in 1..Len(L) : L[i] = x
      BY <1>0 DEF Contains
    <3>2. i + 1 \in 1..Len(L) /\ dnext[x] = L[i + 1]
      BY <1>0, <2>2, <3>1
    <3> QED BY <1>0, <3>2
  <2> HIDE DEF T
  <2>3. s \in T
    BY <1>1, <2>1, <2>2 DEF Listed
  <2> QED BY <2>3 DEF T
<1>2. ASSUME Contains(L, s) PROVE s \in Listed
  <2>0. SUFFICES \A T \in SUBSET Slots :
                   /\ dhead # NoTask => dhead \in T
                   /\ \A x \in T : dnext[x] # NoTask => dnext[x] \in T
                   => s \in T
    BY DEF Listed
  <2> TAKE T \in SUBSET Slots
  <2> HAVE /\ dhead # NoTask => dhead \in T
           /\ \A x \in T : dnext[x] # NoTask => dnext[x] \in T
  <2> DEFINE B == {i \in 1..Len(L) : L[i] \notin T}
  <2>1. SUFFICES ASSUME B # {} PROVE FALSE
    <3>1. PICK i \in 1..Len(L) : L[i] = s
      BY <1>0, <1>2 DEF Contains
    <3> QED BY <3>1
  <2>2. B \in SUBSET Nat
    BY <1>0
  <2>3. PICK i \in B : \A j \in B : i <= j
    BY <2>1, <2>2, MinOfNaturals
  <2>4. i \in 1..Len(L) /\ L[i] \notin T
    OBVIOUS
  <2>5. i # 1
    BY <1>0, <2>4
  <2>6. i - 1 \in 1..Len(L) /\ ~(i <= i - 1) /\ i - 1 # Len(L) /\ (i - 1) + 1 = i
    BY <1>0, <2>4, <2>5
  <2>7. L[i - 1] \in T
    BY <2>3, <2>6
  <2>8. dnext[L[i - 1]] = L[i] /\ L[i] # NoTask
    BY <1>0, <2>4, <2>6
  <2> QED BY <2>4, <2>7, <2>8
<1> QED BY <1>1, <1>2
-----------------------------------------------------------------------------
(* The invariant of the deadline list.                                      *)

\* Inside a call that removes or inserts arg.
Editing == {"rmwalk", "dset", "inswalk"}

\* The list is in order of deadlines and holds the live tasks that have one;
\* the task an unfinished call works on may be missing, or dead already.
ListOK(L) ==
  /\ Links(L, dhead, dnext)
  /\ SortedBy(L, deadline)
  /\ \A s \in Slots : Contains(L, s) => state[s] # "DEAD" \/ (pc = "rmwalk" /\ s = arg)
  /\ \A s \in Slots : state[s] # "DEAD" /\ deadline[s] # 0 =>
                        Contains(L, s) \/ (pc \in Editing /\ s = arg)

\* The cursor of deadline_list_remove has not passed the task.
RemovePlace(L) ==
  pc = "rmwalk" => \E k \in 1..Len(L) : cursor = L[k] /\ \A j \in 1..Len(L) : j <= k => L[j] # arg

\* A live task that is in the list has no deadline when none is set.
SetPlace(L) ==
  /\ pc \in {"dset", "inswalk"} => state[arg] # "DEAD"
  /\ pc = "dset" /\ Contains(L, arg) => val = 0 /\ deadline[arg] = 0

\* The cursor of deadline_list_insert is before the place of the new entry.
InsertPlace(L) ==
  pc = "inswalk" =>
    /\ ~Contains(L, arg) /\ val # 0 /\ deadline[arg] = val
    /\ \E k \in 1..Len(L) : cursor = L[k] /\ deadline[L[k]] <= val

\* check_deadlines has dealt with what is behind its cursor.
Passed(s) == ~Missed(s) /\ (Approaching(s) => prio[s] = 0)
WalkPlace(L) ==
  pc = "walk" => \E k \in 1..(Len(L) + 1) :
                   cursor = At(L, k) /\ \A j \in 1..Len(L) : j < k => Passed(L[j])

DeadlinesOK(L) ==
  ListOK(L) /\ RemovePlace(L) /\ SetPlace(L) /\ InsertPlace(L) /\ WalkPlace(L)

DeadlineInv == NearDeadlineBoosted /\ \E L \in Seq(Slots) : DeadlinesOK(L)

\* No task dies or comes to life.
SameDead == \A s \in Slots : state'[s] = "DEAD" <=> state[s] = "DEAD"

\* Where no loop runs the list is all there is.
ListLoops == Editing \cup {"walk"}
LEMMA QuietStep ==
  ASSUME NEW L \in Seq(Slots), ListOK(L), pc \notin Editing, pc' \notin ListLoops \cup {"requeue", "select"},
         UNCHANGED dlVars, SameDead
  PROVE  DeadlineInv'
<1>1. deadline' = deadline /\ dnext' = dnext /\ dhead' = dhead
  BY DEF dlVars
<1>2. ListOK(L)'
  <2>1. Links(L, dhead, dnext)' /\ SortedBy(L, deadline)'
    BY <1>1 DEF ListOK
  <2>2. \A s \in Slots : Contains(L, s) => state'[s] # "DEAD"
    BY DEF ListOK, SameDead, Editing
  <2>3. \A s \in Slots : state'[s] # "DEAD" /\ deadline'[s] # 0 => Contains(L, s)
    BY <1>1 DEF ListOK, SameDead
  <2> QED BY <2>1, <2>2, <2>3 DEF ListOK
<1>3. RemovePlace(L)' /\ SetPlace(L)' /\ InsertPlace(L)' /\ WalkPlace(L)' /\ NearDeadlineBoosted'
  BY DEF ListLoops, Editing, RemovePlace, SetPlace, InsertPlace, WalkPlace, NearDeadlineBoosted
<1> QED BY <1>2, <1>3 DEF DeadlinesOK, DeadlineInv

\* task_create resets the links of a dead slot, which is in no list.
LEMMA CreateDeadlines ==
  ASSUME TypeOK, DeadlineInv, pc \notin ListLoops, NEW p, task_create(p),
         pc' \notin ListLoops \cup {"requeue", "select"}
  PROVE  DeadlineInv'
<1>1. PICK L \in Seq(Slots) : DeadlinesOK(L)
  BY DEF DeadlineInv
<1>2. ListOK(L) /\ pc \notin Editing
  BY <1>1 DEF DeadlinesOK, ListLoops
<1>3. CASE CreateNoSlot
  BY <1>2, <1>3, QuietStep DEF CreateNoSlot, taskVars, SameDead
<1>4. CASE CreateNoStack(p) \/ CreateOk(p)
  <2> DEFINE f == FreeSlot
  <2>1. f \in Slots /\ state[f] = "DEAD"
    BY <1>4, FreeSlotDead DEF CreateNoStack, CreateOk
  <2>2. /\ deadline' = [deadline EXCEPT ![f] = 0] /\ dnext' = [dnext EXCEPT ![f] = NoTask]
        /\ dhead' = dhead
    BY <1>4 DEF CreateNoStack, CreateOk, CreateInit
  <2>3. \A s \in Slots \ {f} : state'[s] = state[s]
    BY <1>4 DEF CreateNoStack, CreateOk, TypeOK
  <2> HIDE DEF f
  <2>4. /\ Links(L, dhead, dnext) /\ SortedBy(L, deadline) /\ ~Contains(L, f)
        /\ \A s \in Slots : Contains(L, s) => state[s] # "DEAD"
        /\ \A s \in Slots : state[s] # "DEAD" /\ deadline[s] # 0 => Contains(L, s)
    BY <1>2, <2>1 DEF ListOK, Editing
  <2>5. \A i \in 1..Len(L) : L[i] \in Slots \ {f}
    BY <2>4, LinkFacts
  <2>6. \A s \in Slots \ {f} : deadline'[s] = deadline[s] /\ dnext'[s] = dnext[s]
    BY <2>2 DEF TypeOK
  <2>7. deadline'[f] = 0
    BY <2>1, <2>2 DEF TypeOK
  <2>8. Links(L, dhead', dnext')
    BY <2>2, <2>4, <2>5, <2>6 DEF Links
  <2>9. SortedBy(L, deadline')
    BY <2>4, <2>5, <2>6 DEF SortedBy
  <2>10. ListOK(L)'
    BY <2>1, <2>3, <2>4, <2>6, <2>7, <2>8, <2>9 DEF ListOK
  <2>11. RemovePlace(L)' /\ SetPlace(L)' /\ InsertPlace(L)' /\ WalkPlace(L)' /\ NearDeadlineBoosted'
    BY DEF ListLoops, Editing, RemovePlace, SetPlace, InsertPlace, WalkPlace, NearDeadlineBoosted
  <2> QED BY <2>10, <2>11 DEF DeadlinesOK, DeadlineInv
<1> QED BY <1>3, <1>4 DEF task_create

\* What unlinking the k-th task does to the list.
LEMMA Unlinked ==
  ASSUME TypeOK, NEW L, Links(L, dhead, dnext), SortedBy(L, deadline), NEW k \in 1..Len(L)
  PROVE  /\ RemoveAt(L, k) \in Seq(Slots) /\ SortedBy(RemoveAt(L, k), deadline)
         /\ \A s \in Slots : Contains(RemoveAt(L, k), s) <=> Contains(L, s) /\ s # L[k]
         /\ k = 1 => Links(RemoveAt(L, k), dnext[L[k]], [dnext EXCEPT ![L[k]] = NoTask])
         /\ k # 1 => Links(RemoveAt(L, k), dhead,
                           [dnext EXCEPT ![L[k - 1]] = dnext[L[k]], ![L[k]] = NoTask])
<1>1. L \in Seq(Slots) /\ IsInjective(L)
  BY DEF Links
<1>2. dnext \in [Slots -> Slots \cup {NoTask}] /\ deadline \in [Slots -> Nat]
  BY DEF TypeOK
<1>3. /\ RemoveAt(L, k) \in Seq(Slots) /\ SortedBy(RemoveAt(L, k), deadline)
      /\ \A s \in Slots : Contains(RemoveAt(L, k), s) <=> Contains(L, s) /\ s # L[k]
  BY <1>1, <1>2, RemoveAtFacts
<1> QED BY <1>2, <1>3, LinksRemove

\* The removal of t is over, and M is what is left: task_exit goes on with
\* schedule(), task_set_deadline with the new deadline.
LEMMA RemovedFrom ==
  ASSUME NEW M \in Seq(Slots), Links(M, dhead, dnext)', SortedBy(M, deadline)', NEW t \in Slots,
         \A s \in Slots : Contains(M, s) => state'[s] # "DEAD", ~Contains(M, t),
         \A s \in Slots \ {t} : state'[s] # "DEAD" /\ deadline'[s] # 0 => Contains(M, s),
         arg' = t, pc' = IF state'[t] = "DEAD" THEN "sched" ELSE "dset"
  PROVE  DeadlineInv'
<1>1. ListOK(M)'
  BY DEF ListOK, Editing
<1>2. RemovePlace(M)' /\ SetPlace(M)' /\ InsertPlace(M)' /\ WalkPlace(M)' /\ NearDeadlineBoosted'
  BY DEF RemovePlace, SetPlace, InsertPlace, WalkPlace, NearDeadlineBoosted
<1> QED BY <1>1, <1>2 DEF DeadlinesOK, DeadlineInv

\* deadline_list_remove of t up to its loop.
LEMMA RemoveStartStep ==
  ASSUME TypeOK, NEW L \in Seq(Slots), ListOK(L), pc \notin Editing, NEW t \in Slots, NEW then,
         RemoveStart(t, then), arg' = t, deadline' = deadline,
         \A s \in Slots \ {t} : state'[s] = state[s], state[t] # "DEAD",
         then = IF state'[t] = "DEAD" THEN "sched" ELSE "dset"
  PROVE  DeadlineInv'
<1>0. /\ Links(L, dhead, dnext) /\ SortedBy(L, deadline)
      /\ \A s \in Slots : Contains(L, s) => state[s] # "DEAD"
      /\ \A s \in Slots : state[s] # "DEAD" /\ deadline[s] # 0 => Contains(L, s)
  BY DEF ListOK, Editing
<1>1. /\ Len(L) \in Nat /\ dhead = NoTask <=> Len(L) = 0
      /\ dhead # NoTask => 1 \in 1..Len(L) /\ dhead = L[1]
  BY <1>0, LinkFacts
<1>2. CASE dhead = NoTask
  <2>1. pc' = then /\ dnext' = dnext /\ dhead' = dhead
    <3>1. t # NoTask
      BY DEF Slots, NoTask
    <3> QED BY <1>2, <3>1 DEF RemoveStart
  <2>2. \A s \in Slots : ~Contains(L, s)
    BY <1>1, <1>2 DEF Contains
  <2>3. Links(L, dhead, dnext)' /\ SortedBy(L, deadline)'
    BY <1>0, <2>1 DEF SortedBy
  <2> QED BY <1>0, <2>1, <2>2, <2>3, RemovedFrom
<1>3. CASE dhead = t
  <2>0. t # NoTask
    BY DEF Slots, NoTask
  <2>1. /\ pc' = then /\ dhead' = dnext[t] /\ dnext' = [dnext EXCEPT ![t] = NoTask]
        /\ 1 \in 1..Len(L) /\ L[1] = t
    BY <1>1, <1>3, <2>0 DEF RemoveStart
  <2>2. PICK M : M = RemoveAt(L, 1)
    OBVIOUS
  <2>3. /\ M \in Seq(Slots) /\ SortedBy(M, deadline)
        /\ \A s \in Slots : Contains(M, s) <=> Contains(L, s) /\ s # t
        /\ Links(M, dnext[t], [dnext EXCEPT ![t] = NoTask])
    BY <1>0, <2>1, <2>2, Unlinked
  <2>4. Links(M, dhead, dnext)' /\ SortedBy(M, deadline)'
    BY <2>1, <2>3 DEF SortedBy
  <2>5. ~Contains(M, t)
    BY <2>3
  <2>6. \A s \in Slots : Contains(M, s) => state'[s] # "DEAD"
    BY <1>0, <2>3
  <2>7. \A s \in Slots \ {t} : state'[s] # "DEAD" /\ deadline'[s] # 0 => Contains(M, s)
    BY <1>0, <2>3
  <2> QED BY <2>1, <2>3, <2>4, <2>5, <2>6, <2>7, RemovedFrom
<1>4. CASE dhead \notin {NoTask, t}
  <2>1. cursor' = dhead /\ pc' = "rmwalk" /\ dnext' = dnext /\ dhead' = dhead
    BY <1>4 DEF RemoveStart
  <2>2. ListOK(L)'
    BY <1>0, <2>1 DEF ListOK, Editing, SortedBy
  <2>3. RemovePlace(L)'
    <3>1. 1 \in 1..Len(L) /\ cursor' = L[1] /\ L[1] # arg'
      BY <1>1, <1>4, <2>1
    <3>2. \A j \in 1..Len(L) : j <= 1 => j = 1
      OBVIOUS
    <3> QED BY <3>1, <3>2 DEF RemovePlace
  <2>4. SetPlace(L)' /\ InsertPlace(L)' /\ WalkPlace(L)' /\ NearDeadlineBoosted'
    BY <2>1 DEF SetPlace, InsertPlace, WalkPlace, NearDeadlineBoosted
  <2> QED BY <2>2, <2>3, <2>4 DEF DeadlinesOK, DeadlineInv
<1> QED BY <1>2, <1>3, <1>4

\* One turn of the loop of deadline_list_remove.
LEMMA RemoveWalkStep ==
  ASSUME TypeOK, LoopOK, DeadlineInv, RemoveWalk
  PROVE  DeadlineInv'
<1>0. PICK L \in Seq(Slots) : DeadlinesOK(L)
  BY DEF DeadlineInv
<1>1. /\ pc = "rmwalk" /\ arg \in Slots /\ arg' = arg /\ state' = state /\ deadline' = deadline
      /\ dhead' = dhead /\ arg # NoTask
  BY DEF RemoveWalk, taskVars, LoopOK, TypeOK
<1>2. /\ Links(L, dhead, dnext) /\ SortedBy(L, deadline)
      /\ \A s \in Slots : Contains(L, s) => state[s] # "DEAD" \/ s = arg
      /\ \A s \in Slots : state[s] # "DEAD" /\ deadline[s] # 0 => Contains(L, s) \/ s = arg
  BY <1>0 DEF DeadlinesOK, ListOK
<1>3. PICK k \in 1..Len(L) : cursor = L[k] /\ \A j \in 1..Len(L) : j <= k => L[j] # arg
  BY <1>0, <1>1 DEF DeadlinesOK, RemovePlace
<1>4. /\ Len(L) \in Nat
      /\ \A i \in 1..Len(L) : /\ L[i] \in Slots /\ L[i] # NoTask /\ Contains(L, L[i])
                              /\ dnext[L[i]] = NoTask <=> i = Len(L)
                              /\ i # Len(L) => i + 1 \in 1..Len(L) /\ dnext[L[i]] = L[i + 1]
  BY <1>2, LinkFacts
<1>5. CASE dnext[cursor] = arg
  <2>1. k # Len(L) /\ k + 1 \in 1..Len(L) /\ L[k + 1] = arg /\ (k + 1) - 1 = k /\ k + 1 # 1
    BY <1>1, <1>3, <1>4, <1>5
  <2>2. dnext' = [dnext EXCEPT ![cursor] = dnext[arg], ![arg] = NoTask] /\ pc' = AfterRemove
    BY <1>5 DEF RemoveWalk
  <2>3. PICK M : M = RemoveAt(L, k + 1)
    OBVIOUS
  <2>4. /\ M \in Seq(Slots) /\ SortedBy(M, deadline)
        /\ \A s \in Slots : Contains(M, s) <=> Contains(L, s) /\ s # L[k + 1]
        /\ Links(M, dhead, [dnext EXCEPT ![L[(k + 1) - 1]] = dnext[L[k + 1]], ![L[k + 1]] = NoTask])
    BY <1>2, <2>1, <2>3, Unlinked
  <2>5. Links(M, dhead, dnext)' /\ SortedBy(M, deadline)'
    BY <1>1, <1>3, <2>1, <2>2, <2>4 DEF SortedBy
  <2>6. ~Contains(M, arg) /\ \A s \in Slots : Contains(M, s) => state'[s] # "DEAD"
    BY <1>1, <1>2, <2>1, <2>4
  <2>7. \A s \in Slots \ {arg} : state'[s] # "DEAD" /\ deadline'[s] # 0 => Contains(M, s)
    BY <1>1, <1>2, <2>1, <2>4
  <2>8. pc' = IF state'[arg] = "DEAD" THEN "sched" ELSE "dset"
    BY <1>1, <2>2 DEF AfterRemove
  <2> QED BY <1>1, <2>4, <2>5, <2>6, <2>7, <2>8, RemovedFrom
<1>6. CASE dnext[cursor] = NoTask
  <2>1. k = Len(L)
    BY <1>3, <1>4, <1>6
  <2>2. dnext' = dnext /\ pc' = AfterRemove
    BY <1>1, <1>6 DEF RemoveWalk
  <2>3. ~Contains(L, arg)
    <3>1. \A j \in 1..Len(L) : L[j] # arg
      BY <1>3, <1>4, <2>1
    <3> QED BY <3>1 DEF Contains
  <2>4. Links(L, dhead, dnext)' /\ SortedBy(L, deadline)'
    BY <1>1, <1>2, <2>2 DEF SortedBy
  <2>5. \A s \in Slots : Contains(L, s) => state'[s] # "DEAD"
    BY <1>1, <1>2, <2>3
  <2>6. \A s \in Slots \ {arg} : state'[s] # "DEAD" /\ deadline'[s] # 0 => Contains(L, s)
    BY <1>1, <1>2
  <2>7. pc' = IF state'[arg] = "DEAD" THEN "sched" ELSE "dset"
    BY <1>1, <2>2 DEF AfterRemove
  <2> QED BY <1>1, <2>3, <2>4, <2>5, <2>6, <2>7, RemovedFrom
<1>7. CASE dnext[cursor] \notin {NoTask, arg}
  <2>1. cursor' = dnext[cursor] /\ dnext' = dnext /\ pc' = pc
    BY <1>7 DEF RemoveWalk
  <2>2. k # Len(L) /\ k + 1 \in 1..Len(L) /\ L[k + 1] = cursor' /\ L[k + 1] # arg
    BY <1>3, <1>4, <1>7, <2>1
  <2>3. \A j \in 1..Len(L) : j <= k + 1 => j <= k \/ j = k + 1
    OBVIOUS
  <2>4. RemovePlace(L)'
    BY <1>1, <1>3, <2>2, <2>3 DEF RemovePlace
  <2>5. ListOK(L)'
    BY <1>1, <1>2, <2>1 DEF ListOK, Editing, SortedBy
  <2>6. SetPlace(L)' /\ InsertPlace(L)' /\ WalkPlace(L)' /\ NearDeadlineBoosted'
    BY <1>1, <2>1 DEF SetPlace, InsertPlace, WalkPlace, NearDeadlineBoosted
  <2> QED BY <2>4, <2>5, <2>6 DEF DeadlinesOK, DeadlineInv
<1> QED BY <1>5, <1>6, <1>7

\* What linking t before the k-th task does to the list; f are the deadlines.
LEMMA Linked ==
  ASSUME TypeOK, NEW L, Links(L, dhead, dnext), NEW f \in [Slots -> Nat], SortedBy(L, f),
         NEW t \in Slots, ~Contains(L, t), NEW k \in 1..(Len(L) + 1),
         \A j \in 1..Len(L) : j < k => f[L[j]] <= f[t],
         k <= Len(L) => f[L[k]] >= f[t]
  PROVE  /\ InsertAt(L, k, t) \in Seq(Slots) /\ SortedBy(InsertAt(L, k, t), f)
         /\ \A s \in Slots : Contains(InsertAt(L, k, t), s) <=> Contains(L, s) \/ s = t
         /\ k = 1 => Links(InsertAt(L, k, t), t, [dnext EXCEPT ![t] = dhead])
         /\ k # 1 => Links(InsertAt(L, k, t), dhead,
                           [[dnext EXCEPT ![t] = dnext[L[k - 1]]] EXCEPT ![L[k - 1]] = t])
<1>1. L \in Seq(Slots) /\ IsInjective(L)
  BY DEF Links
<1>2. dnext \in [Slots -> Slots \cup {NoTask}]
  BY DEF TypeOK
<1>3. InsertAt(L, k, t) \in Seq(Slots)
  BY <1>1, InsertAtSeq
<1>4. /\ SortedBy(InsertAt(L, k, t), f)
      /\ \A s \in Slots : Contains(InsertAt(L, k, t), s) <=> Contains(L, s) \/ s = t
  BY <1>1, InsertAtFacts
<1> QED BY <1>2, <1>3, <1>4, LinksInsert

\* The insertion is over, and M is the list.
LEMMA InsertedInto ==
  ASSUME NEW M \in Seq(Slots), Links(M, dhead, dnext)', SortedBy(M, deadline)',
         \A s \in Slots : Contains(M, s) => state'[s] # "DEAD",
         \A s \in Slots : state'[s] # "DEAD" /\ deadline'[s] # 0 => Contains(M, s),
         pc' = "run"
  PROVE  DeadlineInv'
<1>1. ListOK(M)'
  BY DEF ListOK
<1>2. RemovePlace(M)' /\ SetPlace(M)' /\ InsertPlace(M)' /\ WalkPlace(M)' /\ NearDeadlineBoosted'
  BY DEF RemovePlace, SetPlace, InsertPlace, WalkPlace, NearDeadlineBoosted
<1> QED BY <1>1, <1>2 DEF DeadlinesOK, DeadlineInv

\* The store of the deadline and deadline_list_insert up to its loop.
LEMMA SetDeadlineStep ==
  ASSUME TypeOK, TypeOK', LoopOK, DeadlineInv, SetDeadline
  PROVE  DeadlineInv'
<1>0. PICK L \in Seq(Slots) : DeadlinesOK(L)
  BY DEF DeadlineInv
<1>1. /\ pc = "dset" /\ arg \in Slots /\ state' = state /\ val \in Nat
      /\ deadline' = [deadline EXCEPT ![arg] = val] /\ deadline' \in [Slots -> Nat]
  BY DEF SetDeadline, taskVars, LoopOK, TypeOK
<1>2. /\ Links(L, dhead, dnext) /\ SortedBy(L, deadline)
      /\ \A s \in Slots : Contains(L, s) => state[s] # "DEAD"
      /\ \A s \in Slots : state[s] # "DEAD" /\ deadline[s] # 0 => Contains(L, s) \/ s = arg
      /\ state[arg] # "DEAD" /\ (Contains(L, arg) => val = 0 /\ deadline[arg] = 0)
  BY <1>0, <1>1 DEF DeadlinesOK, ListOK, SetPlace
<1>3. /\ Len(L) \in Nat /\ dhead = NoTask <=> Len(L) = 0
      /\ dhead # NoTask => 1 \in 1..Len(L) /\ dhead = L[1]
      /\ \A i \in 1..Len(L) : L[i] \in Slots /\ Contains(L, L[i])
  BY <1>2, LinkFacts
<1>4. /\ deadline'[arg] = val /\ \A s \in Slots \ {arg} : deadline'[s] = deadline[s]
      /\ \A i \in 1..Len(L) : deadline'[L[i]] = deadline[L[i]]
  <2>1. deadline'[arg] = val /\ \A s \in Slots \ {arg} : deadline'[s] = deadline[s]
    BY <1>1 DEF TypeOK
  <2>2. \A i \in 1..Len(L) : L[i] = arg => deadline'[arg] = deadline[arg]
    BY <1>2, <1>3, <2>1
  <2> QED BY <1>3, <2>1, <2>2
<1>5. SortedBy(L, deadline')
  BY <1>2, <1>4 DEF SortedBy
<1> DEFINE long == dhead # NoTask /\ val # 0 /\ val >= deadline'[dhead]
<1> HIDE DEF long
<1>6. CASE long
  <2>1. pc' = "inswalk" /\ cursor' = dhead /\ dnext' = dnext /\ dhead' = dhead /\ arg' = arg /\ val' = val
    BY <1>6 DEF SetDeadline, long
  <2>2. dhead # NoTask /\ val # 0 /\ val >= deadline'[dhead]
    BY <1>6 DEF long
  <2>3. ~Contains(L, arg)
    BY <1>2, <2>2
  <2>4. ListOK(L)'
    BY <1>1, <1>2, <1>4, <1>5, <2>1 DEF ListOK, Editing
  <2>5. InsertPlace(L)'
    <3>1. 1 \in 1..Len(L) /\ cursor' = L[1] /\ deadline'[L[1]] \in Nat
      BY <1>1, <1>3, <2>1, <2>2
    <3>2. deadline'[L[1]] <= val'
      BY <1>1, <1>3, <2>1, <2>2, <3>1
    <3> QED BY <1>4, <2>1, <2>2, <2>3, <3>1, <3>2 DEF InsertPlace
  <2>6. RemovePlace(L)' /\ SetPlace(L)' /\ WalkPlace(L)' /\ NearDeadlineBoosted'
    BY <1>1, <1>2, <2>1 DEF RemovePlace, SetPlace, WalkPlace, NearDeadlineBoosted
  <2> QED BY <2>4, <2>5, <2>6 DEF DeadlinesOK, DeadlineInv
<1>7. CASE ~long
  <2>1. /\ IF val = 0 THEN UNCHANGED <<dnext, dhead>>
           ELSE dnext' = [dnext EXCEPT ![arg] = dhead] /\ dhead' = arg
        /\ pc' = "run"
    BY <1>7 DEF SetDeadline, long
  <2>2. CASE val = 0
    <3>1. Links(L, dhead, dnext)' /\ SortedBy(L, deadline)'
      BY <1>2, <1>5, <2>1, <2>2
    <3>2. \A s \in Slots : state'[s] # "DEAD" /\ deadline'[s] # 0 => Contains(L, s)
      BY <1>1, <1>2, <1>4, <2>2
    <3> QED BY <1>1, <1>2, <2>1, <3>1, <3>2, InsertedInto
  <2>3. CASE val # 0
    <3>1. ~Contains(L, arg)
      BY <1>2, <2>3
    <3>2. PICK M : M = InsertAt(L, 1, arg)
      OBVIOUS
    <3>3. 1 \in 1..(Len(L) + 1) /\ \A j \in 1..Len(L) : ~(j < 1)
      BY <1>3
    <3>4. 1 <= Len(L) => deadline'[L[1]] >= deadline'[arg]
      <4>1. ASSUME 1 <= Len(L) PROVE dhead # NoTask /\ dhead = L[1] /\ L[1] \in Slots
        BY <1>3, <4>1
      <4>2. dhead # NoTask => ~(val >= deadline'[dhead])
        BY <1>7, <2>3 DEF long
      <4> QED BY <1>1, <1>4, <4>1, <4>2
    <3>5. /\ M \in Seq(Slots) /\ SortedBy(M, deadline')
          /\ \A s \in Slots : Contains(M, s) <=> Contains(L, s) \/ s = arg
          /\ Links(M, arg, [dnext EXCEPT ![arg] = dhead])
      <4> DEFINE f == deadline'
                 k == 1
      <4>1. /\ f \in [Slots -> Nat] /\ Links(L, dhead, dnext) /\ SortedBy(L, f)
            /\ k \in 1..(Len(L) + 1)
            /\ \A j \in 1..Len(L) : j < k => f[L[j]] <= f[arg]
            /\ k <= Len(L) => f[L[k]] >= f[arg]
        BY <1>1, <1>2, <1>5, <3>3, <3>4
      <4>2. k = 1
        OBVIOUS
      <4> HIDE DEF f, k
      <4>3. /\ InsertAt(L, k, arg) \in Seq(Slots) /\ SortedBy(InsertAt(L, k, arg), f)
            /\ \A s \in Slots : Contains(InsertAt(L, k, arg), s) <=> Contains(L, s) \/ s = arg
            /\ Links(InsertAt(L, k, arg), arg, [dnext EXCEPT ![arg] = dhead])
        BY <1>1, <3>1, <4>1, <4>2, Linked
      <4> QED BY <3>2, <4>2, <4>3 DEF f
    <3>6. Links(M, dhead, dnext)' /\ SortedBy(M, deadline)'
      BY <2>1, <2>3, <3>5
    <3>7. \A s \in Slots : Contains(M, s) => state'[s] # "DEAD"
      BY <1>1, <1>2, <3>5
    <3>8. \A s \in Slots : state'[s] # "DEAD" /\ deadline'[s] # 0 => Contains(M, s)
      BY <1>1, <1>2, <1>4, <3>5
    <3> QED BY <2>1, <3>5, <3>6, <3>7, <3>8, InsertedInto
  <2> QED BY <2>2, <2>3
<1> QED BY <1>6, <1>7

\* One turn of the loop of deadline_list_insert.
LEMMA InsertWalkStep ==
  ASSUME TypeOK, LoopOK, DeadlineInv, InsertWalk
  PROVE  DeadlineInv'
<1>0. PICK L \in Seq(Slots) : DeadlinesOK(L)
  BY DEF DeadlineInv
<1>1. /\ pc = "inswalk" /\ arg \in Slots /\ state' = state /\ val \in Nat
      /\ deadline' = deadline /\ dhead' = dhead /\ deadline \in [Slots -> Nat]
  BY DEF InsertWalk, taskVars, LoopOK, TypeOK
<1>2. /\ Links(L, dhead, dnext) /\ SortedBy(L, deadline)
      /\ \A s \in Slots : Contains(L, s) => state[s] # "DEAD"
      /\ \A s \in Slots : state[s] # "DEAD" /\ deadline[s] # 0 => Contains(L, s) \/ s = arg
      /\ state[arg] # "DEAD" /\ ~Contains(L, arg) /\ val # 0 /\ deadline[arg] = val
  BY <1>0, <1>1 DEF DeadlinesOK, ListOK, SetPlace, InsertPlace
<1>3. PICK k \in 1..Len(L) : cursor = L[k] /\ deadline[L[k]] <= val
  BY <1>0, <1>1 DEF DeadlinesOK, InsertPlace
<1>4. /\ Len(L) \in Nat
      /\ \A i \in 1..Len(L) : /\ L[i] \in Slots /\ L[i] # NoTask
                              /\ dnext[L[i]] = NoTask <=> i = Len(L)
                              /\ i # Len(L) => i + 1 \in 1..Len(L) /\ dnext[L[i]] = L[i + 1]
  BY <1>2, LinkFacts
<1> DEFINE more == dnext[cursor] # NoTask /\ deadline[dnext[cursor]] <= val
<1> HIDE DEF more
<1>5. CASE more
  <2>1. cursor' = dnext[cursor] /\ dnext' = dnext /\ arg' = arg /\ val' = val /\ pc' = pc
    BY <1>5 DEF InsertWalk, more
  <2>2. k + 1 \in 1..Len(L) /\ cursor' = L[k + 1] /\ deadline[L[k + 1]] <= val
    BY <1>3, <1>4, <1>5, <2>1 DEF more
  <2>3. ListOK(L)'
    BY <1>1, <1>2, <2>1 DEF ListOK, Editing
  <2>4. InsertPlace(L)'
    BY <1>1, <1>2, <2>1, <2>2 DEF InsertPlace
  <2>5. RemovePlace(L)' /\ SetPlace(L)' /\ WalkPlace(L)' /\ NearDeadlineBoosted'
    BY <1>1, <1>2, <2>1 DEF RemovePlace, SetPlace, WalkPlace, NearDeadlineBoosted
  <2> QED BY <2>3, <2>4, <2>5 DEF DeadlinesOK, DeadlineInv
<1>6. CASE ~more
  <2>1. /\ dnext' = [[dnext EXCEPT ![arg] = dnext[cursor]] EXCEPT ![cursor] = arg]
        /\ pc' = "run"
    BY <1>6 DEF InsertWalk, more
  <2>2. PICK M : M = InsertAt(L, k + 1, arg)
    OBVIOUS
  <2>3. k + 1 \in 1..(Len(L) + 1) /\ k + 1 # 1 /\ (k + 1) - 1 = k
    BY <1>4
  <2>4. ASSUME NEW j \in 1..Len(L), j < k + 1 PROVE deadline[L[j]] <= deadline[arg]
    <3>1. j = k \/ j < k
      BY <2>4
    <3>2. deadline[L[j]] <= deadline[L[k]]
      BY <1>1, <1>2, <1>4, <3>1 DEF SortedBy
    <3>3. deadline[L[j]] \in Nat /\ deadline[L[k]] \in Nat
      BY <1>1, <1>4
    <3> QED BY <1>1, <1>2, <1>3, <3>2, <3>3
  <2>5. k + 1 <= Len(L) => deadline[L[k + 1]] >= deadline[arg]
    <3>1. ASSUME k + 1 <= Len(L) PROVE k + 1 \in 1..Len(L) /\ dnext[cursor] = L[k + 1] /\ dnext[cursor] # NoTask
      BY <1>3, <1>4, <3>1
    <3>2. dnext[cursor] # NoTask => ~(deadline[dnext[cursor]] <= val)
      BY <1>6 DEF more
    <3>3. k + 1 <= Len(L) => deadline[L[k + 1]] \in Nat
      BY <1>1, <1>4, <3>1
    <3> QED BY <1>1, <1>2, <3>1, <3>2, <3>3
  <2>6. /\ M \in Seq(Slots) /\ SortedBy(M, deadline)
        /\ \A s \in Slots : Contains(M, s) <=> Contains(L, s) \/ s = arg
        /\ Links(M, dhead, [[dnext EXCEPT ![arg] = dnext[L[(k + 1) - 1]]] EXCEPT ![L[(k + 1) - 1]] = arg])
    BY <1>1, <1>2, <2>2, <2>3, <2>4, <2>5, Linked
  <2>7. Links(M, dhead, dnext)' /\ SortedBy(M, deadline)'
    BY <1>1, <1>3, <2>1, <2>3, <2>6
  <2>8. \A s \in Slots : Contains(M, s) => state'[s] # "DEAD"
    BY <1>1, <1>2, <2>6
  <2>9. \A s \in Slots : state'[s] # "DEAD" /\ deadline'[s] # 0 => Contains(M, s)
    BY <1>1, <1>2, <2>6
  <2> QED BY <2>1, <2>6, <2>7, <2>8, <2>9, InsertedInto
<1> QED BY <1>5, <1>6

\* One turn of check_deadlines: in a list in order of deadlines those that
\* are missed come first, so clearing them keeps the order.
LEMMA CheckWalkStep ==
  ASSUME TypeOK, DeadlineInv, CheckWalk
  PROVE  DeadlineInv'
<1>0. PICK L \in Seq(Slots) : DeadlinesOK(L)
  BY DEF DeadlineInv
<1>1. /\ pc = "walk" /\ pc' = "walk" /\ cursor \in Slots /\ state' = state /\ dnext' = dnext
      /\ dhead' = dhead /\ now' = now /\ now \in Nat /\ cursor' = dnext[cursor]
      /\ cursor # NoTask
      /\ deadline' = IF Missed(cursor) THEN [deadline EXCEPT ![cursor] = 0] ELSE deadline
  BY DEF CheckWalk, TypeOK
<1>2. /\ Links(L, dhead, dnext) /\ SortedBy(L, deadline) /\ Len(L) \in Nat
      /\ \A s \in Slots : Contains(L, s) => state[s] # "DEAD"
      /\ \A s \in Slots : state[s] # "DEAD" /\ deadline[s] # 0 => Contains(L, s)
  BY <1>0, <1>1, LinkFacts DEF DeadlinesOK, ListOK, Editing
<1>3. PICK k \in 1..(Len(L) + 1) : cursor = At(L, k) /\ \A j \in 1..Len(L) : j < k => Passed(L[j])
  BY <1>0, <1>1 DEF DeadlinesOK, WalkPlace
<1>4. k \in 1..Len(L) /\ cursor = L[k]
  BY <1>1, <1>3 DEF At
<1>5. \A i \in 1..Len(L) : L[i] \in Slots /\ deadline[L[i]] \in Nat
  BY <1>2, LinkFacts DEF TypeOK
<1>6. \A i, j \in 1..Len(L) : L[i] = L[j] => i = j
  BY <1>2 DEF Links, IsInjective
<1>7. /\ \A s \in Slots \ {cursor} : deadline'[s] = deadline[s]
      /\ deadline'[cursor] = IF Missed(cursor) THEN 0 ELSE deadline[cursor]
  BY <1>1 DEF TypeOK
<1>8. /\ \A s \in Slots \ {cursor} : prio'[s] = prio[s]
      /\ Approaching(cursor) => prio'[cursor] = 0
  <2>1. prio \in [Slots -> Nat]
    BY ConstantsAssumption DEF TypeOK
  <2>2. CASE Approaching(cursor) /\ prio[cursor] > 0
    <3>1. prio' = [prio EXCEPT ![cursor] = 0]
      BY <2>2 DEF CheckWalk, ChangePriority
    <3> QED BY <1>1, <2>1, <3>1
  <2>3. CASE ~(Approaching(cursor) /\ prio[cursor] > 0)
    <3>1. prio' = prio
      BY <2>3 DEF CheckWalk
    <3>2. prio[cursor] \in Nat
      BY <1>1, <2>1
    <3> QED BY <2>3, <3>1, <3>2
  <2> QED BY <2>2, <2>3
<1>9. SortedBy(L, deadline')
  <2> SUFFICES ASSUME NEW i \in 1..Len(L), NEW j \in 1..Len(L), i < j
               PROVE  deadline'[L[i]] <= deadline'[L[j]]
    BY DEF SortedBy
  <2>1. deadline[L[i]] <= deadline[L[j]]
    BY <1>2 DEF SortedBy
  <2>2. CASE i = k
    <3>1. L[j] # cursor /\ deadline'[L[j]] = deadline[L[j]]
      BY <1>4, <1>5, <1>6, <1>7, <2>2
    <3> QED BY <1>4, <1>5, <1>7, <2>1, <2>2, <3>1
  <2>3. CASE j = k
    <3>1. L[i] # cursor /\ deadline'[L[i]] = deadline[L[i]] /\ ~Missed(L[i])
      BY <1>3, <1>4, <1>5, <1>6, <1>7, <2>3 DEF Passed
    <3>2. ~Missed(cursor) => deadline'[L[j]] = deadline[L[j]]
      BY <1>4, <1>7, <2>3
    <3>3. Missed(cursor) => deadline[L[i]] = 0 /\ deadline'[L[j]] = 0
      BY <1>1, <1>4, <1>5, <1>7, <2>1, <2>3, <3>1 DEF Missed
    <3> QED BY <2>1, <3>1, <3>2, <3>3
  <2>4. CASE i # k /\ j # k
    <3>1. L[i] # cursor /\ L[j] # cursor
      BY <1>4, <1>6, <2>4
    <3> QED BY <1>5, <1>7, <2>1, <3>1
  <2> QED BY <2>2, <2>3, <2>4
<1>10. ListOK(L)'
  <2>1. \A s \in Slots : deadline'[s] # 0 => deadline[s] # 0
    BY <1>7
  <2> QED BY <1>1, <1>2, <1>9, <2>1 DEF ListOK
<1>11. ASSUME NEW j \in 1..Len(L), j < k + 1 PROVE Passed(L[j])'
  <2>1. CASE j = k
    <3>1. prio'[cursor] = 0 \/ ~(deadline'[cursor] # 0 /\ now' <= deadline'[cursor]
                                  /\ deadline'[cursor] - now' < BOOST_WINDOW)
      BY <1>1, <1>7, <1>8 DEF Approaching
    <3>2. ~(deadline'[cursor] # 0 /\ now' > deadline'[cursor])
      BY <1>1, <1>7 DEF Missed
    <3> QED BY <1>4, <2>1, <3>1, <3>2 DEF Passed, Missed, Approaching
  <2>2. CASE j # k
    <3>1. Passed(L[j]) /\ L[j] # cursor /\ L[j] \in Slots
      BY <1>3, <1>4, <1>5, <1>6, <1>11, <2>2
    <3>2. deadline'[L[j]] = deadline[L[j]] /\ prio'[L[j]] = prio[L[j]]
      BY <1>7, <1>8, <3>1
    <3> QED BY <1>1, <3>1, <3>2 DEF Passed, Missed, Approaching
  <2> QED BY <2>1, <2>2
<1>12. WalkPlace(L)'
  <2>1. cursor' = At(L, k + 1) /\ k + 1 \in 1..(Len(L) + 1)
    BY <1>1, <1>2, <1>4 DEF Links
  <2> QED BY <1>11, <2>1 DEF WalkPlace
<1>13. RemovePlace(L)' /\ SetPlace(L)' /\ InsertPlace(L)' /\ NearDeadlineBoosted'
  BY <1>1 DEF RemovePlace, SetPlace, InsertPlace, NearDeadlineBoosted
<1> QED BY <1>10, <1>12, <1>13 DEF DeadlinesOK, DeadlineInv

\* The walk starts at the head.
LEMMA CheckStartStep ==
  ASSUME DeadlineInv, CheckStart
  PROVE  DeadlineInv'
<1>0. PICK L \in Seq(Slots) : DeadlinesOK(L)
  BY DEF DeadlineInv
<1>1. /\ pc = "sched" /\ pc' = "walk" /\ cursor' = dhead
      /\ UNCHANGED <<state, deadline, dnext, dhead>>
  BY DEF CheckStart, taskVars, dlVars
<1>2. ListOK(L)'
  BY <1>0, <1>1 DEF DeadlinesOK, ListOK, Editing
<1>3. WalkPlace(L)'
  <2>1. cursor' = At(L, 1) /\ Len(L) \in Nat
    BY <1>0, <1>1 DEF DeadlinesOK, ListOK, Links
  <2>2. 1 \in 1..(Len(L) + 1) /\ \A j \in 1..Len(L) : ~(j < 1)
    BY <2>1
  <2> QED BY <2>1, <2>2 DEF WalkPlace
<1>4. RemovePlace(L)' /\ SetPlace(L)' /\ InsertPlace(L)' /\ NearDeadlineBoosted'
  BY <1>1 DEF RemovePlace, SetPlace, InsertPlace, NearDeadlineBoosted
<1> QED BY <1>2, <1>3, <1>4 DEF DeadlinesOK, DeadlineInv

\* The walk has passed the whole list, hence every live task with a deadline.
LEMMA CheckDoneStep ==
  ASSUME TypeOK, DeadlineInv, CheckDone
  PROVE  DeadlineInv'
<1>0. PICK L \in Seq(Slots) : DeadlinesOK(L)
  BY DEF DeadlineInv
<1>1. /\ pc = "walk" /\ pc' = "requeue" /\ cursor = NoTask
      /\ UNCHANGED <<state, prio, deadline, dnext, dhead, now>>
  BY DEF CheckDone, taskVars, dlVars, loopVars
<1>2. /\ Links(L, dhead, dnext) /\ Len(L) \in Nat
      /\ \A s \in Slots : state[s] # "DEAD" /\ deadline[s] # 0 => Contains(L, s)
  BY <1>0, <1>1, LinkFacts DEF DeadlinesOK, ListOK, Editing
<1>3. PICK k \in 1..(Len(L) + 1) : cursor = At(L, k) /\ \A j \in 1..Len(L) : j < k => Passed(L[j])
  BY <1>0, <1>1 DEF DeadlinesOK, WalkPlace
<1>4. k = Len(L) + 1
  <2>1. k \in 1..Len(L) => L[k] # NoTask
    BY <1>2, LinkFacts
  <2> QED BY <1>1, <1>2, <1>3, <2>1 DEF At
<1>5. ASSUME NEW s \in Slots, state[s] # "DEAD", Approaching(s) PROVE prio[s] = 0
  <2>1. Contains(L, s)
    BY <1>2, <1>5 DEF Approaching
  <2>2. PICK j \in 1..Len(L) : L[j] = s
    BY <2>1 DEF Contains
  <2>3. j < k
    BY <1>2, <1>4
  <2> QED BY <1>3, <1>5, <2>2, <2>3 DEF Passed
<1>6. NearDeadlineBoosted'
  BY <1>1, <1>5 DEF NearDeadlineBoosted, Approaching
<1>7. ListOK(L)'
  BY <1>0, <1>1 DEF DeadlinesOK, ListOK, Editing
<1>8. RemovePlace(L)' /\ SetPlace(L)' /\ InsertPlace(L)' /\ WalkPlace(L)'
  BY <1>1 DEF RemovePlace, SetPlace, InsertPlace, WalkPlace
<1> QED BY <1>6, <1>7, <1>8 DEF DeadlinesOK, DeadlineInv

\* A task that goes back to the queue keeps its deadline and its priority.
LEMMA RequeueDeadlines ==
  ASSUME TypeOK, DeadlineInv, Requeue
  PROVE  DeadlineInv'
<1>0. PICK L \in Seq(Slots) : DeadlinesOK(L)
  BY DEF DeadlineInv
<1>1. /\ pc = "requeue" /\ pc' = "select"
      /\ UNCHANGED <<prio, deadline, dnext, dhead, now>>
  BY DEF Requeue, dlVars, loopVars
<1>2. SameDead
  <2>1. CASE current # NoTask /\ state[current] = "RUNNING"
    <3>1. state' = [state EXCEPT ![current] = "READY"] /\ current \in Slots
      BY <2>1 DEF Requeue, TypeOK
    <3> QED BY <2>1, <3>1 DEF SameDead, TypeOK
  <2>2. CASE ~(current # NoTask /\ state[current] = "RUNNING")
    <3>1. state' = state
      BY <2>2 DEF Requeue
    <3> QED BY <3>1 DEF SameDead
  <2> QED BY <2>1, <2>2
<1>3. NearDeadlineBoosted'
  BY <1>1, <1>2 DEF DeadlineInv, NearDeadlineBoosted, Approaching, SameDead
<1>4. ListOK(L)'
  BY <1>0, <1>1, <1>2 DEF DeadlinesOK, ListOK, Editing, SameDead
<1>5. RemovePlace(L)' /\ SetPlace(L)' /\ InsertPlace(L)' /\ WalkPlace(L)'
  BY <1>1 DEF RemovePlace, SetPlace, InsertPlace, WalkPlace
<1> QED BY <1>3, <1>4, <1>5 DEF DeadlinesOK, DeadlineInv

\* Every step keeps the deadline list, if no caller arms a task whose missed
\* entry is still listed.
LEMMA DeadlineStep ==
  ASSUME RearmAfterMiss = FALSE, IInv, IInv', DeadlineInv, [Next]_vars
  PROVE  DeadlineInv'
<1>0. TypeOK /\ LoopOK /\ QueueOK /\ RunOK /\ TypeOK'
  BY DEF IInv
<1>1. PICK L \in Seq(Slots) : DeadlinesOK(L)
  BY DEF DeadlineInv
<1>2. ListOK(L)
  BY <1>1 DEF DeadlinesOK
<1>3. ASSUME pc \notin Editing, pc' \in {"run", "sched", "halt"}, UNCHANGED dlVars, SameDead
      PROVE  DeadlineInv'
  <2>1. pc' \notin ListLoops \cup {"requeue", "select"}
    BY <1>3 DEF ListLoops, Editing
  <2> QED BY <1>2, <1>3, <2>1, QuietStep
<1>4. ASSUME UNCHANGED <<taskVars, dlVars, loopVars, pc>> PROVE DeadlineInv'
  <2>1. UNCHANGED <<state, prio, deadline, dnext, dhead, arg, val, cursor, now, pc>>
    BY <1>4 DEF taskVars, dlVars, loopVars
  <2>2. DeadlinesOK(L)'
    BY <1>1, <2>1 DEF DeadlinesOK, ListOK, SortedBy, RemovePlace, SetPlace, InsertPlace, WalkPlace,
                      Passed, Missed, Approaching
  <2>3. NearDeadlineBoosted'
    BY <2>1 DEF DeadlineInv, NearDeadlineBoosted, Approaching
  <2> QED BY <2>2, <2>3 DEF DeadlineInv
<1>5. CASE KernelStep
  <2>1. CASE BootShell \/ BootMonitor
    <3>1. PICK p : /\ task_create(p) /\ pc \in {"boot", "boot2"} /\ pc' \in {"boot2", "sched", "halt"}
      BY <2>1 DEF BootShell, BootMonitor, BootStep
    <3>2. pc \notin ListLoops /\ pc' \notin ListLoops \cup {"requeue", "select"}
      BY <3>1 DEF ListLoops, Editing
    <3> QED BY <1>0, <3>1, <3>2, CreateDeadlines
  <2>2. CASE SelectNone
    <3>1. pc = "select" /\ pc' \in {"halt", "run"} /\ UNCHANGED dlVars /\ state' = state
      BY <2>2 DEF SelectNone, taskVars
    <3> QED BY <1>3, <3>1 DEF SameDead, Editing
  <2>3. CASE SelectTask
    <3> DEFINE next == Head(readyQueue)
    <3>1. next \in Slots /\ Contains(readyQueue, next)
      BY <1>0, <2>3, TailFacts DEF TypeOK, QueueOK, QueueExact, SelectTask
    <3>2. state[next] = "READY"
      BY <1>0, <3>1 DEF QueueOK, QueueExact
    <3>3. pc = "select" /\ pc' = "run" /\ UNCHANGED dlVars /\ state' = [state EXCEPT ![next] = "RUNNING"]
      BY <2>3 DEF SelectTask
    <3> HIDE DEF next
    <3>4. SameDead
      BY <1>0, <3>1, <3>2, <3>3 DEF SameDead, TypeOK
    <3> QED BY <1>3, <3>3, <3>4 DEF Editing
  <2> QED BY <1>0, <1>5, <2>1, <2>2, <2>3, RemoveWalkStep, SetDeadlineStep, InsertWalkStep,
             CheckStartStep, CheckWalkStep, CheckDoneStep, RequeueDeadlines DEF KernelStep
<1>6. CASE TaskCall
  <2>0. pc = "run" /\ pc \notin Editing /\ pc \notin ListLoops
    <3>1. pc = "run"
      BY <1>6 DEF TaskCall, Create, task_yield, task_block, task_exit, task_wake,
                  task_set_priority, task_set_deadline, scheduler_disable_preemption,
                  scheduler_enable_preemption
    <3> QED BY <3>1 DEF ListLoops, Editing
  <2>1. CASE Create
    <3>1. PICK p \in Priorities : task_create(p)
      BY <2>1 DEF Create
    <3>2. pc' = "run"
      BY <2>0, <2>1 DEF Create
    <3>3. pc' \notin ListLoops \cup {"requeue", "select"}
      BY <3>2 DEF ListLoops, Editing
    <3> QED BY <1>0, <2>0, <3>1, <3>3, CreateDeadlines
  <2>2. CASE task_yield
    <3>1. pc' = "sched" /\ UNCHANGED dlVars /\ state' = state
      BY <2>2 DEF task_yield, taskVars
    <3> QED BY <1>3, <2>0, <3>1 DEF SameDead
  <2>3. CASE task_block
    <3>1. /\ pc' = "sched" /\ UNCHANGED dlVars /\ current \in Slots
          /\ state' = [state EXCEPT ![current] = "BLOCKED"]
      BY <1>0, <2>3 DEF task_block, TypeOK
    <3>2. state[current] = "RUNNING"
      BY <1>0, <2>0, <2>3 DEF RunOK, task_block
    <3>3. SameDead
      BY <1>0, <3>1, <3>2 DEF SameDead, TypeOK
    <3> QED BY <1>3, <2>0, <3>1, <3>3
  <2>4. CASE task_exit
    <3>1. CASE current = NoTask
      <4>1. pc' = "halt" /\ UNCHANGED dlVars /\ state' = state
        BY <2>4, <3>1 DEF task_exit, taskVars
      <4> QED BY <1>3, <2>0, <4>1 DEF SameDead
    <3>2. CASE current # NoTask
      <4>1. /\ current \in Slots /\ state' = [state EXCEPT ![current] = "DEAD"]
            /\ arg' = current /\ RemoveStart(current, "sched") /\ deadline' = deadline
        BY <1>0, <2>4, <3>2 DEF task_exit, TypeOK
      <4>2. state[current] = "RUNNING"
        BY <1>0, <2>0, <3>2 DEF RunOK
      <4>3. state'[current] = "DEAD" /\ \A s \in Slots \ {current} : state'[s] = state[s]
        BY <1>0, <4>1 DEF TypeOK
      <4> QED BY <1>0, <1>2, <2>0, <4>1, <4>2, <4>3, RemoveStartStep
    <3> QED BY <3>1, <3>2
  <2>5. ASSUME NEW t \in Slots, task_wake(t) PROVE DeadlineInv'
    <3>1. /\ pc' = "run" /\ UNCHANGED dlVars /\ state[t] = "BLOCKED"
          /\ state' = [state EXCEPT ![t] = "READY"]
      BY <2>0, <2>5 DEF task_wake
    <3>2. SameDead
      BY <1>0, <3>1 DEF SameDead, TypeOK
    <3> QED BY <1>3, <2>0, <3>1, <3>2
  <2>6. ASSUME NEW t \in Slots, NEW p \in NewPriorities, task_set_priority(t, p)
        PROVE  DeadlineInv'
    <3>1. pc' = "run" /\ UNCHANGED dlVars /\ state' = state
      BY <2>0, <2>6 DEF task_set_priority
    <3> QED BY <1>3, <2>0, <3>1 DEF SameDead
  <2>7. ASSUME NEW t \in Slots, NEW d \in Deadlines, task_set_deadline(t, d)
        PROVE  DeadlineInv'
    <3>1. /\ state[t] # "DEAD" /\ arg' = t /\ val' = d /\ state' = state /\ deadline' = deadline
          /\ d = 0 \/ ~(deadline[t] = 0 /\ t \in Listed)
      BY <2>7 DEF task_set_deadline, taskVars
    <3>2. CASE deadline[t] # 0
      <4>1. RemoveStart(t, "dset")
        BY <2>7, <3>2 DEF task_set_deadline
      <4> QED BY <1>0, <1>2, <2>0, <3>1, <4>1, RemoveStartStep
    <3>3. CASE deadline[t] = 0
      <4>1. pc' = "dset" /\ dnext' = dnext /\ dhead' = dhead
        BY <2>7, <3>3 DEF task_set_deadline
      <4>2. Contains(L, t) => d = 0
        BY <1>2, <3>1, <3>3, ListedIs DEF ListOK
      <4>3. ListOK(L)'
        BY <1>2, <2>0, <3>1, <4>1 DEF ListOK, Editing
      <4>4. SetPlace(L)'
        BY <3>1, <3>3, <4>1, <4>2 DEF SetPlace
      <4>5. RemovePlace(L)' /\ InsertPlace(L)' /\ WalkPlace(L)' /\ NearDeadlineBoosted'
        BY <4>1 DEF RemovePlace, InsertPlace, WalkPlace, NearDeadlineBoosted
      <4> QED BY <4>3, <4>4, <4>5 DEF DeadlinesOK, DeadlineInv
    <3> QED BY <3>2, <3>3
  <2>8. CASE scheduler_disable_preemption \/ scheduler_enable_preemption
    <3>1. pc' \in {"run", "sched"}
      BY <2>8, Zenon DEF scheduler_disable_preemption, scheduler_enable_preemption
    <3>2. UNCHANGED dlVars /\ state' = state
      BY <2>8 DEF scheduler_disable_preemption, scheduler_enable_preemption, taskVars
    <3> QED BY <1>3, <2>0, <3>1, <3>2 DEF SameDead
  <2> QED BY <1>6, <2>1, <2>2, <2>3, <2>4, <2>5, <2>6, <2>7, <2>8 DEF TaskCall
<1>7. CASE Tick \/ scheduler_register_timer \/ UNCHANGED vars
  <2>1. UNCHANGED <<taskVars, dlVars, loopVars, pc>>
    BY <1>7 DEF Tick, scheduler_register_timer, vars
  <2> QED BY <1>4, <2>1
<1> QED BY <1>5, <1>6, <1>7 DEF Next

LEMMA DeadlineInit == Init => DeadlineInv
<1> SUFFICES ASSUME Init PROVE DeadlineInv
  OBVIOUS
<1> DEFINE L == <<>>
<1>1. L \in Seq(Slots) /\ Len(L) = 0 /\ IsInjective(L) /\ \A s : ~Contains(L, s)
  BY DEF Contains, IsInjective
<1> HIDE DEF L
<1>2. \A i : i \notin 1..Len(L)
  BY <1>1
<1>3. dhead = NoTask /\ pc = "boot" /\ \A s \in Slots : state[s] = "DEAD"
  BY DEF Init
<1>4. Links(L, dhead, dnext) /\ SortedBy(L, deadline)
  BY <1>1, <1>2, <1>3 DEF Links, SortedBy, At
<1>5. ListOK(L)
  BY <1>1, <1>3, <1>4 DEF ListOK
<1>6. RemovePlace(L) /\ SetPlace(L) /\ InsertPlace(L) /\ WalkPlace(L) /\ NearDeadlineBoosted
  BY <1>3 DEF RemovePlace, SetPlace, InsertPlace, WalkPlace, NearDeadlineBoosted
<1> QED BY <1>1, <1>5, <1>6 DEF DeadlinesOK, DeadlineInv

LEMMA DeadlineInvariant ==
  ASSUME RearmAfterMiss = FALSE PROVE Spec => []DeadlineInv
<1>1. IInv /\ IInv' /\ DeadlineInv /\ [Next]_vars => DeadlineInv'
  BY DeadlineStep
<1> QED BY <1>1, DeadlineInit, Inductive, PTL DEF Spec

\* Before schedule() selects a task, every live task whose deadline is near
\* has priority 0, whatever misses, exits, priority changes and new deadlines
\* have done to the list the walk goes over (task.c:725).
THEOREM NearDeadlineBoostedAlways ==
  ASSUME RearmAfterMiss = FALSE PROVE Spec => []NearDeadlineBoosted
<1>1. DeadlineInv => NearDeadlineBoosted
  BY DEF DeadlineInv
<1> QED BY <1>1, DeadlineInvariant, PTL

\* Between calls the deadline list holds every live task that has a deadline
\* and no dead task, in order of deadlines (task.c:1084-1085).
THEOREM DeadlineListSoundAlways ==
  ASSUME RearmAfterMiss = FALSE PROVE Spec => []DeadlineListSound
<1>1. TypeOK /\ DeadlineInv => DeadlineListSound
  <2> SUFFICES ASSUME TypeOK, DeadlineInv, pc = "run"
               PROVE  /\ \A s \in Slots : state[s] # "DEAD" /\ deadline[s] # 0 => s \in Listed
                      /\ \A s \in Listed : /\ state[s] # "DEAD"
                                           /\ dnext[s] # NoTask => deadline[s] <= deadline[dnext[s]]
    BY DEF DeadlineListSound
  <2>1. PICK L \in Seq(Slots) : DeadlinesOK(L)
    BY DEF DeadlineInv
  <2>2. /\ Links(L, dhead, dnext) /\ SortedBy(L, deadline)
        /\ \A s \in Slots : Contains(L, s) => state[s] # "DEAD"
        /\ \A s \in Slots : state[s] # "DEAD" /\ deadline[s] # 0 => Contains(L, s)
    BY <2>1 DEF DeadlinesOK, ListOK, Editing
  <2>3. \A s \in Slots : s \in Listed <=> Contains(L, s)
    BY <2>2, ListedIs
  <2>4. Listed \subseteq Slots
    BY DEF Listed
  <2>5. ASSUME NEW s \in Listed, dnext[s] # NoTask PROVE deadline[s] <= deadline[dnext[s]]
    <3>1. PICK i \in 1..Len(L) : L[i] = s
      BY <2>3, <2>4 DEF Contains
    <3>2. i + 1 \in 1..Len(L) /\ dnext[s] = L[i + 1] /\ i < i + 1
      BY <2>2, <2>5, <3>1, LinkFacts
    <3> QED BY <2>2, <3>1, <3>2 DEF SortedBy
  <2> QED BY <2>2, <2>3, <2>4, <2>5
<1> QED BY <1>1, TypeCorrect, DeadlineInvariant, PTL
-----------------------------------------------------------------------------
(* Progress.  That schedule() returns and that equals share the CPU are     *)
(* liveness properties, which rest on fairness; what the steps themselves   *)
(* contribute is proved here.                                               *)

\* Tasks reached from c through next_deadline.
From(c) ==
  {t \in Slots : \A S \in SUBSET Slots :
     /\ c # NoTask => c \in S
     /\ \A s \in S : dnext[s] # NoTask => dnext[s] \in S
     => t \in S}

\* The places of a call that has not returned to its task, and how many steps
\* it still takes at most from there, with n entries ahead of its cursor.
Inside == {"rmwalk", "dset", "inswalk", "sched", "walk", "requeue", "select"}
StepsFrom(place, n) ==
  CASE place = "select"  -> 1
    [] place = "requeue" -> 2
    [] place = "walk"    -> n + 3
    [] place = "sched"   -> MAX_TASKS + 4
    [] place = "inswalk" -> n + 1
    [] place = "dset"    -> MAX_TASKS + 2
    [] place = "rmwalk"  -> n + MAX_TASKS + 5
    [] OTHER             -> 0
StepsLeft == StepsFrom(pc, Cardinality(From(cursor)))

\* Every call that walks the deadline list, schedule() among them, returns
\* within 2 * MAX_TASKS + 5 steps of its own (task.c:403-519, 728-806),
\* however ticks fall between them: each step but a tick leaves fewer.
StepsBounded == StepsLeft \in 0..(2 * MAX_TASKS + 5) /\ (pc \in Inside <=> StepsLeft # 0)
Advances == StepsLeft' < StepsLeft \/ (Tick /\ StepsLeft' = StepsLeft)
CallsEnd == [][StepsLeft # 0 => Advances]_vars

\* s is before t in q.
Precedes(q, s, t) == \E i, j \in 1..Len(q) : i < j /\ q[i] = s /\ q[j] = t

\* No READY task is overtaken in the queue, except by one whose priority is
\* raised, or when task_set_priority queues it again (task.c:325-398, 724).
NoOvertaking ==
  [][\A s, t \in Slots :
       /\ Precedes(readyQueue, s, t)
       /\ state'[s] = "READY" /\ state'[t] = "READY"
       /\ prio'[t] >= prio[t]
       /\ ~\E p \in NewPriorities : task_set_priority(s, p)
       => Precedes(readyQueue', s, t)]_vars

\* The steps left from each place, and none left outside a call.
LEMMA StepsValue ==
  ASSUME NEW n
  PROVE  /\ StepsFrom("select", n) = 1 /\ StepsFrom("requeue", n) = 2
         /\ StepsFrom("walk", n) = n + 3 /\ StepsFrom("sched", n) = MAX_TASKS + 4
         /\ StepsFrom("inswalk", n) = n + 1 /\ StepsFrom("dset", n) = MAX_TASKS + 2
         /\ StepsFrom("rmwalk", n) = n + MAX_TASKS + 5
         /\ \A p \in PCs \ Inside : StepsFrom(p, n) = 0
<1>1. \A p \in PCs \ Inside : StepsFrom(p, n) = 0
  BY DEF StepsFrom, PCs, Inside
<1> QED BY <1>1 DEF StepsFrom

\* No more entries can be ahead than there are tasks.
LEMMA SlotsBound ==
  ASSUME NEW T \in SUBSET Slots
  PROVE  IsFiniteSet(T) /\ Cardinality(T) \in 0..MAX_TASKS /\ MAX_TASKS \in Nat
<1>1. MAX_TASKS \in Nat /\ IsFiniteSet(Slots) /\ Cardinality(Slots) = MAX_TASKS
  <2>1. MAX_TASKS \in Nat /\ 1 \in Int /\ MAX_TASKS \in Int /\ 1 <= MAX_TASKS
    BY ConstantsAssumption
  <2>2. IsFiniteSet(1..MAX_TASKS) /\ Cardinality(1..MAX_TASKS) = MAX_TASKS - 1 + 1
    BY <2>1, FS_Interval
  <2> QED BY <2>1, <2>2 DEF Slots
<1>2. IsFiniteSet(T) /\ Cardinality(T) <= Cardinality(Slots)
  BY <1>1, FS_Subset
<1>3. Cardinality(T) \in Nat
  BY <1>2, FS_CardinalityType
<1> QED BY <1>1, <1>2, <1>3

\* The entries ahead of a place are among the tasks.
LEMMA FromBound ==
  ASSUME NEW c
  PROVE  IsFiniteSet(From(c)) /\ Cardinality(From(c)) \in 0..MAX_TASKS /\ MAX_TASKS \in Nat
<1>1. From(c) \in SUBSET Slots
  BY DEF From
<1> QED BY <1>1, SlotsBound

\* A cursor that moves on has one entry less ahead: the list has no circle.
LEMMA FromShrinks ==
  ASSUME TypeOK, NEW L, Links(L, dhead, dnext), NEW k \in 1..Len(L), NEW c, c = L[k]
  PROVE  Cardinality(From(dnext[c])) < Cardinality(From(c))
<1> DEFINE d == dnext[c]
<1>0. /\ L \in Seq(Slots) /\ Len(L) \in Nat /\ c \in Slots /\ c # NoTask
      /\ \A i \in 1..Len(L) : /\ L[i] \in Slots /\ L[i] # NoTask
                              /\ dnext[L[i]] = NoTask <=> i = Len(L)
                              /\ i # Len(L) => i + 1 \in 1..Len(L) /\ dnext[L[i]] = L[i + 1]
  BY LinkFacts
<1>1. From(d) \subseteq From(c)
  BY <1>0 DEF From
<1>2. c \in From(c)
  BY <1>0 DEF From
<1>3. c \notin From(d)
  <2> DEFINE T == {x \in Slots : \E j \in 1..Len(L) : k < j /\ L[j] = x}
  <2>1. T \in SUBSET Slots
    OBVIOUS
  <2>2. d # NoTask => d \in T
    <3>1. d # NoTask => k + 1 \in 1..Len(L) /\ k < k + 1 /\ d = L[k + 1] /\ L[k + 1] \in Slots
      BY <1>0
    <3> QED BY <3>1
  <2>3. ASSUME NEW x \in T, dnext[x] # NoTask PROVE dnext[x] \in T
    <3>1. PICK j \in 1..Len(L) : k < j /\ L[j] = x
      OBVIOUS
    <3>2. j + 1 \in 1..Len(L) /\ dnext[x] = L[j + 1] /\ L[j + 1] \in Slots
      BY <1>0, <2>3, <3>1
    <3>3. k < j + 1
      BY <1>0, <3>1
    <3> QED BY <3>2, <3>3
  <2>4. c \notin T
    <3>1. \A i, j \in 1..Len(L) : L[i] = L[j] => i = j
      BY <1>0 DEF Links, IsInjective
    <3> QED BY <1>0, <3>1
  <2> HIDE DEF T
  <2> QED BY <2>1, <2>2, <2>3, <2>4 DEF From
<1> HIDE DEF d
<1>4. IsFiniteSet(From(c)) /\ From(d) \in SUBSET From(c) /\ From(d) # From(c)
  BY <1>1, <1>2, <1>3, FromBound
<1>5. Cardinality(From(d)) <= Cardinality(From(c)) /\ Cardinality(From(d)) # Cardinality(From(c))
  BY <1>4, FS_Subset
<1>6. Cardinality(From(d)) \in Nat /\ Cardinality(From(c)) \in Nat
  BY FromBound
<1> QED BY <1>5, <1>6 DEF d

\* A step of a call, seen in the model's variables.
LEMMA CallStep ==
  ASSUME IInv, IInv', DeadlineInv, [Next]_vars, pc \in Inside
  PROVE  Advances \/ UNCHANGED vars
<1> DEFINE n == Cardinality(From(cursor))
           m == Cardinality(From(cursor))'
<1> USE DEF Advances
<1>1. /\ TypeOK /\ TypeOK' /\ LoopOK
      /\ n \in 0..MAX_TASKS /\ m \in 0..MAX_TASKS /\ MAX_TASKS \in Nat
      /\ StepsLeft = StepsFrom(pc, n) /\ StepsLeft' = StepsFrom(pc', m)
  <2>1. n \in 0..MAX_TASKS /\ MAX_TASKS \in Nat
    BY FromBound
  <2>2. m \in 0..MAX_TASKS
    <3>1. From(cursor)' \in SUBSET Slots
      BY DEF From
    <3> QED BY <3>1, SlotsBound
  <2> QED BY <2>1, <2>2 DEF IInv, StepsLeft
<1>2. ASSUME dnext' = dnext PROVE m = Cardinality(From(cursor'))
  BY <1>2 DEF From
<1>3. PICK L \in Seq(Slots) : DeadlinesOK(L)
  BY DEF DeadlineInv
<1>4. ASSUME pc \in {"rmwalk", "inswalk", "walk"}, cursor # NoTask, dnext' = dnext, cursor' = dnext[cursor]
      PROVE  m < n
  <2>1. PICK k \in 1..Len(L) : cursor = L[k]
    <3>1. Len(L) \in Nat
      OBVIOUS
    <3>2. pc = "walk" => \E k \in 1..(Len(L) + 1) : cursor = At(L, k)
      BY <1>3 DEF DeadlinesOK, WalkPlace
    <3>3. pc # "walk" => \E k \in 1..Len(L) : cursor = L[k]
      BY <1>3, <1>4 DEF DeadlinesOK, RemovePlace, InsertPlace
    <3> QED BY <1>4, <3>1, <3>2, <3>3 DEF At
  <2>2. Links(L, dhead, dnext)
    BY <1>3 DEF DeadlinesOK, ListOK
  <2>3. Cardinality(From(dnext[cursor])) < Cardinality(From(cursor))
    BY <1>1, <2>1, <2>2, FromShrinks
  <2> QED BY <1>2, <1>4, <2>3
<1> HIDE DEF n, m
<1>5. CASE RemoveWalk
  <2>1. pc = "rmwalk" /\ cursor # NoTask
    BY <1>1, <1>5 DEF RemoveWalk, LoopOK
  <2>2. CASE dnext[cursor] \in {NoTask, arg}
    <3>1. pc' \in {"sched", "dset"}
      BY <1>5, <2>2 DEF RemoveWalk, AfterRemove
    <3> QED BY <1>1, <2>1, <3>1, StepsValue
  <2>3. CASE dnext[cursor] \notin {NoTask, arg}
    <3>1. pc' = pc /\ dnext' = dnext /\ cursor' = dnext[cursor]
      BY <1>5, <2>3 DEF RemoveWalk
    <3>2. m < n
      BY <1>4, <2>1, <3>1
    <3> QED BY <1>1, <2>1, <3>1, <3>2, StepsValue
  <2> QED BY <2>2, <2>3
<1>6. CASE SetDeadline
  <2>1. pc = "dset" /\ pc' \in {"inswalk", "run"}
    BY <1>6 DEF SetDeadline
  <2>2. "run" \in PCs \ Inside
    BY DEF PCs, Inside
  <2>3. StepsFrom("dset", n) = MAX_TASKS + 2 /\ StepsFrom("inswalk", m) = m + 1 /\ StepsFrom("run", m) = 0
    BY <2>2, StepsValue
  <2> QED BY <1>1, <2>1, <2>3
<1>7. CASE InsertWalk
  <2>1. pc = "inswalk" /\ cursor # NoTask
    BY <1>1, <1>7 DEF InsertWalk, LoopOK
  <2>2. CASE dnext[cursor] # NoTask /\ deadline[dnext[cursor]] <= val
    <3>1. pc' = pc /\ dnext' = dnext /\ cursor' = dnext[cursor]
      BY <1>7, <2>2 DEF InsertWalk
    <3>2. m < n
      BY <1>4, <2>1, <3>1
    <3> QED BY <1>1, <2>1, <3>1, <3>2, StepsValue
  <2>3. CASE ~(dnext[cursor] # NoTask /\ deadline[dnext[cursor]] <= val)
    <3>1. pc' = "run"
      BY <1>7, <2>3 DEF InsertWalk
    <3>2. "run" \in PCs \ Inside
      BY DEF PCs, Inside
    <3> QED BY <1>1, <2>1, <3>1, <3>2, StepsValue
  <2> QED BY <2>2, <2>3
<1>8. CASE CheckStart
  <2>1. pc = "sched" /\ pc' = "walk"
    BY <1>8 DEF CheckStart
  <2> QED BY <1>1, <2>1, StepsValue
<1>9. CASE CheckWalk
  <2>1. pc = "walk" /\ pc' = "walk" /\ cursor # NoTask /\ dnext' = dnext /\ cursor' = dnext[cursor]
    BY <1>9 DEF CheckWalk
  <2>2. m < n
    BY <1>4, <2>1
  <2> QED BY <1>1, <2>1, <2>2, StepsValue
<1>10. CASE CheckDone
  <2>1. pc = "walk" /\ pc' = "requeue"
    BY <1>10 DEF CheckDone
  <2> QED BY <1>1, <2>1, StepsValue
<1>11. CASE Requeue
  <2>1. pc = "requeue" /\ pc' = "select"
    BY <1>11 DEF Requeue
  <2> QED BY <1>1, <2>1, StepsValue
<1>12. CASE SelectNone \/ SelectTask
  <2>1. pc = "select" /\ pc' \in {"run", "halt"}
    BY <1>12 DEF SelectNone, SelectTask
  <2>2. "run" \in PCs \ Inside /\ "halt" \in PCs \ Inside
    BY DEF PCs, Inside
  <2>3. StepsFrom("select", n) = 1 /\ StepsFrom("run", m) = 0 /\ StepsFrom("halt", m) = 0
    BY <2>2, StepsValue
  <2> QED BY <1>1, <2>1, <2>3
<1>13. CASE Tick
  <2>1. UNCHANGED <<dnext, cursor, pc>>
    BY <1>13 DEF Tick, dlVars, loopVars
  <2>2. StepsLeft' = StepsLeft
    BY <2>1 DEF StepsLeft, From
  <2> QED BY <1>13, <2>2
<1>14. ~TaskCall /\ ~BootShell /\ ~BootMonitor /\ ~scheduler_register_timer
  BY DEF Inside, TaskCall, Create, task_yield, task_block, task_exit, task_wake,
         task_set_priority, task_set_deadline, scheduler_disable_preemption,
         scheduler_enable_preemption, BootShell, BootMonitor, BootStep, scheduler_register_timer
<1> QED BY <1>5, <1>6, <1>7, <1>8, <1>9, <1>10, <1>11, <1>12, <1>13, <1>14 DEF Next, KernelStep

\* schedule(), task_set_deadline and task_exit return after a bounded number
\* of their own steps, as long as callers do not arm a task whose missed entry
\* is still in the list: the safety half of ScheduleReturns (task.c:728).
THEOREM CallsEndAlways ==
  ASSUME RearmAfterMiss = FALSE PROVE Spec => []StepsBounded /\ CallsEnd
<1>1. TypeOK => StepsBounded
  <2> SUFFICES ASSUME TypeOK PROVE StepsBounded
    OBVIOUS
  <2> DEFINE n == Cardinality(From(cursor))
  <2>1. n \in 0..MAX_TASKS /\ MAX_TASKS \in Nat
    BY FromBound
  <2>2. StepsLeft = StepsFrom(pc, n) /\ pc \in PCs
    BY DEF StepsLeft, TypeOK
  <2> HIDE DEF n
  <2>3. CASE pc \in Inside
    <3>1. StepsFrom(pc, n) \in 1..(2 * MAX_TASKS + 5)
      BY <2>1, <2>3, StepsValue DEF Inside
    <3> QED BY <2>1, <2>2, <2>3, <3>1 DEF StepsBounded
  <2>4. CASE pc \notin Inside
    <3>1. StepsFrom(pc, n) = 0
      BY <2>2, <2>4, StepsValue
    <3> QED BY <2>1, <2>2, <2>4, <3>1 DEF StepsBounded
  <2> QED BY <2>3, <2>4
<1>2. IInv /\ IInv' /\ DeadlineInv /\ [Next]_vars
      => [StepsLeft # 0 => Advances]_vars
  BY <1>1, CallStep DEF IInv, StepsBounded
<1> QED BY <1>1, <1>2, TypeCorrect, Inductive, DeadlineInvariant, PTL DEF Spec, CallsEnd

\* ready_queue_insert keeps the order of the others, and puts t behind those
\* of its priority or a higher one and before the rest.
LEMMA InsertPrecedes ==
  ASSUME NEW q \in Seq(Slots), NEW t \in Slots, NEW p \in Nat, prio \in [Slots -> Nat],
         SortedBy(q, prio), NEW r, r = ready_queue_insert(q, t, p)
  PROVE  /\ \A a, b : Precedes(q, a, b) => Precedes(r, a, b)
         /\ \A a : Contains(q, a) /\ prio[a] <= p => Precedes(r, a, t)
         /\ \A b : Contains(q, b) /\ prio[b] > p => Precedes(r, t, b)
<1> DEFINE k == InsertionPoint(q, p)
           n == Len(q)
<1>1. /\ k \in 1..(n + 1) /\ n \in Nat /\ r = InsertAt(q, k, t)
      /\ \A j \in 1..n : j < k => prio[q[j]] <= p
      /\ k <= n => prio[q[k]] > p
  <2>1. /\ k <= n => prio[q[k]] > p
        /\ \A j \in 1..n : j < k => prio[q[j]] <= p
    BY InsertionPointPlace
  <2>2. k \in 1..(n + 1)
    BY InsertionPointPlace
  <2>3. r = InsertAt(q, k, t) /\ n \in Nat
    BY DEF ready_queue_insert
  <2> HIDE DEF k
  <2> QED BY <2>1, <2>2, <2>3
<1> HIDE DEF k
<1>2. /\ Len(r) = n + 1
      /\ \A j \in 1..(n + 1) : r[j] = IF j < k THEN q[j] ELSE IF j = k THEN t ELSE q[j - 1]
  <2>1. Len(InsertAt(q, k, t)) = n + 1 /\ Inserted(Slots, n, q, k, t, InsertAt(q, k, t))
    BY <1>1, InsertAtSeq
  <2> QED BY <1>1, <2>1 DEF Inserted
<1>3. \A j \in 1..n : q[j] \in Slots /\ prio[q[j]] \in Nat
  OBVIOUS
<1>4. \A i, j \in 1..n : i < j => prio[q[i]] <= prio[q[j]]
  BY DEF SortedBy
<1>5. \A s : Contains(q, s) => \E j \in 1..n : q[j] = s
  BY DEF Contains
<1> HIDE DEF n
<1>6. /\ \A j \in 1..n : j < k => j \in 1..(n + 1) /\ r[j] = q[j]
      /\ \A j \in 1..n : k <= j => j + 1 \in 1..(n + 1) /\ r[j + 1] = q[j]
      /\ k \in 1..(n + 1) /\ r[k] = t
  <2>1. ASSUME NEW j \in 1..n, j < k PROVE j \in 1..(n + 1) /\ r[j] = q[j]
    <3>1. j \in 1..(n + 1)
      BY <1>1
    <3> QED BY <1>2, <2>1, <3>1
  <2>2. ASSUME NEW j \in 1..n, k <= j PROVE j + 1 \in 1..(n + 1) /\ r[j + 1] = q[j]
    <3>1. j + 1 \in 1..(n + 1) /\ ~(j + 1 < k) /\ j + 1 # k /\ (j + 1) - 1 = j
      BY <1>1, <2>2
    <3> QED BY <1>2, <3>1
  <2>3. k \in 1..(n + 1) /\ r[k] = t
    BY <1>1, <1>2
  <2> QED BY <2>1, <2>2, <2>3
<1>7. ASSUME NEW a, NEW b, Precedes(q, a, b) PROVE Precedes(r, a, b)
  <2>1. PICK i, j \in 1..n : i < j /\ q[i] = a /\ q[j] = b
    BY <1>7 DEF Precedes, n
  <2>2. CASE j < k
    BY <1>1, <1>2, <1>6, <2>1, <2>2 DEF Precedes
  <2>3. CASE i < k /\ k <= j
    <3>1. i < j + 1
      BY <2>1
    <3> QED BY <1>2, <1>6, <2>1, <2>3, <3>1 DEF Precedes
  <2>4. CASE k <= i
    <3>1. i + 1 < j + 1 /\ k <= j
      BY <1>1, <2>1, <2>4
    <3> QED BY <1>2, <1>6, <2>1, <2>4, <3>1 DEF Precedes
  <2> QED BY <1>1, <2>2, <2>3, <2>4
<1>8. ASSUME NEW a, Contains(q, a), prio[a] <= p PROVE Precedes(r, a, t)
  <2>1. PICK i \in 1..n : q[i] = a
    BY <1>5, <1>8
  <2>2. i < k
    <3>1. ASSUME k <= i PROVE FALSE
      <4>1. k \in 1..n /\ prio[q[k]] > p
        BY <1>1, <2>1, <3>1
      <4>2. prio[q[k]] <= prio[q[i]]
        BY <1>1, <1>3, <1>4, <3>1, <4>1
      <4> QED BY <1>3, <1>8, <2>1, <4>1, <4>2
    <3> QED BY <1>1, <3>1
  <2> QED BY <1>2, <1>6, <2>1, <2>2 DEF Precedes
<1>9. ASSUME NEW b, Contains(q, b), prio[b] > p PROVE Precedes(r, t, b)
  <2>1. PICK j \in 1..n : q[j] = b
    BY <1>5, <1>9
  <2>2. k <= j /\ k < j + 1
    <3>1. ~(j < k)
      BY <1>1, <1>3, <1>9, <2>1
    <3> QED BY <1>1, <3>1
  <2> QED BY <1>2, <1>6, <2>1, <2>2 DEF Precedes
<1> QED BY <1>7, <1>8, <1>9

\* ready_queue_remove keeps the order of the others.
LEMMA RemovePrecedes ==
  ASSUME NEW q \in Seq(Slots), NEW t \in Slots, NEW a, NEW b, a # t, b # t, Precedes(q, a, b),
         NEW r, r = ready_queue_remove(q, t)
  PROVE  Precedes(r, a, b)
<1>1. CASE Places(q, t) = {}
  BY <1>1 DEF ready_queue_remove
<1>2. CASE Places(q, t) # {}
  <2> DEFINE k == Min(Places(q, t))
             n == Len(q)
  <2>1. k \in Places(q, t)
    <3>1. Places(q, t) \in SUBSET Nat
      BY DEF Places
    <3> QED BY <1>2, <3>1, MinOfNaturals
  <2>2. k \in 1..n /\ q[k] = t /\ n \in Nat /\ r = RemoveAt(q, k)
    BY <1>2, <2>1 DEF Places, ready_queue_remove
  <2> HIDE DEF k
  <2>3. Len(r) = n - 1 /\ \A j \in 1..(n - 1) : r[j] = IF j < k THEN q[j] ELSE q[j + 1]
    BY <2>2, RemoveAtSeq
  <2>4. PICK i, j \in 1..n : i < j /\ q[i] = a /\ q[j] = b
    BY DEF Precedes
  <2> HIDE DEF n
  <2>5. /\ \A x \in 1..n : x < k => x \in 1..(n - 1) /\ r[x] = q[x]
        /\ \A x \in 1..n : k < x => x - 1 \in 1..(n - 1) /\ r[x - 1] = q[x]
    BY <2>2, <2>3
  <2>6. i # k /\ j # k
    BY <2>2, <2>4
  <2>7. CASE j < k
    <3>1. i < k
      BY <2>2, <2>4, <2>7
    <3> QED BY <2>3, <2>4, <2>5, <2>7, <3>1 DEF Precedes
  <2>8. CASE i < k /\ k < j
    <3>1. i < j - 1
      BY <2>2, <2>8
    <3> QED BY <2>3, <2>4, <2>5, <2>8, <3>1 DEF Precedes
  <2>9. CASE k < i
    <3>1. i - 1 < j - 1 /\ k < j
      BY <2>2, <2>4, <2>9
    <3> QED BY <2>3, <2>4, <2>5, <2>9, <3>1 DEF Precedes
  <2> QED BY <2>2, <2>6, <2>7, <2>8, <2>9
<1> QED BY <1>1, <1>2

\* A task whose priority changes overtakes nobody, unless it rises.
LEMMA ChangePriorityPrecedes ==
  ASSUME TypeOK, QueueOK, NEW u \in Slots, NEW p \in 0..MAX_PRIO, ChangePriority(u, p),
         NEW s \in Slots, NEW t \in Slots, Precedes(readyQueue, s, t),
         prio'[t] >= prio[t], s = u => p < prio[u]
  PROVE  Precedes(readyQueue', s, t)
<1>1. CASE state[u] # "READY"
  BY <1>1 DEF ChangePriority
<1>2. CASE state[u] = "READY"
  <2> DEFINE q == ready_queue_remove(readyQueue, u)
             r == readyQueue'
  <2>1. /\ readyQueue \in Seq(Slots) /\ prio \in [Slots -> Nat] /\ p \in Nat
        /\ IsInjective(readyQueue) /\ SortedBy(readyQueue, prio)
    BY ConstantsAssumption DEF TypeOK, QueueOK, QueueExact
  <2>2. /\ q \in Seq(Slots) /\ SortedBy(q, prio)
        /\ \A x \in Slots : Contains(q, x) <=> Contains(readyQueue, x) /\ x # u
    BY <2>1, RemoveFacts
  <2>3. r = ready_queue_insert(q, u, p)
    BY <1>2 DEF ChangePriority
  <2>4. s # t /\ prio[s] <= prio[t] /\ Contains(readyQueue, s) /\ Contains(readyQueue, t)
    <3>1. PICK i, j \in 1..Len(readyQueue) : i < j /\ readyQueue[i] = s /\ readyQueue[j] = t
      BY DEF Precedes
    <3>2. Len(readyQueue) \in Nat /\ i # j
      BY <2>1, <3>1
    <3>3. prio[s] <= prio[t]
      BY <2>1, <3>1 DEF SortedBy
    <3>4. s # t
      BY <2>1, <3>1, <3>2 DEF IsInjective
    <3> QED BY <3>1, <3>3, <3>4 DEF Contains
  <2>5. s # u /\ t # u => Precedes(q, s, t)
    BY <2>1, RemovePrecedes
  <2> HIDE DEF q, r
  <2>6. /\ \A a, b : Precedes(q, a, b) => Precedes(r, a, b)
        /\ \A a : Contains(q, a) /\ prio[a] <= p => Precedes(r, a, u)
        /\ \A b : Contains(q, b) /\ prio[b] > p => Precedes(r, u, b)
    BY <2>1, <2>2, <2>3, InsertPrecedes
  <2>7. CASE s = u
    <3>1. prio[t] > p
      BY <2>1, <2>4, <2>7
    <3>2. Contains(q, t)
      BY <2>2, <2>4, <2>7
    <3> QED BY <2>6, <2>7, <3>1, <3>2 DEF r
  <2>8. CASE t = u
    <3>1. prio'[t] = p
      BY <2>8 DEF ChangePriority, TypeOK
    <3>2. prio[s] <= p
      BY <2>1, <2>4, <3>1
    <3>3. Contains(q, s)
      BY <2>2, <2>4, <2>8
    <3> QED BY <2>6, <2>8, <3>2, <3>3 DEF r
  <2> QED BY <2>5, <2>6, <2>7, <2>8 DEF r
<1> QED BY <1>1, <1>2

\* A task that enters the queue leaves the order of the others.
LEMMA EnqueuePrecedes ==
  ASSUME TypeOK, QueueOK, NEW u \in Slots, NEW p \in 0..MAX_PRIO,
         readyQueue' = ready_queue_insert(readyQueue, u, p),
         NEW s \in Slots, NEW t \in Slots, Precedes(readyQueue, s, t)
  PROVE  Precedes(readyQueue', s, t)
<1>1. /\ readyQueue \in Seq(Slots) /\ prio \in [Slots -> Nat] /\ p \in Nat
      /\ SortedBy(readyQueue, prio)
  BY ConstantsAssumption DEF TypeOK, QueueOK, QueueExact
<1> QED BY <1>1, InsertPrecedes

\* So does task_create, which queues a slot that was in no queue.
LEMMA CreatePrecedes ==
  ASSUME TypeOK, QueueOK, NEW p \in Nat, task_create(p),
         NEW s \in Slots, NEW t \in Slots, Precedes(readyQueue, s, t)
  PROVE  Precedes(readyQueue', s, t)
<1>1. CASE CreateOk(p)
  <2>1. FreeSlot \in Slots /\ Clamp(p) \in 0..MAX_PRIO
    BY <1>1, FreeSlotDead, ClampRange DEF CreateOk
  <2>2. readyQueue' = ready_queue_insert(readyQueue, FreeSlot, Clamp(p))
    BY <1>1 DEF CreateOk
  <2> QED BY <2>1, <2>2, EnqueuePrecedes
<1>2. CASE ~CreateOk(p)
  BY <1>2 DEF task_create, CreateNoSlot, CreateNoStack, taskVars
<1> QED BY <1>1, <1>2

\* A task that is READY keeps its place before every other READY task of the
\* queue through creations, wakings, boosts, priority changes and dispatches,
\* unless the other's priority rises or it is queued again itself: no task of
\* its own priority is dispatched out of turn (task.c:325-398, 724).
THEOREM NoOvertakingAlways == Spec => NoOvertaking
<1> DEFINE Kept(s, t) ==
      /\ Precedes(readyQueue, s, t)
      /\ state'[s] = "READY" /\ state'[t] = "READY"
      /\ prio'[t] >= prio[t]
      /\ ~\E p \in NewPriorities : task_set_priority(s, p)
      => Precedes(readyQueue', s, t)
<1>1. ASSUME IInv, [Next]_vars, NEW s \in Slots, NEW t \in Slots,
             Precedes(readyQueue, s, t), state'[s] = "READY", state'[t] = "READY",
             prio'[t] >= prio[t], ~\E p \in NewPriorities : task_set_priority(s, p)
      PROVE  Precedes(readyQueue', s, t)
  <2>0. TypeOK /\ QueueOK /\ RunOK
    BY <1>1 DEF IInv
  <2>1. CASE KernelStep
    <3>1. CASE BootShell
      <4>1. MAX_PRIO \in Nat /\ task_create(MAX_PRIO)
        BY <3>1, ConstantsAssumption DEF BootShell, BootStep
      <4> QED BY <1>1, <2>0, <4>1, CreatePrecedes
    <3>2. CASE BootMonitor
      <4>1. PICK p \in Priorities : task_create(p)
        BY <3>2 DEF BootMonitor, BootStep
      <4> QED BY <1>1, <2>0, <4>1, ConstantsAssumption, CreatePrecedes
    <3>3. CASE RemoveWalk \/ SetDeadline \/ InsertWalk \/ CheckStart \/ CheckDone \/ SelectNone
      <4>1. readyQueue' = readyQueue
        BY <3>3, Zenon DEF RemoveWalk, SetDeadline, InsertWalk, CheckStart, CheckDone,
                          SelectNone, taskVars
      <4> QED BY <1>1, <4>1
    <3>4. CASE CheckWalk
      <4>1. CASE Approaching(cursor) /\ prio[cursor] > 0
        <5>1. ChangePriority(cursor, 0) /\ cursor \in Slots /\ 0 \in 0..MAX_PRIO /\ 0 < prio[cursor]
          BY <2>0, <3>4, <4>1, ConstantsAssumption DEF CheckWalk, TypeOK
        <5> QED BY <1>1, <2>0, <5>1, ChangePriorityPrecedes
      <4>2. CASE ~(Approaching(cursor) /\ prio[cursor] > 0)
        <5>1. readyQueue' = readyQueue
          BY <3>4, <4>2 DEF CheckWalk
        <5> QED BY <1>1, <5>1
      <4> QED BY <4>1, <4>2
    <3>5. CASE Requeue
      <4>1. CASE current # NoTask /\ state[current] = "RUNNING"
        <5>1. /\ current \in Slots /\ prio[current] \in 0..MAX_PRIO
              /\ readyQueue' = ready_queue_insert(readyQueue, current, prio[current])
          BY <2>0, <3>5, <4>1 DEF TypeOK, Requeue
        <5> QED BY <1>1, <2>0, <5>1, EnqueuePrecedes
      <4>2. CASE ~(current # NoTask /\ state[current] = "RUNNING")
        <5>1. readyQueue' = readyQueue
          BY <3>5, <4>2 DEF Requeue
        <5> QED BY <1>1, <5>1
      <4> QED BY <4>1, <4>2
    <3>6. CASE SelectTask
      <4> DEFINE q == readyQueue
      <4>1. /\ q \in Seq(Slots) /\ q # <<>> /\ Head(q) \in Slots
            /\ state' = [state EXCEPT ![Head(q)] = "RUNNING"] /\ readyQueue' = Tail(q)
        BY <2>0, <3>6 DEF TypeOK, SelectTask
      <4>2. s # Head(q)
        BY <1>1, <2>0, <4>1 DEF TypeOK
      <4>3. PICK i, j \in 1..Len(q) : i < j /\ q[i] = s /\ q[j] = t
        BY <1>1 DEF Precedes
      <4> HIDE DEF q
      <4>4. /\ Len(Tail(q)) = Len(q) - 1 /\ Len(q) \in Nat /\ Head(q) = q[1]
            /\ \A x \in 1..(Len(q) - 1) : Tail(q)[x] = q[x + 1]
        BY <4>1
      <4>5. i # 1
        BY <4>2, <4>3, <4>4
      <4>6. i - 1 \in 1..(Len(q) - 1) /\ j - 1 \in 1..(Len(q) - 1) /\ i - 1 < j - 1
            /\ (i - 1) + 1 = i /\ (j - 1) + 1 = j
        BY <4>3, <4>4, <4>5
      <4>7. Tail(q)[i - 1] = s /\ Tail(q)[j - 1] = t
        BY <4>3, <4>4, <4>6
      <4>8. Precedes(Tail(q), s, t)
        BY <4>4, <4>6, <4>7 DEF Precedes
      <4> QED BY <4>1, <4>8
    <3> QED BY <2>1, <3>1, <3>2, <3>3, <3>4, <3>5, <3>6 DEF KernelStep
  <2>2. CASE TaskCall
    <3>1. CASE Create
      <4>1. PICK p \in Priorities : task_create(p)
        BY <3>1 DEF Create
      <4> QED BY <1>1, <2>0, <4>1, ConstantsAssumption, CreatePrecedes
    <3>2. CASE task_yield \/ task_block \/ scheduler_disable_preemption \/ scheduler_enable_preemption
      <4>1. readyQueue' = readyQueue
        BY <3>2, Zenon DEF task_yield, task_block, scheduler_disable_preemption,
                          scheduler_enable_preemption, taskVars
      <4> QED BY <1>1, <4>1
    <3>3. CASE task_exit
      <4>1. CASE current = NoTask
        BY <1>1, <3>3, <4>1 DEF task_exit, taskVars
      <4>2. CASE current # NoTask
        <5>1. /\ current \in Slots /\ readyQueue \in Seq(Slots)
              /\ readyQueue' = ready_queue_remove(readyQueue, current)
              /\ state' = [state EXCEPT ![current] = "DEAD"]
          BY <2>0, <3>3, <4>2 DEF task_exit, TypeOK
        <5>2. s # current /\ t # current
          BY <1>1, <2>0, <5>1 DEF TypeOK
        <5> QED BY <1>1, <5>1, <5>2, RemovePrecedes
      <4> QED BY <4>1, <4>2
    <3>4. ASSUME NEW u \in Slots, task_wake(u) PROVE Precedes(readyQueue', s, t)
      <4>1. prio[u] \in 0..MAX_PRIO /\ readyQueue' = ready_queue_insert(readyQueue, u, prio[u])
        BY <2>0, <3>4 DEF task_wake, TypeOK
      <4> QED BY <1>1, <2>0, <4>1, EnqueuePrecedes
    <3>5. ASSUME NEW u \in Slots, NEW p \in NewPriorities, task_set_priority(u, p)
          PROVE  Precedes(readyQueue', s, t)
      <4>1. Clamp(p) \in 0..MAX_PRIO
        BY ClampRange, ConstantsAssumption
      <4>2. ChangePriority(u, Clamp(p)) /\ s # u
        BY <1>1, <3>5 DEF task_set_priority
      <4> QED BY <1>1, <2>0, <4>1, <4>2, ChangePriorityPrecedes
    <3>6. ASSUME NEW u \in Slots, NEW d \in Deadlines, task_set_deadline(u, d)
          PROVE  Precedes(readyQueue', s, t)
      BY <1>1, <3>6 DEF task_set_deadline, taskVars
    <3> QED BY <2>2, <3>1, <3>2, <3>3, <3>4, <3>5, <3>6 DEF TaskCall
  <2>3. CASE Tick \/ scheduler_register_timer \/ UNCHANGED vars
    <3>1. readyQueue' = readyQueue
      BY <2>3 DEF Tick, scheduler_register_timer, vars, taskVars
    <3> QED BY <1>1, <3>1
  <2> QED BY <1>1, <2>1, <2>2, <2>3 DEF Next
<1>2. IInv /\ [Next]_vars => [\A s, t \in Slots : Kept(s, t)]_vars
  BY <1>1
<1> QED BY <1>2, Inductive, PTL DEF Spec, NoOvertaking
=============================================================================

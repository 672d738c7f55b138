# EMBODIOS: a verification development

EMBODIOS (`src/kernel`) is a bare-metal kernel that boots one CPU, runs an
interactive shell as a task and serves local model inference.  This directory
holds TLA+ models of its stateful core, the TLC runs that check them on small
instances, and TLAPS proofs of their main invariants for every instance.
Paths below are relative to `src/kernel`; the correspondence of every
definition to its source lines is in `PROJECT.json` ("map").

## 1. Inventory

How the parts interact: `core/kernel.c` initialises memory, timer, scheduler,
PCI and drivers, creates the tasks `shell` (priority 31) and `ctxmonitor`
(priority 5), and hands the CPU to the scheduler for good.  Tasks run
cooperatively; the only asynchronous event is the 100 Hz timer interrupt,
which marks state and never switches.  Secondary CPUs are counted and never
run a task.  The shell calls the model registry and loader, the block layer
and the inference engine; the engine calls the worker pool, whose workers are
tasks of the same scheduler.  Drivers share memory with their devices and
poll; there are no device interrupts.

| Part | State | Operations | What is hard | What makes it correct | Model |
|---|---|---|---|---|---|
| Task scheduler, `core/task.c` | 16 task blocks, ready queue, deadline list, current task, preemption count | create, yield, block, wake, exit, set priority, set deadline, tick, disable and enable preemption, schedule | linked lists whose keys change under them; slot reuse; the tick between any two steps; an empty queue | READY = queued once; queue sorted; the highest task is dispatched; the CPU runs the task the scheduler believes in; deadlines seen; equals share | `Scheduler`, proofs |
| Virtqueue and VirtIO block, `drivers/block/virtio_blk.c` | descriptor table with free list, rings, request header and status byte, polled index | read, write, flush, and the device | wrap-around, full table, timeouts while the device owns memory | a request takes effect at most once and success means it did; no descriptor lost | `Virtqueue`, `VirtioBlk`, `BlockDevice`, proofs |
| NVMe, `drivers/nvme/nvme.c` | submission and completion ring with phase, bounce buffer | read, write, flush in batches, and the controller | phase and wrap, failure in mid-request, late completions | the count returned was moved; only the intended blocks change | `Nvme`, proofs |
| Worker pool, `ai/parallel_inference.c` | published work descriptor, chunk counter, done counters, worker table | init, set threads, shutdown, deterministic mode, `parallel_for`, workers | lock-free hand-over, a descriptor on the caller's stack, start and stop races | every item once; no worker outlives the frame; the call returns | `ParallelPool`, proofs |
| Model registry, `ai/model_registry.c` | 8 slots, active id, statistics, heap blocks | init, load, switch, unload, shutdown, record | failures in the middle of a load, hand-over of the active role | one active model; statistics and heap agree with the slots | `ModelRegistry`, proofs |
| KV cache, `ai/kv_cache_enhanced.c` | per layer: rows, length, start | store, batch, reset, eviction | off-by-one at capacity, stale rows after a reset | writes inside the arrays; exactly the newest tokens visible | `KvCache`, proofs |
| TCP/IP, `net/tcpip.c` | 16 sockets, ARP cache, counters | poll, timeouts, socket calls | many clients at one port, lost segments, half-closed states, handles that outlive their socket | streams in order, and unmixed while nobody gives a connection up; a close ends in the right state; sockets accounted for and freed | `Tcpip`, proofs |
| Locks, `include/embodios/spinlock.h`, `mutex.h` | tickets, counters, interrupt flag | lock, trylock, wait, complete | interleavings, interrupts, wrap-around | exclusion, no handler waiting for the code it interrupted, no lost wake-up | `Locks`, proofs |
| VirtIO net, `drivers/net/virtio_net.c` | two virtqueues, receive buffers, one transmit buffer | send, receive, and the device | buffers that change descriptors, timeouts while the device owns memory | frames whole, in order and once; no descriptor lost | `Virtqueue`, `VirtioNet`, proofs |
| Heap, `mm/heap.c`, `mm/slab.c` | list of block headers, used size | alloc, aligned alloc, free, realloc | split and coalesce in any order of calls | blocks tile the arena; each allocation has a block of its own | `Heap`, proofs |
| EtherCAT slave, `net/ethercat.c` | AL state and status, sync managers, outputs, registers | configure, request, transition, exchange, datagrams | refusals half-way, error acknowledgement, a master that writes over the status | every change is told truthfully; a refusal has no effect | `Ethercat`, proofs |
| CAN, Modbus, DMA, pages and page tables, e1000e, GDB stub, profiler | | | | | not modelled, section 7 |
| GGUF parsing, tokenizer, numerical kernels, GPU stubs, console, PCI, architecture code, llama.cpp, archives | | | | | not modelled, section 7 |

## 2. Modules

* `Scheduler.tla`: every call of task.c that changes state.  `schedule()` is
  split at `pc` "sched" (enter `check_deadlines` and read the clock), "walk"
  (one list entry per step), "requeue", "select"; `task_set_deadline` and
  `task_exit` walk the list the same way.  Between any two of these steps
  `Tick` may fall.  `current` is `sched_state.current_task`, the scheduler's
  belief; `cpu` is the context that really executes; `frame[s]` says what the
  slot's saved stack pointer designates ("fresh" initial frame, "saved" by
  `ctx_switch`, "live" while it runs).  The ready queue is a sequence; the
  deadline list keeps its pointers (`dhead`, `dnext`), since the code's
  mistakes there are pointer mistakes.
* `QueueTheorems.tla`, `SchedulerProofs.tla`: section 6.
* `Virtqueue.tla`: the descriptor table, free list and rings as operators of
  one queue, shared by drivers.  `VirtioBlk.tla` extends it with the driver's
  request path and the device.  `BlockDevice.tla` is the abstract promise: a
  request takes effect at most once, between call and return, and success says
  it did.  `VirtioBlk!IsBlockDevice` is the refinement
  (`INSTANCE BlockDevice WITH ...`).
* `VirtioNet.tla`: the network driver on two instances of `Virtqueue`
  (`RX == INSTANCE Virtqueue WITH ...`), its buffers, and a device that fills
  and takes them; a frame is a number, a buffer remembers which it holds.
* `Nvme.tla`: the I/O queue pair, batches, and the controller.
* `ParallelPool.tla`: the caller (task 0), the workers, and the pool's shared
  atomics; one step per atomic access.
* `ModelRegistry.tla`: the registry; a call is one step
  since no call yields, except the shutdown loop.
* `KvCache.tla`: the cache, a stored vector being the
  generation and position it belongs to.
* `Locks.tla`: one lock of each kind, one step per atomic
  access; threads (one a CPU) and the interrupt handlers that suspend them.
* `Heap.tla`: the headers as a function from addresses to
  records, and the program's allocations; a call is one step, since the heap
  takes no lock and no call yields.
* `Tcpip.tla`: hosts that all run the stack over a wire that may lose or forge
  a segment.  Handling one segment, with the answers it sends and the ARP
  lookups those make, is one step.  A unit of data is named by who sent it
  (node, port and number), so a unit in the wrong buffer or the wrong place is
  seen; buffers count units, and a read takes any number of them.  Two ghost
  variables record what the environment has done: `fault` (a segment was lost,
  or a reset sent) and `abandoned` (a connection was given up behind the other
  end's back: by a reset, or closed before it was accepted).
* `Ethercat.tla`: the slave's state machine, sync managers and outputs, and the
  master's datagrams, which write any register: the model keeps AL_STATUS, its
  code and the area of the outputs, and takes the sync managers' areas not to
  overlap the status.  What entering a state does is a sequence of `Step`s in the
  code's order (`state_enter_safeop`); a check that fails ends it (`Done`), and
  what was done before it stays.
* `VirtioProofs.tla` (block, network and their composition),
  `ServicesProofs.tla` (NVMe, pool and the composition of `MCServices`),
  `ModelProofs.tla` (registry and cache), `KernelProofs.tla` (locks and heap),
  `NetworkProofs.tla` (TCP, EtherCAT and their composition) and
  `ConnectionProofs.tla` (both ends of TCP connections): section 6.
* `MC*.tla`: values of the set-valued constants for TLC.  `MCServices`,
  `MCVirtio`, `MCKernel` and `MCNetwork` put components that share no state
  into one instance: each is the disjunction of the components' next-state
  relations, and the constant variable `part` says whose steps a behaviour
  takes.  They compose nothing; they only keep the number of runs small.
  Where `part` is one component, the others stay in their initial state.

A definition whose comment starts with "Mutant" is used nowhere: it is a
plausible bug that the property it is listed with in `PROJECT.json` detects.

Devices and controllers are external code, modelled from how the drivers use
them: they take requests in order, read descriptors when they process them,
may fail a request, and may stop for good.

## 3. Runs

| Run | Instance | Shows |
|---|---|---|
| `scheduler_core` | 3 slots, 2 priorities (one asked for out of range), 3 stacks, 2 ticks, deadlines 1 and 2, window 1, preemption nested once, slot 1 resident, nobody re-arms after a miss | queue exact and sorted, the CPU executes what the scheduler believes, suspended tasks resumable, the highest task dispatched, near deadlines boosted, deadline list exact |
| `scheduler_fair` | 2 slots, none resident, deadlines, fairness | every `schedule()` ends; equals share the CPU |
| `scheduler_rearm` (violation) | deadlines 0, 1, 2, with re-arming | finding 1 |
| `virtio_timely` | block: 2 sectors, 2 values, queues of 2 and 4, indices mod 8. Net: receive queues of 2 and 4, transmit queue of 2, indices and frame numbers mod 4, 2 buffers, the device timely or late | the block driver implements `BlockDevice`; frames received and sent in order, whole and once; used entries match; no descriptor lost |
| `virtio_stale` (violation) | a block device that may answer after the driver gave up | finding 2 |
| `services_core` | registry: 3 slots, 4 loads. Cache: 2 layers of 4 rows, window 2, 7 positions, 3 generations. Pool: 4 threads, 3 items, both modes, failed creations, early starts. NVMe: rings of 2, identifiers mod 2, batches of 2 out of 3 blocks, capacity 3 | one active model, statistics and heap agree with the slots; writes inside the arrays, newest tokens; every item once, no stale descriptor; phase exact, the count returned was moved, only intended blocks change |
| `pool_single` (violation) | workers share the caller's CPU | finding 3 |
| `nvme_late` (violation) | rings of 4, a controller that may answer late | finding 4 |
| `kernel_core` | locks: 2 CPUs, a handler on one, 4 tickets. Heap: 56 words, header 4, smallest block 8, alignment 2, lengths 3 and 10, aligned to 8, up to 4 live | spinlock excludes and serves every ticket, a handler never waits for the code it interrupted, words count holders, a signal ends one wait; blocks tile the arena, each allocation owns one |
| `heap_realloc` (violation) | as above, 2 live | finding 5 |
| `network_core` | TCP: a client, a server, two more hosts, two sockets a node, created twice, two ephemeral ports that wrap, buffers and a wire of 2, 2 units sent, one fault. EtherCAT: both process areas and one mailbox configured, "OP" written over the status | sockets accounted for, ARP entries unique, streams in order and unmixed, closes right; every change of the status told, refusals harmless |
| `tcp_timewait` (violation) | a perfect network, fairness | finding 6 |

### Bounds and why they are enough

* Scheduler: three slots give a running task, one to overtake and one in
  between; two priorities give higher, equal and lower, and 9 is out of range
  and clamped.  `QUANTUM`, `BOOST_WINDOW`, `MAX_TICKS` and the deadlines are
  chosen so that at one tick a deadline is missed while another is near.  A
  third stack for a task that ends and is created again makes a creation fail.
  The proofs of section 6 lift every bound for the properties they cover.
* VirtIO: a queue of 2 makes allocation fail after two descriptors, one of 4
  fits a request of 3; `IDX_MOD` 8 (4 for the net queues) makes the
  free-running indices wrap in all of them (at 2^16 in the code).
  `MAX_OVERLAPS` bounds requests made while an earlier one is unanswered; it
  stands in every guard of `Request`.  A frame sent is distinguished from the
  three before it, more than the one transmit buffer can hold up.  A late
  network device is chosen in the initial state and spoils what is sent, never
  what is received: `SentInOrder` is claimed of timely devices only.
* NVMe: two entries make head, tail, phase and identifier wrap within one
  request; three blocks with a buffer of two need two batches and run past the
  capacity.  Permuting the block contents is a symmetry: no definition and no
  property compares them to a constant.
* Pool: three items in chunks of one or two leave a cut last chunk; two calls
  give the second one a pool with history; `MAX_CONFIGS` bounds the
  reconfigurations between them.
* Registry: two models besides the active one make hand-over ambiguous; the
  fourth load meets a reused slot.  Workspace size 0 stands for "unset".
* KV cache: seven positions fill a layer, evict, and fill again.
* Locks: three contexts on four tickets, so tickets wrap and are almost all
  drawn; a handler that shares its thread's lock is where interrupts matter.
  `MAX_SIGNALS` bounds calls of `complete` nobody has waited for.  `NotLapped`
  is a bound too: between its reads and its swap a trylock is not overtaken by a
  whole round of tickets (2^32 of them in the code); `since` counts them.  The
  proofs are for any number of contexts and tickets, under `NotLapped`.
* Heap: 56 words hold four small blocks, or two and an aligned one; every
  pattern of neighbours a free can meet (used or free before and after, at
  either end) occurs, so do failed allocations and remainders too small to
  split off.
* TCP: each behaviour takes one of two bounds (`MCNetwork`).  `Several`: two
  sockets a node without other hosts, faults or foreign ARP traffic, so two
  connections of the client, each with a port of its own, reach the server's one
  port at the same time or one after the other.  To the server they are two
  senders, for it tells them apart by nothing but what `handle_tcp` compares;
  reads of part of a buffer, appends behind unread data and two senders' units
  in buffers of the same port occur.  `Single`: one socket a node at a time, one
  unit of data, with losses, resets, stale handles, other hosts and an ARP cache
  of two that overflows; every second `socket_create` meets a slot in use or
  reused.  Faults together with two sockets were also run once, and pass (2.9
  million states).  `MAX_DATA`, `MAX_CREATED` and `MAX_WIRE` bound what programs
  send, the sockets made and the segments under way.  One fault is enough to
  leave either side in any half-open state.  What the proofs lift is all of these
  but one: `MAX_CREATED <= PORT_MOD - EPHEMERAL`, no node makes more connections
  than it has ephemeral ports, for `next_ephemeral_port` wraps without a look
  at the ports in use (16384 in the code).
* What `DataInOrder` and `ClosingSound` leave out, they leave out because it is
  false: `Exclusive` exempts the socket at a server's port, `LastAckPending` every
  socket, once a connection was `abandoned`.  Without the exemption this very
  instance violates `OfPeer` after 20 steps, `TimeWaitBothClosed` after 22 and
  `LastAckPending` after 25: the server closes a connection it has not accepted,
  listens again and accepts the client's second connection, and what the first
  one still sends is the second one's data, its FIN the second one's FIN.
* EtherCAT: one input, one output and one mailbox area let the second of two
  checks fail after the first; requests, exchanges, restarts and datagrams come
  in any order without a bound.  `Written` bounds the states a master writes over
  AL_STATUS, `Overwritten` the codes (to "ok"); the proofs are for any `Written`.

### Deadlock

`CHECK_DEADLOCK FALSE` stands where the modelled system may stop: the CPU
halts when no task is left (`scheduler_fair`); a dead device or controller
after which `MAX_OVERLAPS` forbids more requests (`virtio_timely`,
`virtio_stale`, `nvme_late`, `services_core`); programs that have made all
their bounded calls, or a pool that hangs (`pool_single`, `services_core`,
`network_core`, `tcp_timewait`).  In `scheduler_core`, `scheduler_rearm`,
`kernel_core` and `heap_realloc` every state has a successor.

### Fairness

* Scheduler: `WF_vars(KernelStep)`, since kernel code between two steps is
  sequential and interrupts return; `SF_vars(task_yield)`, since sharing in a
  cooperative kernel rests on tasks that yield again and again, as
  `kernel_loop` and every long loop of the shell do.  Ticks, creations,
  priority changes and exits are unfair.
* Locks: `WF` of a context that holds a ticket whose turn it is, of the
  unlock, and of the restored flag: a CPU executes its instructions, and code
  under a spinlock does not block.  Nothing is assumed of the other contexts.
* TCP: `WF` of each node's `tcpip_poll` and `tcpip_check_timeouts`, which the
  network loop calls again and again; programs' calls are unfair.
* Pool: `WF` of the caller's and of each worker's next step.  With
  `OWN_CPU = FALSE` a worker's steps are not enabled while the caller of higher
  priority spins, which is the cooperative scheduler's rule.

## 4. Findings with a run

1. `scheduler_rearm`: `check_deadlines` clears a missed deadline but leaves
   the entry linked (`core/task.c:496`); arming the task again skips the removal
   (`core/task.c:1098`) and inserts it twice: the list loses its tail or loops.
2. `virtio_stale`: after a timeout the late answer of the old request is taken
   for the new one (`drivers/block/virtio_blk.c:742`), so a read reports
   success with nothing read.
3. `pool_single`: `parallel_for` spins on workers that, on one cooperative
   CPU, are never dispatched (`ai/parallel_inference.c:453`).
4. `nvme_late`: the driver looks at the head of the completion ring only and
   takes it only if it is the awaited one (`drivers/nvme/nvme.c:129`); the
   entry of a command that timed out is never taken, so every later call times
   out although its command succeeded.
5. `heap_realloc`: `krealloc` finds the size to copy among slab caches that
   were never set up (`mm/slab.c:338`): it copies 32 bytes or nothing.
6. `tcp_timewait`: the TIME_WAIT timer is set only by a further segment
   (`net/tcpip.c:532`), so after an ordinary close the slot is lost, against
   `test/test_tcp_hardening.c:409`.

## 5. Further disagreements, not among the runs

Met while modelling; each is a plain reading of the code, and most can be seen
by changing a constant of a run.

* `core/task.c:279`: every creation allocates a stack, although the comment at
  958-959 says the stack of an ended task can be reused.
* `core/task.c:1174`: enabling preemption schedules only if a tick had marked a
  request, although 1140-1142 promise it for any task made ready meanwhile.
* `core/task.c:750`: with an empty queue `task_block` returns with the task
  still BLOCKED, although 916-917 say it stays asleep.
* `ai/parallel_inference.c:247`: `work_available` is a level, so a slow worker
  may miss the gap between two calls (`OWN_CPU = TRUE`, fairness); 302: a
  failed creation leaves exited workers counted; 719: a lowered thread count
  leaves surplus workers running; 214: those compute ranges past the end.
* `ai/model_runtime.c:29` does not initialise the registry as
  `model_registry.h:71` says; `model_registry.c:281` activates the first load
  against `model_registry.h:102`; 354 unloads the active model although another
  is loaded, against 126-127.
* `ai/model_loader.c:315`, `ai/model_registry.c:250`: the embedding cache a
  load makes is never freed, although `model_registry.h:80` says a shutdown
  unloads all models and frees what they hold.
* `ai/kv_cache_enhanced.c:338`: the ring policy makes no room, and the next
  store goes one row past the arrays (`Policies = {"ring"}`); 452: a batch that
  triggers an eviction keeps its old start (`BatchPolicies = {"sliding"}`);
  330: `current_seq_len` stays at its peak after an eviction.
* `net/tcpip.c`: data or a FIN that arrive between the handshake's last segment
  and `socket_accept` are dropped (412), and nothing retransmits; a SYN that
  fails to resolve its address is dropped though `socket_connect` returns OK;
  `socket_bind` does not look for another socket on the port; data that find
  the buffer full are dropped for good, and later data are appended after the
  gap.  A segment is given to the first socket of its destination port (368),
  whatever host and port it comes from: when a server gives up a connection
  it has not accepted, or a reset ends one, and it then accepts another, what
  the first client still sends is appended to the second one's data, and its FIN
  closes the second one's stream (section 3; no fault needed).
* `include/embodios/mutex.h:383`: `complete_all` stores UINT32_MAX in a signed
  word, and the waiter (400-401) tests for > 0 before it compares with
  UINT32_MAX, so it waits until the kernel panics; two calls of `complete`
  before a wait count as one.  `spinlock.h:428` promises writer preference;
  readers that overlap keep a writer out for good.
* `drivers/net/virtio_net.c:393`: the late answer of a send that timed out ends
  the next one, whose frame has replaced the first in `tx_buffer`.
* `net/ethercat.c`: a datagram that writes AL_CONTROL stores its bytes one by
  one (198) and requests nothing, although the comment at 165 says a write
  triggers a transition; a master may write over AL_STATUS and its code (147), and
  reads what it wrote until the next transition or reset; outputs are
  taken in SAFEOP, although 717 says they are cleared; INIT to OP is allowed
  and skips the setup of SAFEOP, although 756 says "All configuration already
  done in SAFEOP", so an exchange there returns 0 and moves nothing; an error
  cannot be acknowledged by requesting the current state; the read-write
  datagrams lose the master's data.
* `drivers/can/can.c:475`: `can_set_filter` compares with the entry it has just
  overwritten, so `filter_count` never grows there and a later
  `can_remove_filter` wraps it; `tx_tail` and `rx_head` never advance.
* `net/modbus.c`: the server never calls `socket_accept`; the client looks for
  the answer right after sending, without a poll, times out, and takes the late
  answer for that of its next request.
* `mm/pmm.c`, `mm/vmm.c`: freed pages are never used again; a mapping that
  fails half-way keeps the pages it took.

## 6. Proofs

No proof assumes anything but the named ASSUMEs of the modules, which TLC
evaluates in the runs, and the hypotheses stated in the theorems.  An
inductive invariant written for a proof was first checked by TLC on the
instance of the component's run.

### Scheduler (`SchedulerProofs`)

For any number of slots and priorities and any bounds:

* `IInv = TypeOK /\ LoopOK /\ QueueOK /\ RunOK` is inductive (`Inductive`).
  `QueueExact` and `QueueSorted` alone are not: a walk over the deadline list
  needs its cursor to be a slot or NULL (`LoopOK`), and `Requeue` may insert the
  current task only because a RUNNING task is not queued and no task but the
  current one is RUNNING (`RunOK`).  One lemma per conjunct (`TypeStep`,
  `LoopStep`, `QueueStep`, `RunStep`), one step per action.
* From it `TypeCorrect`, `QueueExactAlways`, `QueueSortedAlways` and the action
  property `DispatchHighestAlways`.
* With the assumption `1 \in Resident`, which the boot justifies (the first task
  is the shell, and it never blocks or exits), `ShellOK` is invariant on top of
  `IInv`: the queue never runs empty where it matters, so the code the CPU
  executes is the task that is current.  This gives `RunningExecutesAlways` and
  `SuspendedResumableAlways`; without the assumption both are false (section
  5, third item).
* With the hypothesis `RearmAfterMiss = FALSE`, `DeadlineInv` is invariant on top
  of `IInv`: there is a sequence of distinct tasks that the pointers link
  (`Links`), sorted by deadline, which holds exactly the live tasks that have one
  and some that have missed theirs; and each of the three loops over the list
  has its cursor where the loop needs it (`RemovePlace`, `InsertPlace`,
  `WalkPlace`).  `check_deadlines` sets the deadline of a missed entry to 0 in
  place; the order survives because the missed entries of a sorted list are its
  first ones and the walk clears them from the head.  `LinksRemove` and
  `LinksInsert` say once what unlinking and linking do to the sequence; what
  `next_deadline` reaches is the sequence (`ListedIs`), by a least
  counterexample.  Results: `DeadlineListSoundAlways`,
  `NearDeadlineBoostedAlways`.  Finding 1 shows that the hypothesis is needed.
* What the steps themselves contribute to the two liveness properties, stated
  in the proof module.  `CallsEndAlways` (same hypothesis): `StepsLeft`, which
  counts the entries ahead of the cursor (`From`), is at most
  `2 * MAX_TASKS + 5` and falls with every step of a call but a tick, for a
  cursor that moves on has one entry less ahead (`FromShrinks`, from `Links`).
  `ScheduleReturns` adds that kernel code goes on (`WF_vars(KernelStep)`).
  `NoOvertakingAlways` (no hypothesis): a READY task keeps its place before every
  other, unless the other's priority rises or `task_set_priority` queues it
  again itself; insertion, removal, a boost and a dispatch each keep the order of
  the others (`InsertPrecedes`, `RemovePrecedes`, `ChangePriorityPrecedes`).
  `EqualsShare` adds that tasks go on calling the scheduler.

### Sequences and sums (`QueueTheorems`)

Insertion and removal at a position of a sequence: what occurs, that nothing
occurs twice, that order is kept.  The sum of a function over a finite set is
a fold, and no prover here can use an induction theorem; but a smallest set on
which a claim about the fold fails can be named (`SmallestSubset`), and
contradicted.  In this way the fold has a value on every finite set
(`SumsExist`), any element may be taken out first (`TotalTake`), and only the
values summed matter (`TotalSame`).

### Locks (`KernelProofs`)

For any number of CPUs, handlers and tickets, as long as the contexts are
fewer than the tickets (2^32 in the code) and `NotLapped` bounds the steps
(section 3):

* `SpinInv` adds two facts to the types.  `TicketInv`: counted around the
  circle from `owner`, the contexts in the queue hold exactly the tickets up to
  `next`, each its own; without it nothing says that the ticket reached next
  belongs to one context.  `TryInv`: how far `next` and `owner` can have moved
  since a trylock read them, which makes its compare-and-swap mean that the lock
  is free.  They give `SpinExclusiveAlways`.
* `IrqInv` relates the saved flag to the place in the code: a thread between
  saving and restoring has interrupts off, so no handler starts there
  (`IrqSafeAlways`).
* `MutexInv`, `RwInv`, `PermitsConserved` and `DoneInv` say that each word
  equals a count of contexts by place, and that a value read before a swap says
  nothing until the swap succeeds; they give `WordsCountHoldersAlways` and
  `SignalOnceAlways`.  The lemma `CountMoves` is the one fact about cardinality
  they need: when one thread moves, a count changes by at most that thread.

### Heap (`KernelProofs`)

For any arena, header, alignment and request sizes.  `HeapInv` adds to the
links of the list that no header lies inside another block (`Sound`), which
the links alone do not say, that no two free blocks are neighbours (`Joined`),
and that the allocations and the used blocks correspond one to one (`Owned`).
A split, an absorption, an allocation and a release are each shown to keep
`Sound` and `Joined` and to say which blocks are used; the calls follow,
`krealloc` as an allocation followed by a release.  Result: `BlocksTileAlways`,
`NoFreeNeighboursAlways`, `LiveOwnedAlways`.  `CountInv` adds that `used_size` is
the sum of the used blocks with their headers; an absorption or a split moves
no used block, an allocation and a release move one (`TotalTake`).  With it
the run's whole invariant is proved, `HeapSoundAlways`.

### Registry and cache (`ModelProofs`)

* Registry: `ActiveSlot` and `SlotsCounted` need each other, since a load
  activates its model because the counter says that it is the first; with what
  a shutdown has left behind its cursor (`ShutdownInv`) they are inductive.
  `MemoryInv`: the statistics and the heap words equal the sums over the slots,
  and slots in no use hold nothing.  Results: `ActiveSlotAlways`,
  `SlotsCountedAlways`, `AccountingAlways`, `RegistryTypeCorrect`.
* Cache: `KvTypeCorrect` for every configuration, and under `SafeConfig` (each
  policy is "none", or "sliding" with a window of at least one and less than the
  arrays and without batches) `KvInBounds` for arbitrary positions and
  `KvWindowNewest` for callers that fill a layer in order.  The last needs
  `StartInv`: a layer's start has moved only once its positions exceed the
  arrays, so a position inside them is its own index.

### NVMe and the pool (`ServicesProofs`)

* NVMe: the entries of the completion ring before the controller's place carry
  its phase and the others the opposite one, and the driver has the same phase
  as the controller exactly when its head is not past the controller's tail
  (`RingInv`); hence `PhaseExactAlways`, for rings of any size and late
  controllers too, and `NvmeTypeCorrect`.
* With `LATE = FALSE`, `NvmeInv`: while the driver waits exactly one command is
  under way, the awaited one, at one of three places (submitted, in service,
  answered), and an answer that reports success has moved its batch; otherwise
  nothing is (`OneCommand`).  Hence `ReturnsMovedTimely` and
  `DiskIntendedTimely`.  Finding 4 shows the late controller.
* Pool: `PoolInv`, for any number of threads, items and chunks, both modes and
  failing creations.  Its core is a set `F` of workers that have counted
  themselves done in this call: `done` is its size (`Counted`), and the items
  executed so far are the ranges of the tasks past theirs (`Fixed`), or those
  handed out and not in somebody's hands (`Claimed`).  `Enough` says that there
  are no more workers than the call waits for.  Results: `NoStaleWorkSteady`,
  `OnceEachSteady`, `PoolTypeCorrect`.  Their hypothesis `Steady` (the pool is set
  up once, and every thread count asked for comes to the same number after
  clamping) is needed: after a second set-up or a lowered count there are more
  workers than a call waits for (section 5).
* `ServicesTypeCorrect`: the four types in the composition.

### VirtIO (`VirtioProofs`)

* Block: the free list is a sequence without repetition that the `next` fields
  link and whose elements, with the chain of the current request, are all the
  descriptors (`ChainInv`).  `FreeTake` and `FreeGive` say what allocating and
  freeing several descriptors does to such a list; both network queues use
  them too.  Results for any device: `BlkTypeCorrect`, `FreeListAlways`.
* With a device that answers in time or not at all (`LATE = FALSE`, and fewer
  unanswered requests than the indices can count) `TimelyInv`: a request polled
  for is waiting, in the device's hands or answered, and the ring indices say
  which.  Results: `UsedHeadMatchesTimely`, `ReadReturnsSectorTimely`, and
  `BlockDriverRefines`: the driver implements `BlockDevice`, each step mapped to a
  step of it or to a stutter.  Finding 2 shows the late device.
* Network: `NetInv` has the free list of either queue; `SendInvariant` says that
  the frame in `tx_buffer` is the one sent last, and which was taken before it;
  `ReceiveInv` that the available ring holds each receive buffer once from the
  first unread entry on, filled up to the device's place, and that the filled
  ones hold the frames after the last one the stack has.  The indices wrap;
  `After` and the lemmas about remainders carry the proof past that.  Results:
  `NetTypeCorrect`, `NetQueuesAlways`, `SentInOrderAlways`, `ReceivedInOrderAlways`.
* `VirtioTypeCorrect`, `VirtqueueSoundTimely`: the same of the composition.

### TCP and EtherCAT (`NetworkProofs`)

* TCP, for any hosts, sockets, sizes and faults: `TcpTypeCorrect` (what packets
  may carry has to be added, `TcpTypeInv`), `ArpUniqueAlways`, and
  `SocketsAccountedAlways`, which needs the effect on a cardinality of one slot
  that becomes active or free.
* EtherCAT, for any configuration and any `Written`: `EcatTypeCorrect`; the action
  properties `AlStatusAlways` (from the types and that error flag and code go
  together) and `RefusalHarmlessAlways`.  The latter is about the order of steps:
  a sequence that was cut short was cut at a check, and no step before a check
  has an effect.
* `NetworkTypeCorrect`: the types in the composition.

### Connections (`ConnectionProofs`)

`DataInOrderAlways` and `ClosingSoundAlways`, for any number of hosts, clients,
servers, sockets, packets and units, with losses, resets, timeouts and closes as
free as in the model, assuming `MAX_CREATED <= PORT_MOD - EPHEMERAL` (section 3).

* Neither property is inductive: both speak of one socket, and what it gets was
  put on the wire long before by a host that the code does not compare.  The
  invariant names each connection by its active end, node n and port p, and
  says where it leads in a table `h` that the code keeps nowhere: `h[n][p]` is the
  node that p was used for.  The table is quantified away:
  `\E h, u : NetInv(h, u)` is inductive (u counts the ports a node has used;
  `PortsInv` says they are the ones before `next_ephemeral_port` and fit the
  sockets created).
* `SocketsInv`, `WireInv`: every socket is idle, listens, serves a connection of
  the table or is the active end of one, no two on one port; every segment on
  the wire is of such a connection, from one of its ends to the other.
* `ConnInv(c, e, w, ...)` relates, for one connection, the state c of its active
  end, the state e of its passive end (either may be gone) and the segments
  between.  `OnlySyn`: before the passive end is there, nothing but the SYN is on
  its way to it.  `Live` and `Answered`: as long as the active end lives or
  something of it is on the way, the server's socket at its port serves it.  This
  is what `handle_tcp` relies on without a check, and what a connection given up
  in SYN_RECEIVED or by a reset breaks, hence the condition `~abandoned`.
  `FinLast`: nothing follows a FIN.  `FinHeard`, `FinFrom`: a FIN that was heard,
  or is on the way, comes from an end that has closed.
* `OrderInv`: the numbers of the units rise along what was read, what is buffered
  and what is on the way, in this order; `PeerData`: a buffer holds the
  peer's.  `Dues`: without a fault, what an end in LAST_ACK waits for is under
  way, or its FIN is, to a peer that will answer it.
* A step touches one socket, takes at most one segment off the wire and puts at
  most one on it.  `Moves` states such a change once, together with what the
  connection of that socket must then satisfy; one lemma says that
  it keeps every other connection (the other ends and their segments are the
  same), and each action is an instance of it.

### Only model-checked

* Liveness, out of the prover's reach: `ScheduleReturns`, `EqualsShare`,
  `TicketServed`.  For the first two the proofs give the falling measure and the
  order of the queue, but neither the fairness argument nor the induction on
  the measure.
* What the hypotheses above exclude and the code allows is in sections 4 and 5;
  the passing runs have the same hypotheses or a smaller instance of them.

## 7. Not modelled

* Priority inheritance in task.c (526-707): static functions nobody calls.
  CPU affinity, statistics, names.
* Locks: no code of the running kernel takes one; they are checked for their
  own sake, one of each kind.  The panics after many spins and the debug
  build's bookkeeping are left out.
* TCP: UDP, ICMP (but for the ARP requests both send), DHCP and configuration.
  EtherCAT: AL_CONTROL, which nothing reads, the values of inputs, the FMMUs, which nothing reads, and the stubs for mailbox, clock and watchdog.
* CAN and Modbus: what they can do is reached by calls in order (section 5); no
  step of theirs depends on another actor's.
* DMA: a mapping is the address itself.  Pages and page tables: bump allocation.
* e1000e: rings with one head and one tail, the questions of `VirtioNet`
  without its free list.  VirtIO over MMIO repeats the block driver's requests.
* Weak memory order: the pool's accesses are fenced; the drivers' ring
  accesses are taken to be ordered by the barriers in the code.
* Parsing (GGUF, tokenizer, command line), numerical kernels, printing,
  register I/O (PCI, timers, UART, VGA, GPIO, I2C, SPI), assembly: either
  sequential without state, or outside what a state machine tells.
* `kernel/llama_cpp` is vendored, `ai/_archive` is dead code; neither is built.

## 8. What could follow

1. A run for `complete_all` and one for changing thread counts with threads on
   CPUs of their own (section 5).
2. `Can.tla` and `Modbus.tla`, once their rings move and the server accepts.
3. The byte-granular block layer on `BlockDevice`; UDP and ICMP.
4. Proofs: the pool after a change of its size, with workers counted as they are.

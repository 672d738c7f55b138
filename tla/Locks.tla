------------------------------- MODULE Locks -------------------------------
(***************************************************************************)
(* The locking primitives (include/embodios/spinlock.h, mutex.h): one      *)
(* ticket spinlock, mutex, read-write lock, semaphore and completion, used *)
(* by one thread a CPU and by an interrupt handler on some CPUs.           *)
(*                                                                         *)
(* A step is one atomic access.  The spinlock is taken with the interrupt  *)
(* flag saved, as code that shares it with a handler must; a handler runs  *)
(* with interrupts off and suspends its CPU's thread.  A thread holds one  *)
(* lock at a time.  The panics after millions of spins are left out.       *)
(***************************************************************************)
EXTENDS Integers, FiniteSets

CONSTANTS Threads,    \* one a CPU
          Handlers,   \* interrupt handlers
          Cpu,        \* the thread a handler interrupts
          TICKETS,    \* tickets wrap here (2^32)
          SEMA,       \* sema_init's value
          MAX_SIGNALS \* bound: calls of complete nobody has waited for

ASSUME LocksAssumption ==
  /\ IsFiniteSet(Threads) /\ IsFiniteSet(Handlers) /\ Threads \cap Handlers = {}
  /\ Cpu \in [Handlers -> Threads] /\ \A h, g \in Handlers : Cpu[h] = Cpu[g] => h = g
  /\ TICKETS \in Nat /\ Cardinality(Threads \cup Handlers) < TICKETS
  /\ SEMA \in Nat /\ MAX_SIGNALS \in Nat

Contexts == Threads \cup Handlers
Tickets  == 0..(TICKETS - 1)

VARIABLES next, owner,       \* the ticket lock
          locked, rw, count, done,
          pc,                \* where a context is
          ticket,            \* its ticket, or the ticket it has read
          val,               \* the value it has read before a compare-and-swap
          irq,               \* interrupts are enabled on a thread's CPU
          since,             \* tickets drawn since a trylock read one
          owed               \* calls of complete that have ended no wait

locks_vars == <<next, owner, locked, rw, count, done, pc, ticket, val, irq, since,
                owed>>
others     == <<locked, rw, count, done, val, owed>>
spinning   == <<next, owner, ticket, irq, since>>

SpinPcs  == {"irqs_off", "spin", "held", "read_owner", "swap", "released"}
OtherPcs == {"mutex_wait", "mutex_swap", "mutex_held", "read_swap", "read_held",
             "write_held", "down_swap", "down_held", "wait_swap"}

LocksTypeOK ==
  /\ next \in Tickets /\ owner \in Tickets
  /\ locked \in {0, 1} /\ rw \in Int /\ count \in Int /\ done \in Int
  /\ pc \in [Contexts -> {"idle"} \cup SpinPcs \cup OtherPcs]
  /\ ticket \in [Contexts -> Tickets] /\ val \in [Contexts -> Int]
  /\ irq \in [Threads -> BOOLEAN] /\ since \in [Contexts -> Tickets]
  /\ owed \in Int

LocksInit ==
  /\ next = 0 /\ owner = 0 /\ locked = 0 /\ rw = 0 /\ count = SEMA /\ done = 0
  /\ pc = [c \in Contexts |-> "idle"]
  /\ ticket = [c \in Contexts |-> 0] /\ val = [c \in Contexts |-> 0]
  /\ irq = [t \in Threads |-> TRUE] /\ since = [c \in Contexts |-> 0]
  /\ owed = 0

\* A thread runs while no handler has interrupted it.
Runs(c) == \A h \in Handlers : Cpu[h] = c => pc[h] = "idle"

Goes(c, from, to) == Runs(c) /\ pc[c] = from /\ pc' = [pc EXCEPT ![c] = to]

-----------------------------------------------------------------------------
(* The ticket spinlock.                                                    *)

\* Mutant: the ticket does not wrap.
IncNoWrap(t) == t + 1

Inc(t) == IF t = TICKETS - 1 THEN 0 ELSE t + 1

\* Every trylock between its reads and its swap sees one more ticket drawn.
Drawn == [c \in Contexts |-> IF pc[c] \in {"read_owner", "swap"} THEN since[c] + 1 ELSE since[c]]

\* Bound: a trylock is not overtaken by a whole round of tickets.
NotLapped == \A c \in Contexts : pc[c] \in {"read_owner", "swap"} => since[c] < TICKETS - 1

arch_irq_save(t) ==
  /\ Goes(t, "idle", "irqs_off")
  /\ irq[t] /\ irq' = [irq EXCEPT ![t] = FALSE]
  /\ UNCHANGED <<next, owner, ticket, since, others>>

\* A handler starts: the hardware disables interrupts.
Interrupt(h) ==
  /\ irq[Cpu[h]] /\ pc[h] = "idle"
  /\ pc' = [pc EXCEPT ![h] = "irqs_off"] /\ irq' = [irq EXCEPT ![Cpu[h]] = FALSE]
  /\ UNCHANGED <<next, owner, ticket, since, others>>

\* __raw_spin_lock draws a ticket.
Draw(c) ==
  /\ Goes(c, "irqs_off", "spin") /\ NotLapped
  /\ next' = Inc(next) /\ ticket' = [ticket EXCEPT ![c] = next]
  /\ since' = Drawn
  /\ UNCHANGED <<owner, irq, others>>

\* Mutant: whoever sees the lock free takes it.
ServedAnyone(c) ==
  /\ Goes(c, "spin", "held") /\ \A d \in Contexts : pc[d] # "held"
  /\ UNCHANGED <<spinning, others>>

Served(c) ==
  /\ Goes(c, "spin", "held") /\ owner = ticket[c]
  /\ UNCHANGED <<spinning, others>>

__raw_spin_lock(c) == Draw(c) \/ Served(c)

__raw_spin_unlock(c) ==
  /\ Goes(c, "held", "released")
  /\ owner' = Inc(owner)
  /\ UNCHANGED <<next, ticket, irq, since, others>>

TryReadNext(c) ==
  /\ Goes(c, "irqs_off", "read_owner")
  /\ ticket' = [ticket EXCEPT ![c] = next] /\ since' = [since EXCEPT ![c] = 0]
  /\ UNCHANGED <<next, owner, irq, others>>

TryReadOwner(c) ==
  /\ Runs(c) /\ pc[c] = "read_owner"
  /\ pc' = [pc EXCEPT ![c] = IF owner = ticket[c] THEN "swap" ELSE "released"]
  /\ UNCHANGED <<spinning, others>>

\* Mutant: the ticket is stored without comparing.
TryStores(c) ==
  /\ Goes(c, "swap", "held") /\ NotLapped
  /\ next' = Inc(ticket[c]) /\ since' = Drawn
  /\ UNCHANGED <<owner, ticket, irq, others>>

TrySwap(c) ==
  /\ Runs(c) /\ pc[c] = "swap"
  /\ \/ /\ next = ticket[c] /\ NotLapped
        /\ next' = Inc(next) /\ since' = Drawn
        /\ pc' = [pc EXCEPT ![c] = "held"]
     \/ /\ next # ticket[c]
        /\ pc' = [pc EXCEPT ![c] = "released"] /\ UNCHANGED <<next, since>>
  /\ UNCHANGED <<owner, ticket, irq, others>>

__raw_spin_trylock(c) == TryReadNext(c) \/ TryReadOwner(c) \/ TrySwap(c)

\* A thread restores its flag, a handler returns; both had interrupts enabled.
Restored(c) == [irq EXCEPT ![IF c \in Handlers THEN Cpu[c] ELSE c] = TRUE]

\* Mutant: spin_unlock_irqrestore restores the flag before it unlocks.
RestoreFirst(c) ==
  /\ Runs(c) /\ pc[c] \in {"released", "held"}
  /\ pc' = [pc EXCEPT ![c] = IF @ = "released" THEN "idle" ELSE "held"]
  /\ irq' = Restored(c)
  /\ UNCHANGED <<next, owner, ticket, since, others>>

arch_irq_restore(c) ==
  /\ Goes(c, "released", "idle")
  /\ irq' = Restored(c)
  /\ ticket' = [ticket EXCEPT ![c] = 0] /\ since' = [since EXCEPT ![c] = 0]
  /\ UNCHANGED <<next, owner, others>>

Spinlock(c) ==
  \/ __raw_spin_lock(c) \/ __raw_spin_unlock(c) \/ __raw_spin_trylock(c)
  \/ arch_irq_restore(c)

-----------------------------------------------------------------------------
(* The mutex.                                                              *)

\* The first compare-and-swap of mutex_lock, or of mutex_trylock.
mutex_lock(t) ==
  /\ Runs(t) /\ pc[t] \in {"idle", "mutex_swap"}
  /\ \/ /\ locked = 0 /\ locked' = 1 /\ pc' = [pc EXCEPT ![t] = "mutex_held"]
     \/ /\ locked # 0 /\ pc' = [pc EXCEPT ![t] = "mutex_wait"] /\ UNCHANGED locked
  /\ UNCHANGED <<spinning, rw, count, done, val, owed>>

\* Mutant: a waiter that sees the mutex free takes it without a swap.
WaitTakes(t) ==
  /\ Goes(t, "mutex_wait", "mutex_held") /\ locked = 0
  /\ UNCHANGED <<spinning, others>>

\* The inner loop ends when the mutex looks free.
MutexFree(t) ==
  /\ Goes(t, "mutex_wait", "mutex_swap") /\ locked = 0
  /\ UNCHANGED <<spinning, others>>

mutex_trylock(t) ==
  /\ locked = 0 /\ Goes(t, "idle", "mutex_held") /\ locked' = 1
  /\ UNCHANGED <<spinning, rw, count, done, val, owed>>

mutex_unlock(t) ==
  /\ Goes(t, "mutex_held", "idle") /\ locked' = 0
  /\ UNCHANGED <<spinning, rw, count, done, val, owed>>

Mutex(t) == mutex_lock(t) \/ MutexFree(t) \/ mutex_trylock(t) \/ mutex_unlock(t)

-----------------------------------------------------------------------------
(* The read-write lock.                                                    *)

\* read_lock reads the count and retries while a writer has the lock.
ReadCount(t) ==
  /\ Goes(t, "idle", "read_swap") /\ rw >= 0
  /\ val' = [val EXCEPT ![t] = rw]
  /\ UNCHANGED <<spinning, locked, rw, count, done, owed>>

\* Mutant: the count is stored without comparing.
ReadStores(t) ==
  /\ Goes(t, "read_swap", "read_held") /\ rw' = val[t] + 1
  /\ val' = [val EXCEPT ![t] = 0]
  /\ UNCHANGED <<spinning, locked, count, done, owed>>

ReadSwap(t) ==
  /\ Runs(t) /\ pc[t] = "read_swap"
  /\ \/ /\ rw = val[t] /\ rw' = rw + 1 /\ pc' = [pc EXCEPT ![t] = "read_held"]
     \/ /\ rw # val[t] /\ pc' = [pc EXCEPT ![t] = "idle"] /\ UNCHANGED rw
  /\ val' = [val EXCEPT ![t] = 0]
  /\ UNCHANGED <<spinning, locked, count, done, owed>>

read_unlock(t) ==
  /\ Goes(t, "read_held", "idle") /\ rw' = rw - 1
  /\ UNCHANGED <<spinning, locked, count, done, val, owed>>

write_lock(t) ==
  /\ Goes(t, "idle", "write_held") /\ rw = 0 /\ rw' = -1
  /\ UNCHANGED <<spinning, locked, count, done, val, owed>>

write_unlock(t) ==
  /\ Goes(t, "write_held", "idle") /\ rw' = 0
  /\ UNCHANGED <<spinning, locked, count, done, val, owed>>

Rwlock(t) == ReadCount(t) \/ ReadSwap(t) \/ read_unlock(t) \/ write_lock(t) \/ write_unlock(t)

-----------------------------------------------------------------------------
(* The semaphore.                                                          *)

DownRead(t) ==
  /\ Goes(t, "idle", "down_swap") /\ count > 0
  /\ val' = [val EXCEPT ![t] = count]
  /\ UNCHANGED <<spinning, locked, rw, count, done, owed>>

\* Mutant: the count is stored without comparing.
DownStores(t) ==
  /\ Goes(t, "down_swap", "down_held") /\ count' = val[t] - 1
  /\ val' = [val EXCEPT ![t] = 0]
  /\ UNCHANGED <<spinning, locked, rw, done, owed>>

\* down and down_trylock; a failed swap is a retry, or a failed try.
DownSwap(t) ==
  /\ Runs(t) /\ pc[t] = "down_swap"
  /\ \/ /\ count = val[t] /\ count' = count - 1 /\ pc' = [pc EXCEPT ![t] = "down_held"]
     \/ /\ count # val[t] /\ pc' = [pc EXCEPT ![t] = "idle"] /\ UNCHANGED count
  /\ val' = [val EXCEPT ![t] = 0]
  /\ UNCHANGED <<spinning, locked, rw, done, owed>>

up(t) ==
  /\ Goes(t, "down_held", "idle") /\ count' = count + 1
  /\ UNCHANGED <<spinning, locked, rw, done, val, owed>>

Semaphore(t) == DownRead(t) \/ DownSwap(t) \/ up(t)

-----------------------------------------------------------------------------
(* The completion.                                                         *)

complete(t) ==
  /\ Runs(t) /\ pc[t] = "idle" /\ owed < MAX_SIGNALS
  /\ done' = 1 /\ owed' = owed + 1
  /\ UNCHANGED <<spinning, locked, rw, count, pc, val>>

\* UINT32_MAX, stored in an int.
complete_all(t) ==
  /\ Runs(t) /\ pc[t] = "idle"
  /\ done' = -1 /\ owed' = 0
  /\ UNCHANGED <<spinning, locked, rw, count, pc, val>>

reinit_completion(t) ==
  /\ Runs(t) /\ pc[t] = "idle"
  /\ done' = 0 /\ owed' = 0
  /\ UNCHANGED <<spinning, locked, rw, count, pc, val>>

\* wait_for_completion reads done: it goes on when it is positive, which the
\* value of complete_all is not; try_wait_for_completion, which knows that
\* value, then changes nothing, and swaps as a wait does otherwise.
WaitRead(t) ==
  /\ Goes(t, "idle", "wait_swap") /\ done > 0
  /\ val' = [val EXCEPT ![t] = done]
  /\ UNCHANGED <<spinning, locked, rw, count, done, owed>>

\* Mutant: the completion is consumed without comparing.
WaitStores(t) ==
  /\ Goes(t, "wait_swap", "idle")
  /\ done' = val[t] - 1 /\ owed' = owed - 1
  /\ val' = [val EXCEPT ![t] = 0]
  /\ UNCHANGED <<spinning, locked, rw, count>>

WaitSwap(t) ==
  /\ Goes(t, "wait_swap", "idle")
  /\ IF done = val[t] THEN done' = done - 1 /\ owed' = owed - 1
                      ELSE UNCHANGED <<done, owed>>
  /\ val' = [val EXCEPT ![t] = 0]
  /\ UNCHANGED <<spinning, locked, rw, count>>

Completion(t) ==
  complete(t) \/ complete_all(t) \/ reinit_completion(t) \/ WaitRead(t) \/ WaitSwap(t)

-----------------------------------------------------------------------------
LocksNext ==
  \/ \E h \in Handlers : Interrupt(h) \/ Spinlock(h)
  \/ \E t \in Threads : arch_irq_save(t) \/ Spinlock(t)
  \/ \E t \in Threads : Mutex(t) \/ Rwlock(t) \/ Semaphore(t) \/ Completion(t)

LocksSpec == LocksInit /\ [][LocksNext]_locks_vars

\* A context that runs goes on, and leaves the spinlock.
LocksFairSpec ==
  /\ LocksSpec
  /\ \A c \in Contexts : WF_locks_vars(Served(c) \/ __raw_spin_unlock(c) \/ arch_irq_restore(c))

-----------------------------------------------------------------------------
(* Properties.                                                             *)

\* One context at a time holds the spinlock, whether it spun for it or won a
\* trylock, whose two reads are not atomic.
SpinExclusive == \A c, d \in Contexts : pc[c] = "held" /\ pc[d] = "held" => c = d

\* A handler never waits for the thread it has interrupted: that would be for
\* good.  This is what the irqsave variants are for.
IrqSafe ==
  \A h \in Handlers : pc[h] # "idle" => pc[Cpu[h]] \notin SpinPcs

\* Readers exclude a writer, a writer everyone, and the count is theirs.
ReadersWriter ==
  LET readers == {t \in Threads : pc[t] = "read_held"}
      writers == {t \in Threads : pc[t] = "write_held"}
  IN rw = IF writers = {} THEN Cardinality(readers) ELSE -1

MutexExclusive == \A s, t \in Threads : pc[s] = "mutex_held" /\ pc[t] = "mutex_held" => s = t

\* No permit of the semaphore is lost or made: those that are out and those
\* that are left are as many as sema_init made.
PermitsConserved == count = SEMA - Cardinality({t \in Threads : pc[t] = "down_held"})

\* The word of each counting lock tells who holds it, although it is read and
\* swapped in separate steps: readers and writer, the mutex, the permits.
WordsCountHolders == ReadersWriter /\ MutexExclusive /\ PermitsConserved

\* A call of complete ends at most one wait, none once it was withdrawn.
SignalOnce == owed >= IF done = 1 THEN 1 ELSE 0

\* The ticket lock is fair (spinlock.h:138): who has drawn a ticket gets the lock.
TicketServed == \A c \in Contexts : (pc[c] = "spin") ~> (pc[c] = "held")
=============================================================================

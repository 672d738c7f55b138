---------------------------- MODULE KernelProofs ----------------------------
(***************************************************************************)
(* Proofs about the locks and the heap.                                    *)
(*                                                                         *)
(* Locks, for any number of CPUs, handlers and tickets and any semaphore:  *)
(* the exclusion each lock promises.  The ticket lock's invariant counts   *)
(* tickets around the circle they wrap on; the other locks' invariants     *)
(* relate a counter to the contexts that hold the lock.                    *)
(*                                                                         *)
(* Heap, for any size of the arena, of headers and of the requests: the    *)
(* blocks always tile the arena, no two free ones are neighbours, and no   *)
(* two allocations overlap.  The invariant adds to the links of the list   *)
(* that no header lies inside another block.                               *)
(***************************************************************************)
EXTENDS MCKernel, QueueTheorems, FiniteSetTheorems

-----------------------------------------------------------------------------
(* The locks.                                                              *)

\* The steps of the ticket lock change nothing of the other locks.
SpinSteps(c) ==
  \/ Draw(c) \/ Served(c) \/ __raw_spin_unlock(c)
  \/ TryReadNext(c) \/ TryReadOwner(c) \/ TrySwap(c) \/ arch_irq_restore(c)

IrqSteps == (\E t \in Threads : arch_irq_save(t)) \/ (\E h \in Handlers : Interrupt(h))

OtherSteps(t) == Mutex(t) \/ Rwlock(t) \/ Semaphore(t) \/ Completion(t)

\* The three kinds of steps of Next.
LEMMA NextSteps ==
  ASSUME LocksNext
  PROVE  IrqSteps \/ (\E c \in Contexts : SpinSteps(c)) \/ (\E t \in Threads : OtherSteps(t))
BY DEF LocksNext, IrqSteps, SpinSteps, OtherSteps, Spinlock, __raw_spin_lock,
       __raw_spin_trylock, Contexts

\* The other locks' steps change nothing of the ticket lock.
LEMMA OtherUnchanged ==
  ASSUME NEW t \in Threads, OtherSteps(t)
  PROVE  UNCHANGED <<next, owner, ticket, irq, since>>
<1>1. UNCHANGED spinning
  BY DEF OtherSteps, Mutex, mutex_lock, MutexFree, mutex_trylock, mutex_unlock,
     Rwlock, ReadCount, ReadSwap, read_unlock, write_lock, write_unlock,
     Semaphore, DownRead, DownSwap, up, Completion, complete, complete_all,
     reinit_completion, WaitRead, WaitSwap
<1> QED BY <1>1 DEF spinning

\* Threads and handlers are finitely many, fewer than the tickets.
LEMMA Finite ==
  /\ IsFiniteSet(Threads) /\ IsFiniteSet(Contexts)
  /\ Cardinality(Contexts) \in Nat /\ TICKETS \in Nat /\ Cardinality(Contexts) < TICKETS
  /\ Threads \subseteq Contexts /\ Handlers \subseteq Contexts
  /\ Cpu \in [Handlers -> Threads] /\ SEMA \in Nat
<1>1. IsFiniteSet(Contexts)
  BY LocksAssumption, FS_Union DEF Contexts
<1> QED BY <1>1, LocksAssumption, FS_CardinalityType DEF Contexts

\* When one thread moves, the number of threads at place p changes by at most
\* one.
LEMMA CountMoves ==
  ASSUME NEW p, NEW t \in Threads, \A s \in Threads \ {t} : pc'[s] = pc[s]
  PROVE  LET A == {x \in Threads : pc[x] = p}
             B == {x \in Threads : pc'[x] = p}
         IN  /\ Cardinality(A) \in Nat /\ Cardinality(B) \in Nat
             /\ (pc[t] = p <=> pc'[t] = p) => B = A
             /\ pc[t] = p /\ pc'[t] # p => Cardinality(B) = Cardinality(A) - 1
             /\ pc[t] # p /\ pc'[t] = p => Cardinality(B) = Cardinality(A) + 1
<1> DEFINE A == {x \in Threads : pc[x] = p}
           B == {x \in Threads : pc'[x] = p}
<1>1. IsFiniteSet(A) /\ IsFiniteSet(B)
  BY Finite, FS_Subset
<1>2. Cardinality(A) \in Nat /\ Cardinality(B) \in Nat
  BY <1>1, FS_CardinalityType
<1>3. (pc[t] = p <=> pc'[t] = p) => B = A
  OBVIOUS
<1>4. CASE pc[t] = p /\ pc'[t] # p
  <2>1. B = A \ {t} /\ t \in A BY <1>4
  <2>2. Cardinality(B) = Cardinality(A) - 1 BY <1>1, <2>1, FS_RemoveElement
  <2> QED BY <1>2, <1>4, <2>2
<1>5. CASE pc[t] # p /\ pc'[t] = p
  <2>1. B = A \cup {t} /\ t \notin A BY <1>5
  <2>2. Cardinality(B) = Cardinality(A) + 1 BY <1>1, <2>1, FS_AddElement
  <2> QED BY <1>2, <1>5, <2>2
<1> QED BY <1>2, <1>3, <1>4, <1>5

-----------------------------------------------------------------------------
(* Types.                                                                  *)

LEMMA TypeInit == LocksInit => LocksTypeOK
BY Finite, LocksAssumption DEF LocksInit, LocksTypeOK, Tickets

\* Tickets wrap inside their range.
LEMMA Wraps ==
  /\ 0 \in Tickets
  /\ \A t \in Tickets : Inc(t) \in Tickets /\ (t < TICKETS - 1 => t + 1 \in Tickets)
BY Finite DEF Tickets, Inc

\* Every step keeps the types.
LEMMA TypeStep ==
  ASSUME LocksTypeOK, [LocksNext]_locks_vars
  PROVE  LocksTypeOK'
<1>1. CASE IrqSteps
  <2>1. PICK c \in Contexts, t \in Threads :
          /\ pc' = [pc EXCEPT ![c] = "irqs_off"] /\ irq' = [irq EXCEPT ![t] = FALSE]
          /\ UNCHANGED <<next, owner, ticket, since, others>>
    BY <1>1, Finite DEF IrqSteps, arch_irq_save, Interrupt, Goes
  <2>2. UNCHANGED <<next, owner, ticket, since, locked, rw, count, done, val, owed>>
    BY <2>1 DEF others
  <2> QED BY <2>1, <2>2 DEF LocksTypeOK, SpinPcs
<1>2. ASSUME NEW c \in Contexts, SpinSteps(c) PROVE LocksTypeOK'
  <2>1. UNCHANGED <<locked, rw, count, done, val, owed>>
    BY <1>2 DEF SpinSteps, Draw, Served, __raw_spin_unlock, TryReadNext, TryReadOwner,
                TrySwap, arch_irq_restore, others, spinning
  <2>2. pc' \in [Contexts -> {"idle"} \cup SpinPcs \cup OtherPcs]
    BY <1>2 DEF SpinSteps, Draw, Served, __raw_spin_unlock, TryReadNext, TryReadOwner,
                TrySwap, arch_irq_restore, Goes, LocksTypeOK, SpinPcs
  <2>3. next' \in Tickets /\ owner' \in Tickets
    BY <1>2, Wraps DEF SpinSteps, Draw, Served, __raw_spin_unlock, TryReadNext, TryReadOwner,
                TrySwap, arch_irq_restore, others, spinning, LocksTypeOK
  <2>4. ticket' \in [Contexts -> Tickets]
    BY <1>2, Wraps DEF SpinSteps, Draw, Served, __raw_spin_unlock, TryReadNext, TryReadOwner,
                TrySwap, arch_irq_restore, others, spinning, LocksTypeOK
  <2>5. irq' \in [Threads -> BOOLEAN]
    BY <1>2, Finite DEF SpinSteps, Draw, Served, __raw_spin_unlock, TryReadNext, TryReadOwner,
                TrySwap, arch_irq_restore, Restored, Contexts, others, spinning, LocksTypeOK
  <2>6. since' \in [Contexts -> Tickets]
    <3>1. NotLapped => Drawn \in [Contexts -> Tickets]
      BY Wraps DEF NotLapped, Drawn, LocksTypeOK
    <3> QED BY <1>2, <3>1, Wraps DEF SpinSteps, Draw, Served, __raw_spin_unlock, TryReadNext,
                TryReadOwner, TrySwap, arch_irq_restore, others, spinning, LocksTypeOK
  <2> QED BY <2>1, <2>2, <2>3, <2>4, <2>5, <2>6 DEF LocksTypeOK
<1>3. ASSUME NEW t \in Threads, OtherSteps(t) PROVE LocksTypeOK'
  <2>1. UNCHANGED <<next, owner, ticket, irq, since>> /\ t \in Contexts
    BY <1>3, OtherUnchanged, Finite
  <2>2. pc' \in [Contexts -> {"idle"} \cup SpinPcs \cup OtherPcs]
    BY <1>3, <2>1 DEF OtherSteps, Mutex, mutex_lock, MutexFree, mutex_trylock, mutex_unlock,
       Rwlock, ReadCount, ReadSwap, read_unlock, write_lock, write_unlock,
       Semaphore, DownRead, DownSwap, up, Completion, complete, complete_all,
       reinit_completion, WaitRead, WaitSwap, Goes, LocksTypeOK, OtherPcs
  <2>3. /\ locked' \in {0, 1} /\ rw' \in Int /\ count' \in Int /\ done' \in Int
        /\ owed' \in Int /\ val' \in [Contexts -> Int]
    BY <1>3, <2>1 DEF OtherSteps, Mutex, mutex_lock, MutexFree, mutex_trylock, mutex_unlock,
       Rwlock, ReadCount, ReadSwap, read_unlock, write_lock, write_unlock,
       Semaphore, DownRead, DownSwap, up, Completion, complete, complete_all,
       reinit_completion, WaitRead, WaitSwap, LocksTypeOK, others
  <2> QED BY <2>1, <2>2, <2>3 DEF LocksTypeOK
<1>4. CASE UNCHANGED locks_vars
  BY <1>4 DEF locks_vars, LocksTypeOK
<1> QED BY <1>1, <1>2, <1>3, <1>4, NextSteps

\* Every variable of the locks keeps its type.
THEOREM LocksTypeCorrect == LocksSpec => []LocksTypeOK
BY TypeInit, TypeStep, PTL DEF LocksSpec

-----------------------------------------------------------------------------
(* The ticket lock.                                                        *)

\* How far ticket b is ahead of ticket a on the circle.
Ahead(a, b) == IF b >= a THEN b - a ELSE b - a + TICKETS

\* The contexts that have drawn a ticket and not yet passed the lock on.
Queued == {c \in Contexts : pc[c] \in {"spin", "held"}}

\* The tickets of the queue are those from owner up to next, each once; the
\* holder's is the first.
TicketInv ==
  /\ Cardinality(Queued) = Ahead(owner, next)
  /\ \A c \in Queued : Ahead(owner, ticket[c]) < Ahead(owner, next)
  /\ \A c, d \in Queued : ticket[c] = ticket[d] => c = d
  /\ \A c \in Contexts : pc[c] = "held" => ticket[c] = owner

\* Since a trylock read next, the tickets drawn are known, and owner, once
\* compared, lies between the ticket read and next.
TryInv ==
  /\ \A c \in Contexts : pc[c] \in {"read_owner", "swap"} => Ahead(ticket[c], next) = since[c]
  /\ \A c \in Contexts : pc[c] = "swap" => Ahead(ticket[c], owner) <= since[c]

SpinInv == LocksTypeOK /\ TicketInv /\ TryInv

LEMMA SpinInit == LocksInit => SpinInv
<1> SUFFICES ASSUME LocksInit PROVE SpinInv
  OBVIOUS
<1>1. Queued = {}
  BY DEF LocksInit, Queued
<1>2. Ahead(owner, next) = 0
  BY DEF LocksInit, Ahead
<1> QED BY <1>1, <1>2, TypeInit, FS_EmptySet DEF SpinInv, TicketInv, TryInv, LocksInit

\* A step that moves no context into or out of the queue and touches neither
\* counter.
LEMMA SpinSame ==
  ASSUME SpinInv, LocksTypeOK', NEW c \in Contexts, NEW to, pc' = [pc EXCEPT ![c] = to],
         pc[c] \notin {"spin", "held"}, to \notin {"spin", "held", "read_owner", "swap"},
         UNCHANGED <<next, owner>>,
         \A d \in Contexts \ {c} : ticket'[d] = ticket[d] /\ since'[d] = since[d]
  PROVE  SpinInv'
<1>1. Queued' = Queued
  BY DEF Queued, SpinInv, LocksTypeOK
<1>2. TicketInv'
  <2>1. Ahead(owner, next)' = Ahead(owner, next)
    BY DEF Ahead
  <2>2. \A d \in Queued : ticket'[d] = ticket[d] /\ Ahead(owner, ticket[d])' = Ahead(owner, ticket[d])
    BY DEF Queued, Ahead
  <2>3. \A d \in Contexts : pc'[d] = "held" => d \in Queued /\ pc[d] = "held"
    BY DEF Queued, SpinInv, LocksTypeOK
  <2>4. TicketInv
    BY DEF SpinInv
  <2>5. \A d \in Queued' : Ahead(owner, ticket[d])' < Ahead(owner, next)'
    BY <1>1, <2>1, <2>2, <2>4 DEF TicketInv
  <2> QED BY <1>1, <2>1, <2>2, <2>3, <2>4, <2>5 DEF TicketInv
<1>3. TryInv'
  BY DEF SpinInv, TryInv, LocksTypeOK, Ahead
<1> QED BY <1>2, <1>3 DEF SpinInv

\* The ticket lock's own steps keep its invariant.
LEMMA SpinOwnStep ==
  ASSUME SpinInv, LocksTypeOK', NEW c \in Contexts, SpinSteps(c)
  PROVE  SpinInv'
<1> USE Finite
<1>0. LocksTypeOK
  BY DEF SpinInv
<1>1. CASE Draw(c) \/ (TrySwap(c) /\ next = ticket[c])
  <2>1. /\ next' = Inc(next) /\ owner' = owner /\ since' = Drawn /\ NotLapped
        /\ pc[c] \notin {"spin", "held"} /\ pc'[c] \in {"spin", "held"}
        /\ \A d \in Contexts \ {c} : pc'[d] = pc[d] /\ ticket'[d] = ticket[d]
        /\ ticket'[c] = next
    <3>1. PICK to \in {"spin", "held"} : pc' = [pc EXCEPT ![c] = to]
      BY <1>1 DEF Draw, TrySwap, Goes
    <3>2. pc[c] \in {"irqs_off", "swap"} /\ owner' = owner /\ NotLapped /\ next' = Inc(next) /\ since' = Drawn
      BY <1>1 DEF Draw, TrySwap, Goes
    <3>3. ticket' = [ticket EXCEPT ![c] = next]
      BY <1>0, <1>1 DEF Draw, TrySwap, LocksTypeOK
    <3>4. pc'[c] = to /\ \A d \in Contexts \ {c} : pc'[d] = pc[d]
      BY <1>0, <3>1 DEF LocksTypeOK
    <3>5. ticket'[c] = next /\ \A d \in Contexts \ {c} : ticket'[d] = ticket[d]
      BY <1>0, <3>3 DEF LocksTypeOK
    <3> QED BY <3>2, <3>4, <3>5
  <2>2. Queued' = Queued \cup {c} /\ c \notin Queued
    BY <2>1 DEF Queued
  <2>3. Cardinality(Queued') = Cardinality(Queued) + 1 /\ Cardinality(Queued') < TICKETS
    <3>1. IsFiniteSet(Queued) /\ IsFiniteSet(Queued') /\ Cardinality(Queued') <= Cardinality(Contexts)
      BY FS_Subset DEF Queued
    <3>2. Cardinality(Queued') \in Nat
      BY <3>1, FS_CardinalityType
    <3> QED BY <2>2, <3>1, <3>2, FS_AddElement
  <2>4. Cardinality(Queued) = Ahead(owner, next) /\ next \in Tickets /\ owner \in Tickets
    BY <1>0 DEF SpinInv, TicketInv, LocksTypeOK
  <2>5. Ahead(owner, next') = Ahead(owner, next) + 1
    BY <2>1, <2>3, <2>4 DEF Ahead, Inc, Tickets
  <2>6. ASSUME NEW d \in Queued PROVE /\ Ahead(owner, ticket[d]) < Ahead(owner, next)
                                      /\ ticket[d] \in Tickets /\ ticket[d] # next
    <3>1. Ahead(owner, ticket[d]) < Ahead(owner, next)
      BY DEF SpinInv, TicketInv
    <3>2. ticket[d] \in Tickets
      BY <1>0 DEF LocksTypeOK, Queued
    <3> QED BY <2>4, <3>1, <3>2 DEF Tickets, Ahead
  <2>7. Ahead(owner, ticket'[c]) < Ahead(owner, next')
    BY <2>1, <2>4, <2>5 DEF Ahead, Tickets
  <2>8. pc'[c] = "held" => ticket'[c] = owner
    <3>1. ASSUME pc'[c] = "held" PROVE TrySwap(c) /\ next = ticket[c] /\ pc[c] = "swap" /\ NotLapped
      BY <1>0, <1>1, <3>1 DEF Draw, TrySwap, Goes, LocksTypeOK
    <3>2. ASSUME pc'[c] = "held" PROVE Ahead(ticket[c], owner) <= Ahead(ticket[c], next)
      BY <3>1, <3>2 DEF SpinInv, TryInv
    <3>3. ASSUME pc'[c] = "held" PROVE ticket[c] = next
      BY <1>0, <2>1, <3>1, <3>3 DEF TrySwap, LocksTypeOK
    <3>4. Ahead(next, next) = 0 /\ (Ahead(next, owner) <= 0 => owner = next)
      BY <2>4 DEF Ahead, Tickets
    <3>5. ASSUME pc'[c] = "held" PROVE owner = next
      BY <3>2, <3>3, <3>4, <3>5
    <3> QED BY <2>1, <3>5
  <2>9. TicketInv'
    <3>1. \A d \in Queued' : Ahead(owner, ticket'[d]) < Ahead(owner, next')
      BY <2>1, <2>2, <2>4, <2>5, <2>6, <2>7 DEF Ahead, Tickets, Queued
    <3>2. \A d, e \in Queued' : ticket'[d] = ticket'[e] => d = e
      BY <2>1, <2>2, <2>6 DEF SpinInv, TicketInv, Queued
    <3>3. \A d \in Contexts : pc'[d] = "held" => ticket'[d] = owner'
      BY <2>1, <2>8 DEF SpinInv, TicketInv
    <3> QED BY <2>1, <2>3, <2>4, <2>5, <3>1, <3>2, <3>3 DEF TicketInv
  <2>10. TryInv'
    <3>1. ASSUME NEW d \in Contexts, pc'[d] \in {"read_owner", "swap"}
          PROVE /\ d # c /\ pc'[d] = pc[d] /\ ticket'[d] = ticket[d] /\ since'[d] = since[d] + 1
                /\ since[d] < TICKETS - 1 /\ Ahead(ticket[d], next) = since[d] /\ ticket[d] \in Tickets
      BY <1>0, <2>1, <3>1 DEF Drawn, NotLapped, SpinInv, TryInv, LocksTypeOK
    <3>2. ASSUME NEW d \in Contexts, pc'[d] \in {"read_owner", "swap"}
          PROVE Ahead(ticket'[d], next') = since'[d]
      BY <2>1, <2>4, <3>1, <3>2 DEF Ahead, Inc, Tickets
    <3>3. ASSUME NEW d \in Contexts, pc'[d] = "swap"
          PROVE Ahead(ticket'[d], owner') <= since'[d]
      <4>1. Ahead(ticket[d], owner) <= since[d] /\ since[d] \in Tickets
        BY <1>0, <3>1, <3>3 DEF SpinInv, TryInv, LocksTypeOK
      <4> QED BY <2>1, <2>4, <3>1, <3>3, <4>1 DEF Ahead, Tickets
    <3> QED BY <3>2, <3>3 DEF TryInv
  <2> QED BY <2>9, <2>10 DEF SpinInv
<1>2. CASE Served(c)
  <2>1. /\ UNCHANGED <<next, owner, ticket, since>> /\ pc[c] = "spin" /\ pc' = [pc EXCEPT ![c] = "held"]
        /\ owner = ticket[c]
    BY <1>2 DEF Served, Goes, spinning
  <2>2. Queued' = Queued
    BY <1>0, <2>1 DEF Queued, LocksTypeOK
  <2>3. TicketInv'
    BY <1>0, <2>1, <2>2 DEF SpinInv, TicketInv, LocksTypeOK, Ahead
  <2>4. TryInv'
    BY <1>0, <2>1 DEF SpinInv, TryInv, LocksTypeOK, Ahead
  <2> QED BY <2>3, <2>4 DEF SpinInv
<1>3. CASE __raw_spin_unlock(c)
  <2>1. /\ owner' = Inc(owner) /\ UNCHANGED <<next, ticket, since>>
        /\ pc[c] = "held" /\ pc' = [pc EXCEPT ![c] = "released"]
    BY <1>3 DEF __raw_spin_unlock, Goes
  <2>2. Queued' = Queued \ {c} /\ c \in Queued
    BY <1>0, <2>1 DEF Queued, LocksTypeOK
  <2>3. Cardinality(Queued') = Cardinality(Queued) - 1
    <3>1. IsFiniteSet(Queued)
      BY FS_Subset DEF Queued
    <3> QED BY <2>2, <3>1, FS_RemoveElement
  <2>4. /\ Cardinality(Queued) = Ahead(owner, next) /\ next \in Tickets /\ owner \in Tickets
        /\ ticket[c] = owner /\ Ahead(owner, next) > 0
    BY <1>0, <2>1, <2>2 DEF SpinInv, TicketInv, LocksTypeOK, Ahead, Tickets
  <2>5. Ahead(owner', next) = Ahead(owner, next) - 1
    BY <2>1, <2>4 DEF Ahead, Inc, Tickets
  <2>6. ASSUME NEW d \in Queued' PROVE Ahead(owner', ticket[d]) < Ahead(owner', next)
    <3>1. /\ ticket[d] \in Tickets /\ ticket[d] # owner
          /\ Ahead(owner, ticket[d]) < Ahead(owner, next)
      BY <1>0, <2>2, <2>4 DEF SpinInv, TicketInv, LocksTypeOK, Queued
    <3> QED BY <2>1, <2>4, <2>5, <3>1 DEF Ahead, Inc, Tickets
  <2>7. \A d \in Contexts : pc'[d] # "held"
    <3>1. ASSUME NEW d \in Contexts, d # c, pc[d] = "held" PROVE FALSE
      BY <2>1, <2>2, <3>1 DEF SpinInv, TicketInv, Queued
    <3> QED BY <1>0, <2>1, <3>1 DEF LocksTypeOK
  <2>8. TicketInv'
    <3>1. \A d, e \in Queued' : ticket'[d] = ticket'[e] => d = e
      BY <2>1, <2>2 DEF SpinInv, TicketInv
    <3> QED BY <2>1, <2>3, <2>4, <2>5, <2>6, <2>7, <3>1 DEF TicketInv
  <2>9. TryInv'
    <3>1. ASSUME NEW d \in Contexts, pc'[d] \in {"read_owner", "swap"}
          PROVE /\ pc'[d] = pc[d] /\ Ahead(ticket[d], next) = since[d]
                /\ ticket[d] \in Tickets /\ since[d] \in Tickets
      BY <1>0, <2>1, <3>1 DEF SpinInv, TryInv, LocksTypeOK
    <3>2. ASSUME NEW d \in Contexts, pc'[d] = "swap" PROVE Ahead(ticket'[d], owner') <= since'[d]
      <4>1. Ahead(ticket[d], owner) <= since[d]
        BY <3>1, <3>2 DEF SpinInv, TryInv
      <4> QED BY <2>1, <2>4, <3>1, <3>2, <4>1 DEF Ahead, Inc, Tickets
    <3> QED BY <2>1, <3>1, <3>2 DEF TryInv
  <2> QED BY <2>8, <2>9 DEF SpinInv
<1>4. CASE TryReadNext(c)
  <2>1. /\ UNCHANGED <<next, owner>> /\ pc[c] = "irqs_off" /\ pc' = [pc EXCEPT ![c] = "read_owner"]
        /\ ticket' = [ticket EXCEPT ![c] = next] /\ since' = [since EXCEPT ![c] = 0]
    BY <1>4 DEF TryReadNext, Goes
  <2>2. Queued' = Queued /\ c \notin Queued
    BY <1>0, <2>1 DEF Queued, LocksTypeOK
  <2>3. TicketInv'
    BY <1>0, <2>1, <2>2 DEF SpinInv, TicketInv, LocksTypeOK, Ahead, Queued
  <2>4. Ahead(next, next) = 0
    BY <1>0 DEF Ahead, LocksTypeOK, Tickets
  <2>5. TryInv'
    BY <1>0, <2>1, <2>4 DEF SpinInv, TryInv, LocksTypeOK, Ahead
  <2> QED BY <2>3, <2>5 DEF SpinInv
<1>5. CASE TryReadOwner(c)
  <2>1. /\ UNCHANGED <<next, owner, ticket, since>> /\ pc[c] = "read_owner"
        /\ pc' = [pc EXCEPT ![c] = IF owner = ticket[c] THEN "swap" ELSE "released"]
    BY <1>5 DEF TryReadOwner, spinning
  <2>2. Queued' = Queued
    BY <1>0, <2>1 DEF Queued, LocksTypeOK
  <2>3. TicketInv'
    BY <1>0, <2>1, <2>2 DEF SpinInv, TicketInv, LocksTypeOK, Ahead
  <2>4. since[c] \in Tickets /\ Ahead(owner, owner) = 0
    BY <1>0 DEF LocksTypeOK, Tickets, Ahead
  <2>5. TryInv'
    BY <1>0, <2>1, <2>4 DEF SpinInv, TryInv, LocksTypeOK, Ahead, Tickets
  <2> QED BY <2>3, <2>5 DEF SpinInv
<1>6. CASE TrySwap(c) /\ next # ticket[c]
  <2>1. /\ UNCHANGED <<next, owner, ticket, since>> /\ pc[c] = "swap"
        /\ pc' = [pc EXCEPT ![c] = "released"]
    BY <1>6 DEF TrySwap
  <2> QED BY <2>1, SpinSame
<1>7. CASE arch_irq_restore(c)
  <2>1. /\ UNCHANGED <<next, owner>> /\ pc[c] = "released" /\ pc' = [pc EXCEPT ![c] = "idle"]
        /\ ticket' = [ticket EXCEPT ![c] = 0] /\ since' = [since EXCEPT ![c] = 0]
    BY <1>7 DEF arch_irq_restore, Goes
  <2>2. \A d \in Contexts \ {c} : ticket'[d] = ticket[d] /\ since'[d] = since[d]
    BY <1>0, <2>1 DEF LocksTypeOK
  <2> QED BY <2>1, <2>2, SpinSame
<1> QED BY <1>1, <1>2, <1>3, <1>4, <1>5, <1>6, <1>7 DEF SpinSteps

\* The other locks' steps move a context only among their own places.
LEMMA OtherPlaces ==
  ASSUME LocksTypeOK, NEW t \in Threads, OtherSteps(t)
  PROVE  /\ Runs(t) /\ pc[t] \in {"idle"} \cup OtherPcs
         /\ \E to \in {"idle"} \cup OtherPcs : pc' = [pc EXCEPT ![t] = to]
<1>1. Runs(t) /\ pc[t] \in {"idle"} \cup OtherPcs
  BY DEF OtherSteps, Mutex, mutex_lock, MutexFree, mutex_trylock, mutex_unlock,
     Rwlock, ReadCount, ReadSwap, read_unlock, write_lock, write_unlock,
     Semaphore, DownRead, DownSwap, up, Completion, complete, complete_all,
     reinit_completion, WaitRead, WaitSwap, Goes, OtherPcs
<1>2. CASE Mutex(t) \/ Rwlock(t) \/ Semaphore(t) \/ WaitRead(t) \/ WaitSwap(t)
  BY <1>2 DEF Mutex, mutex_lock, MutexFree, mutex_trylock, mutex_unlock,
     Rwlock, ReadCount, ReadSwap, read_unlock, write_lock, write_unlock,
     Semaphore, DownRead, DownSwap, up, WaitRead, WaitSwap, Goes, OtherPcs
<1>3. CASE complete(t) \/ complete_all(t) \/ reinit_completion(t)
  <2>1. pc[t] = "idle" /\ pc' = pc
    BY <1>3 DEF complete, complete_all, reinit_completion
  <2>2. pc' = [pc EXCEPT ![t] = "idle"]
    BY <2>1, Finite DEF LocksTypeOK
  <2>3. \E to \in {"idle"} \cup OtherPcs : pc' = [pc EXCEPT ![t] = to]
    <3> WITNESS "idle" \in {"idle"} \cup OtherPcs
    <3> QED BY <2>2
  <2> QED BY <1>1, <2>3
<1> QED BY <1>1, <1>2, <1>3 DEF OtherSteps, Completion

\* Every step keeps the ticket lock's invariant.
LEMMA SpinStep ==
  ASSUME SpinInv, [LocksNext]_locks_vars
  PROVE  SpinInv'
<1>0. LocksTypeOK /\ LocksTypeOK'
  BY TypeStep DEF SpinInv
<1>1. CASE IrqSteps
  <2>1. PICK c \in Contexts :
          /\ pc[c] = "idle" /\ pc' = [pc EXCEPT ![c] = "irqs_off"]
          /\ UNCHANGED <<next, owner, ticket, since>>
    BY <1>1, Finite DEF IrqSteps, arch_irq_save, Interrupt, Goes
  <2> QED BY <1>0, <2>1, SpinSame
<1>2. CASE \E c \in Contexts : SpinSteps(c)
  BY <1>0, <1>2, SpinOwnStep
<1>3. ASSUME NEW t \in Threads, OtherSteps(t) PROVE SpinInv'
  <2>1. PICK to \in {"idle"} \cup OtherPcs : pc' = [pc EXCEPT ![t] = to]
    BY <1>0, <1>3, OtherPlaces
  <2>2. /\ pc[t] \notin {"spin", "held"} /\ to \notin {"spin", "held", "read_owner", "swap"}
        /\ t \in Contexts
    BY <1>0, <1>3, <2>1, OtherPlaces, Finite DEF OtherPcs
  <2>3. UNCHANGED <<next, owner, ticket, since>>
    BY <1>3, OtherUnchanged
  <2> QED BY <1>0, <2>1, <2>2, <2>3, SpinSame
<1>4. CASE UNCHANGED locks_vars
  BY <1>4 DEF locks_vars, SpinInv, LocksTypeOK, TicketInv, TryInv, Queued, Ahead
<1> QED BY <1>1, <1>2, <1>3, <1>4, NextSteps

\* One context at a time holds the spinlock (__raw_spin_lock, __raw_spin_trylock).
THEOREM SpinExclusiveAlways == LocksSpec => []SpinExclusive
<1>1. SpinInv => SpinExclusive
  BY DEF SpinInv, TicketInv, Queued, SpinExclusive
<1> QED BY <1>1, SpinInit, SpinStep, PTL DEF LocksSpec

-----------------------------------------------------------------------------
(* Interrupts.                                                             *)

\* While interrupts are enabled on a CPU, neither its thread nor its handler
\* is at the spinlock; and a handler is nowhere else.
IrqInv ==
  /\ LocksTypeOK
  /\ \A h \in Handlers : pc[h] \in {"idle"} \cup SpinPcs
  /\ \A t \in Threads : irq[t] => pc[t] \notin SpinPcs
  /\ \A h \in Handlers : irq[Cpu[h]] => pc[h] = "idle"
  /\ IrqSafe

LEMMA IrqStep ==
  ASSUME IrqInv, [LocksNext]_locks_vars
  PROVE  IrqInv'
<1> USE LocksAssumption, Finite
<1>0. LocksTypeOK /\ LocksTypeOK'
  BY TypeStep DEF IrqInv
<1>1. ASSUME NEW t \in Threads, arch_irq_save(t) PROVE IrqInv'
  <2>1. /\ pc[t] = "idle" /\ pc' = [pc EXCEPT ![t] = "irqs_off"] /\ irq' = [irq EXCEPT ![t] = FALSE]
        /\ \A h \in Handlers : Cpu[h] = t => pc[h] = "idle"
    BY <1>1 DEF arch_irq_save, Goes, Runs
  <2> QED BY <1>0, <2>1 DEF IrqInv, IrqSafe, LocksTypeOK, SpinPcs
<1>2. ASSUME NEW h \in Handlers, Interrupt(h) PROVE IrqInv'
  <2>1. /\ irq[Cpu[h]] /\ pc[h] = "idle" /\ pc' = [pc EXCEPT ![h] = "irqs_off"]
        /\ irq' = [irq EXCEPT ![Cpu[h]] = FALSE]
    BY <1>2 DEF Interrupt
  <2> QED BY <1>0, <2>1 DEF IrqInv, IrqSafe, LocksTypeOK, SpinPcs
<1>3. ASSUME NEW c \in Contexts, SpinSteps(c) PROVE IrqInv'
  <2>1. CASE arch_irq_restore(c)
    <3>1. /\ pc[c] = "released" /\ pc' = [pc EXCEPT ![c] = "idle"] /\ irq' = Restored(c)
          /\ \A h \in Handlers : Cpu[h] = c => pc[h] = "idle"
      BY <2>1 DEF arch_irq_restore, Goes, Runs
    <3>2. CASE c \in Handlers
      <4>1. irq' = [irq EXCEPT ![Cpu[c]] = TRUE] /\ pc[Cpu[c]] \notin SpinPcs
        BY <3>1, <3>2 DEF Restored, IrqInv, IrqSafe
      <4> QED BY <1>0, <3>1, <3>2, <4>1 DEF IrqInv, IrqSafe, LocksTypeOK, SpinPcs
    <3>3. CASE c \in Threads
      <4>1. irq' = [irq EXCEPT ![c] = TRUE]
        BY <3>1, <3>3 DEF Restored
      <4> QED BY <1>0, <3>1, <3>3, <4>1 DEF IrqInv, IrqSafe, LocksTypeOK, SpinPcs
    <3> QED BY <3>2, <3>3 DEF Contexts
  <2>2. CASE ~arch_irq_restore(c)
    <3>1. irq' = irq /\ pc[c] \in SpinPcs /\ \E to \in SpinPcs : pc' = [pc EXCEPT ![c] = to]
      BY <1>3, <2>2 DEF SpinSteps, Draw, Served, __raw_spin_unlock, TryReadNext, TryReadOwner,
                        TrySwap, Goes, spinning, SpinPcs
    <3> QED BY <1>0, <3>1 DEF IrqInv, IrqSafe, LocksTypeOK, SpinPcs
  <2> QED BY <2>1, <2>2
<1>4. ASSUME NEW t \in Threads, OtherSteps(t) PROVE IrqInv'
  <2>1. PICK to \in {"idle"} \cup OtherPcs : pc' = [pc EXCEPT ![t] = to]
    BY <1>0, <1>4, OtherPlaces
  <2>2. irq' = irq /\ t \in Contexts /\ to \notin SpinPcs
    BY <1>4, <2>1, OtherUnchanged DEF SpinPcs, OtherPcs
  <2> QED BY <1>0, <2>1, <2>2 DEF IrqInv, IrqSafe, LocksTypeOK
<1>5. CASE UNCHANGED locks_vars
  BY <1>5 DEF locks_vars, IrqInv, IrqSafe, LocksTypeOK
<1> QED BY <1>1, <1>2, <1>3, <1>4, <1>5, NextSteps DEF IrqSteps

\* A handler never finds the thread it interrupted at the spinlock
\* (spin_lock_irqsave, spin_unlock_irqrestore).
THEOREM IrqSafeAlways == LocksSpec => []IrqSafe
<1>1. LocksInit => IrqInv
  BY TypeInit, Finite DEF LocksInit, IrqInv, IrqSafe, SpinPcs
<1>2. IrqInv => IrqSafe
  BY DEF IrqInv
<1> QED BY <1>1, <1>2, IrqStep, PTL DEF LocksSpec

-----------------------------------------------------------------------------
(* The locks that count.                                                   *)

\* Whatever step is taken, one context goes from one place to another; a step
\* that is not the mutex's changes neither its word nor who holds it, and so
\* for the other locks.
LEMMA OneMoves ==
  ASSUME LocksTypeOK, [LocksNext]_locks_vars
  PROVE  \/ UNCHANGED locks_vars
         \/ \E c \in Contexts, to \in {"idle"} \cup SpinPcs :
              /\ pc[c] \in {"idle"} \cup SpinPcs /\ pc' = [pc EXCEPT ![c] = to]
              /\ UNCHANGED others
         \/ \E t \in Threads : OtherSteps(t)
<1>1. CASE IrqSteps
  <2>1. PICK c \in Contexts :
          pc[c] = "idle" /\ pc' = [pc EXCEPT ![c] = "irqs_off"] /\ UNCHANGED others
    BY <1>1, Finite DEF IrqSteps, arch_irq_save, Interrupt, Goes, others
  <2> QED BY <2>1 DEF SpinPcs
<1>2. ASSUME NEW c \in Contexts, SpinSteps(c)
      PROVE  \E to \in {"idle"} \cup SpinPcs :
              /\ pc[c] \in {"idle"} \cup SpinPcs /\ pc' = [pc EXCEPT ![c] = to]
              /\ UNCHANGED others
  <2>1. UNCHANGED others
    BY <1>2 DEF SpinSteps, Draw, Served, __raw_spin_unlock, TryReadNext, TryReadOwner,
                TrySwap, arch_irq_restore, others
  <2>2. /\ pc[c] \in {"idle"} \cup SpinPcs
        /\ \E to \in {"idle"} \cup SpinPcs : pc' = [pc EXCEPT ![c] = to]
    BY <1>2 DEF SpinSteps, Draw, Served, __raw_spin_unlock, TryReadNext, TryReadOwner,
                TrySwap, arch_irq_restore, Goes, SpinPcs
  <2> QED BY <2>1, <2>2
<1> QED BY <1>1, <1>2, NextSteps

\* The mutex's word is 1 while it is held.
MutexInv ==
  /\ LocksTypeOK /\ MutexExclusive
  /\ \A t \in Threads : pc[t] = "mutex_held" => locked = 1

LEMMA MutexStep ==
  ASSUME MutexInv, [LocksNext]_locks_vars
  PROVE  MutexInv'
<1> USE Finite
<1>0. LocksTypeOK /\ LocksTypeOK'
  BY TypeStep DEF MutexInv
<1>1. CASE UNCHANGED locks_vars
  BY <1>1 DEF locks_vars, MutexInv, MutexExclusive, LocksTypeOK
<1>2. ASSUME NEW c \in Contexts, NEW to \in {"idle"} \cup SpinPcs,
             pc[c] \in {"idle"} \cup SpinPcs, pc' = [pc EXCEPT ![c] = to], UNCHANGED others
      PROVE  MutexInv'
  BY <1>0, <1>2 DEF MutexInv, MutexExclusive, LocksTypeOK, SpinPcs, others
<1>3. ASSUME NEW t \in Threads, Mutex(t) PROVE MutexInv'
  BY <1>0, <1>3 DEF Mutex, mutex_lock, MutexFree, mutex_trylock, mutex_unlock, Goes, others,
                    MutexInv, MutexExclusive, LocksTypeOK
<1>4. ASSUME NEW t \in Threads, Rwlock(t) \/ Semaphore(t) \/ Completion(t) PROVE MutexInv'
  <2>1. locked' = locked /\ pc[t] # "mutex_held" /\ pc'[t] # "mutex_held"
        /\ \A s \in Threads \ {t} : pc'[s] = pc[s]
    BY <1>0, <1>4 DEF Rwlock, ReadCount, ReadSwap, read_unlock, write_lock, write_unlock,
      Semaphore, DownRead, DownSwap, up, Completion, complete, complete_all,
      reinit_completion, WaitRead, WaitSwap, Goes, LocksTypeOK
  <2> QED BY <1>0, <2>1 DEF MutexInv, MutexExclusive
<1> QED BY <1>0, <1>1, <1>2, <1>3, <1>4, OneMoves DEF OtherSteps

\* At most one thread holds the mutex (mutex_lock, mutex_trylock).
THEOREM MutexExclusiveAlways == LocksSpec => []MutexExclusive
<1>1. LocksInit => MutexInv
  BY TypeInit, Finite DEF LocksInit, MutexInv, MutexExclusive
<1>2. MutexInv => MutexExclusive
  BY DEF MutexInv
<1> QED BY <1>1, <1>2, MutexStep, PTL DEF LocksSpec

\* The permits that are out are counted, when one thread takes or returns one.
LEMMA SemaStep ==
  ASSUME LocksTypeOK, PermitsConserved, [LocksNext]_locks_vars
  PROVE  PermitsConserved'
<1> USE Finite
<1> DEFINE Out  == {t \in Threads : pc[t] = "down_held"}
           Out2 == {t \in Threads : pc'[t] = "down_held"}
<1>0. /\ LocksTypeOK /\ LocksTypeOK' /\ count \in Int /\ count' \in Int
      /\ (PermitsConserved <=> count = SEMA - Cardinality(Out))
      /\ (PermitsConserved' <=> count' = SEMA - Cardinality(Out2))
  BY TypeStep DEF PermitsConserved, LocksTypeOK
<1>1. ASSUME count' = count, \A t \in Threads : pc[t] = "down_held" <=> pc'[t] = "down_held"
      PROVE  PermitsConserved'
  <2>1. Out = Out2
    BY <1>1
  <2> QED BY <1>0, <1>1, <2>1
<1>2. CASE UNCHANGED locks_vars
  BY <1>1, <1>2 DEF locks_vars
<1>3. ASSUME NEW c \in Contexts, NEW to \in {"idle"} \cup SpinPcs,
             pc[c] \in {"idle"} \cup SpinPcs, pc' = [pc EXCEPT ![c] = to], UNCHANGED others
      PROVE  PermitsConserved'
  BY <1>0, <1>1, <1>3 DEF LocksTypeOK, SpinPcs, others
<1>4. ASSUME NEW t \in Threads, Mutex(t) \/ Rwlock(t) \/ Completion(t) PROVE PermitsConserved'
  <2>1. count' = count /\ pc[t] # "down_held" /\ pc'[t] # "down_held"
        /\ \A s \in Threads \ {t} : pc'[s] = pc[s]
    BY <1>0, <1>4 DEF Mutex, mutex_lock, MutexFree, mutex_trylock, mutex_unlock,
      Rwlock, ReadCount, ReadSwap, read_unlock, write_lock, write_unlock,
      Completion, complete, complete_all, reinit_completion, WaitRead, WaitSwap, Goes, others,
      LocksTypeOK
  <2> QED BY <1>1, <2>1
<1>5. ASSUME NEW t \in Threads, Semaphore(t) PROVE PermitsConserved'
  <2>1. \A s \in Threads \ {t} : pc'[s] = pc[s]
    BY <1>0, <1>5 DEF Semaphore, DownRead, DownSwap, up, Goes, LocksTypeOK
  <2>2. /\ Cardinality(Out) \in Nat /\ Cardinality(Out2) \in Nat
        /\ pc[t] # "down_held" /\ pc'[t] # "down_held" => Cardinality(Out2) = Cardinality(Out)
        /\ pc[t] = "down_held" /\ pc'[t] # "down_held" => Cardinality(Out2) = Cardinality(Out) - 1
        /\ pc[t] # "down_held" /\ pc'[t] = "down_held" => Cardinality(Out2) = Cardinality(Out) + 1
    BY <2>1, CountMoves
  <2>3. \/ count' = count /\ pc[t] # "down_held" /\ pc'[t] # "down_held"
        \/ count' = count - 1 /\ pc[t] # "down_held" /\ pc'[t] = "down_held"
        \/ count' = count + 1 /\ pc[t] = "down_held" /\ pc'[t] # "down_held"
    <3>1. CASE DownRead(t)
      BY <1>0, <3>1 DEF DownRead, Goes, LocksTypeOK
    <3>2. CASE DownSwap(t)
      BY <1>0, <3>2 DEF DownSwap, LocksTypeOK
    <3>3. CASE up(t)
      BY <1>0, <3>3 DEF up, Goes, LocksTypeOK
    <3> QED BY <1>5, <3>1, <3>2, <3>3 DEF Semaphore
  <2> QED BY <1>0, <2>2, <2>3
<1> QED BY <1>2, <1>3, <1>4, <1>5, OneMoves DEF OtherSteps

\* No permit is lost or made (down, down_trylock, up).
THEOREM PermitsConservedAlways == LocksSpec => []PermitsConserved
<1>1. LocksInit => PermitsConserved
  <2>1. LocksInit => {t \in Threads : pc[t] = "down_held"} = {}
    BY Finite DEF LocksInit
  <2> QED BY <2>1, Finite, FS_EmptySet DEF LocksInit, PermitsConserved
<1> QED BY <1>1, LocksTypeCorrect, SemaStep, PTL DEF LocksSpec

\* A writer is alone and marks the word with -1; else the word is the number
\* of readers.  A reader about to swap has read a word without a writer.
Readers == {t \in Threads : pc[t] = "read_held"}
RwInv ==
  /\ LocksTypeOK
  /\ \A w, t \in Threads :
       pc[w] = "write_held" /\ pc[t] \in {"write_held", "read_held"} => w = t
  /\ \A w \in Threads : pc[w] = "write_held" => rw = -1
  /\ (\A w \in Threads : pc[w] # "write_held") => rw = Cardinality(Readers)
  /\ \A t \in Threads : pc[t] = "read_swap" => val[t] >= 0

\* A step that does not touch the word.
LEMMA RwSame ==
  ASSUME RwInv, LocksTypeOK', rw' = rw,
         \A t \in Threads : \/ pc'[t] = pc[t] /\ val'[t] = val[t]
                            \/ {pc[t], pc'[t]} \cap {"write_held", "read_held"} = {}
                               /\ (pc'[t] = "read_swap" => val'[t] >= 0)
  PROVE  RwInv'
<1>1. \A t \in Threads, p \in {"write_held", "read_held"} : pc'[t] = p <=> pc[t] = p
  OBVIOUS
<1>2. Readers' = Readers
  BY <1>1 DEF Readers
<1>3. \A w, t \in Threads :
        pc'[w] = "write_held" /\ pc'[t] \in {"write_held", "read_held"} => w = t
  BY <1>1 DEF RwInv
<1>4. \A t \in Threads : pc'[t] = "read_swap" => val'[t] >= 0
  BY DEF RwInv
<1> QED BY <1>1, <1>2, <1>3, <1>4 DEF RwInv

\* The read-write lock's own steps.
LEMMA RwOwnStep ==
  ASSUME RwInv, LocksTypeOK', NEW t \in Threads, Rwlock(t)
  PROVE  RwInv'
<1> USE Finite
<1>0. LocksTypeOK
  BY DEF RwInv
<1>1. \A s \in Threads \ {t} : pc'[s] = pc[s] /\ val'[s] = val[s]
  BY <1>0 DEF Rwlock, ReadCount, ReadSwap, read_unlock, write_lock, write_unlock, Goes, LocksTypeOK
<1>2. /\ Cardinality(Readers) \in Nat /\ Cardinality(Readers') \in Nat
      /\ (pc[t] = "read_held" <=> pc'[t] = "read_held") => Readers' = Readers
      /\ pc[t] = "read_held" /\ pc'[t] # "read_held" => Cardinality(Readers') = Cardinality(Readers) - 1
      /\ pc[t] # "read_held" /\ pc'[t] = "read_held" => Cardinality(Readers') = Cardinality(Readers) + 1
  BY <1>1, CountMoves DEF Readers
<1>3. CASE ReadCount(t) \/ (ReadSwap(t) /\ rw # val[t])
  <2>1. /\ rw' = rw /\ {pc[t], pc'[t]} \cap {"write_held", "read_held"} = {}
        /\ (pc'[t] = "read_swap" => val'[t] >= 0)
    BY <1>0, <1>3 DEF ReadCount, ReadSwap, Goes, LocksTypeOK
  <2> QED BY <1>1, <2>1, RwSame
<1>4. CASE ReadSwap(t) /\ rw = val[t]
  <2>1. /\ rw' = rw + 1 /\ pc[t] = "read_swap" /\ pc'[t] = "read_held" /\ rw \in Int
    BY <1>0, <1>4 DEF ReadSwap, LocksTypeOK
  <2>2. rw >= 0 /\ \A w \in Threads : pc[w] # "write_held" /\ pc'[w] # "write_held"
    BY <1>1, <1>4, <2>1 DEF RwInv
  <2>3. \A s \in Threads : pc'[s] = "read_swap" => val'[s] >= 0
    BY <1>1, <2>1 DEF RwInv
  <2> QED BY <1>2, <2>1, <2>2, <2>3 DEF RwInv
<1>5. CASE read_unlock(t)
  <2>1. /\ rw' = rw - 1 /\ pc[t] = "read_held" /\ pc'[t] = "idle" /\ rw \in Int
    BY <1>0, <1>5 DEF read_unlock, Goes, LocksTypeOK
  <2>2. \A w \in Threads : pc[w] # "write_held" /\ pc'[w] # "write_held"
    BY <1>1, <2>1 DEF RwInv
  <2>3. \A s \in Threads : pc'[s] = "read_swap" => val'[s] >= 0
    BY <1>1, <2>1 DEF RwInv
  <2> QED BY <1>2, <2>1, <2>2, <2>3 DEF RwInv
<1>6. CASE write_lock(t)
  <2>1. /\ rw = 0 /\ rw' = -1 /\ pc[t] = "idle" /\ pc'[t] = "write_held"
    BY <1>0, <1>6 DEF write_lock, Goes, LocksTypeOK
  <2>2. \A w \in Threads : pc[w] # "write_held"
    BY <2>1 DEF RwInv
  <2>3. Readers = {}
    <3>1. IsFiniteSet(Readers)
      BY FS_Subset DEF Readers
    <3> QED BY <2>1, <2>2, <3>1, FS_EmptySet DEF RwInv
  <2>4. \A s \in Threads : pc[s] \notin {"write_held", "read_held"}
    BY <2>2, <2>3 DEF Readers
  <2>5. \A s \in Threads : pc'[s] = "read_swap" => val'[s] >= 0
    BY <1>1, <2>1 DEF RwInv
  <2> QED BY <1>1, <2>1, <2>4, <2>5 DEF RwInv
<1>7. CASE write_unlock(t)
  <2>1. /\ rw' = 0 /\ pc[t] = "write_held" /\ pc'[t] = "idle"
    BY <1>0, <1>7 DEF write_unlock, Goes, LocksTypeOK
  <2>2. \A s \in Threads : pc'[s] \notin {"write_held", "read_held"}
    BY <1>1, <2>1 DEF RwInv
  <2>3. Readers' = {} /\ Cardinality({}) = 0
    BY <2>2, FS_EmptySet DEF Readers
  <2>4. \A s \in Threads : pc'[s] = "read_swap" => val'[s] >= 0
    BY <1>1, <2>1 DEF RwInv
  <2> QED BY <2>1, <2>2, <2>3, <2>4 DEF RwInv
<1> QED BY <1>3, <1>4, <1>5, <1>6, <1>7 DEF Rwlock

LEMMA RwStep ==
  ASSUME RwInv, [LocksNext]_locks_vars
  PROVE  RwInv'
<1> USE Finite
<1>0. LocksTypeOK /\ LocksTypeOK'
  BY TypeStep DEF RwInv
<1>1. CASE UNCHANGED locks_vars
  BY <1>0, <1>1, RwSame DEF locks_vars
<1>2. ASSUME NEW c \in Contexts, NEW to \in {"idle"} \cup SpinPcs,
             pc[c] \in {"idle"} \cup SpinPcs, pc' = [pc EXCEPT ![c] = to], UNCHANGED others
      PROVE  RwInv'
  BY <1>0, <1>2, RwSame DEF LocksTypeOK, SpinPcs, others
<1>3. ASSUME NEW t \in Threads, Mutex(t) \/ Semaphore(t) \/ Completion(t) PROVE RwInv'
  <2>1. /\ rw' = rw /\ \A s \in Threads \ {t} : pc'[s] = pc[s] /\ val'[s] = val[s]
        /\ pc[t] \notin {"write_held", "read_held"}
        /\ pc'[t] \notin {"write_held", "read_held", "read_swap"}
    BY <1>0, <1>3 DEF Mutex, mutex_lock, MutexFree, mutex_trylock, mutex_unlock,
      Semaphore, DownRead, DownSwap, up,
      Completion, complete, complete_all, reinit_completion, WaitRead, WaitSwap, Goes, others,
      LocksTypeOK
  <2> QED BY <1>0, <2>1, RwSame
<1> QED BY <1>0, <1>1, <1>2, <1>3, OneMoves, RwOwnStep DEF OtherSteps

\* Readers exclude a writer, a writer everyone (read_lock, write_lock).
THEOREM ReadersWriterAlways == LocksSpec => []ReadersWriter
<1>1. LocksInit => RwInv
  <2>1. LocksInit => Readers = {}
    BY Finite DEF LocksInit, Readers
  <2> QED BY <2>1, TypeInit, Finite, FS_EmptySet DEF LocksInit, RwInv
<1>2. RwInv => ReadersWriter
  BY DEF RwInv, ReadersWriter, Readers
<1> QED BY <1>1, <1>2, RwStep, PTL DEF LocksSpec

\* The completion's word is 0, 1 or the mark of complete_all, and whoever is
\* about to swap it has read 1.
DoneInv ==
  /\ LocksTypeOK /\ SignalOnce /\ done \in {-1, 0, 1} /\ owed >= 0
  /\ \A t \in Threads : pc[t] = "wait_swap" => val[t] = 1

LEMMA DoneStep ==
  ASSUME DoneInv, [LocksNext]_locks_vars
  PROVE  DoneInv'
<1> USE Finite
<1>0. LocksTypeOK /\ LocksTypeOK'
  BY TypeStep DEF DoneInv
<1>1. CASE UNCHANGED locks_vars
  BY <1>0, <1>1 DEF locks_vars, DoneInv, SignalOnce
<1>2. ASSUME NEW c \in Contexts, NEW to \in {"idle"} \cup SpinPcs,
             pc[c] \in {"idle"} \cup SpinPcs, pc' = [pc EXCEPT ![c] = to], UNCHANGED others
      PROVE  DoneInv'
  BY <1>0, <1>2 DEF LocksTypeOK, SpinPcs, others, DoneInv, SignalOnce
<1>3. ASSUME NEW t \in Threads, Mutex(t) \/ Rwlock(t) \/ Semaphore(t) PROVE DoneInv'
  <2>1. /\ done' = done /\ owed' = owed /\ pc'[t] # "wait_swap"
        /\ \A s \in Threads \ {t} : pc'[s] = pc[s] /\ val'[s] = val[s]
    BY <1>0, <1>3 DEF Mutex, mutex_lock, MutexFree, mutex_trylock, mutex_unlock,
      Rwlock, ReadCount, ReadSwap, read_unlock, write_lock, write_unlock,
      Semaphore, DownRead, DownSwap, up, Goes, others, LocksTypeOK
  <2> QED BY <1>0, <2>1 DEF DoneInv, SignalOnce
<1>4. ASSUME NEW t \in Threads, Completion(t) PROVE DoneInv'
  <2>1. CASE complete(t) \/ complete_all(t) \/ reinit_completion(t)
    BY <1>0, <2>1 DEF complete, complete_all, reinit_completion, DoneInv, SignalOnce, LocksTypeOK
  <2>2. CASE WaitRead(t)
    BY <1>0, <2>2 DEF WaitRead, Goes, DoneInv, SignalOnce, LocksTypeOK
  <2>3. CASE WaitSwap(t)
    BY <1>0, <2>3 DEF WaitSwap, Goes, DoneInv, SignalOnce, LocksTypeOK
  <2> QED BY <1>4, <2>1, <2>2, <2>3 DEF Completion
<1> QED BY <1>0, <1>1, <1>2, <1>3, <1>4, OneMoves DEF OtherSteps

\* A call of complete ends at most one wait (complete, wait_for_completion).
THEOREM SignalOnceAlways == LocksSpec => []SignalOnce
<1>1. LocksInit => DoneInv
  BY TypeInit, Finite DEF LocksInit, DoneInv, SignalOnce
<1>2. DoneInv => SignalOnce
  BY DEF DoneInv
<1> QED BY <1>1, <1>2, DoneStep, PTL DEF LocksSpec

\* Readers exclude a writer, the mutex has one holder, and permits out and left
\* add up (read_lock to up), always.
THEOREM WordsCountHoldersAlways == LocksSpec => []WordsCountHolders
<1>1. ReadersWriter /\ MutexExclusive /\ PermitsConserved => WordsCountHolders
  BY DEF WordsCountHolders
<1> QED BY <1>1, ReadersWriterAlways, MutexExclusiveAlways, PermitsConservedAlways, PTL

-----------------------------------------------------------------------------
(* The heap.                                                               *)

Header == [size : Nat, used : BOOLEAN, next : Int, prev : Int]

\* The list of headers b is sound.
Sound(b) ==
  /\ DOMAIN b \subseteq Nat /\ b \in [DOMAIN b -> Header] /\ 0 \in DOMAIN b
  /\ \A a \in DOMAIN b :
       /\ b[a].next = NoBlock => End(b, a) = HEAP_WORDS
       /\ b[a].next # NoBlock => /\ b[a].next = End(b, a) /\ b[a].next \in DOMAIN b
                                 /\ b[b[a].next].prev = a
       /\ a = 0 => b[a].prev = NoBlock
       /\ a # 0 => b[a].prev \in DOMAIN b /\ b[b[a].prev].next = a
  /\ \A a, c \in DOMAIN b : a < c => End(b, a) <= c

\* No free block is followed by a free block.
Joined(b) == \A x \in DOMAIN b : Free(b, x) => ~Free(b, b[x].next)

UsedIn(b) == {x \in DOMAIN b : b[x].used}

-----------------------------------------------------------------------------
(* Allocation.                                                             *)

LEMMA Sizes ==
  /\ HEADER \in Nat \ {0} /\ MIN_BLOCK_SIZE \in Nat /\ HEAP_WORDS \in Nat
  /\ MIN_BLOCK_SIZE > HEADER /\ HEAP_WORDS > HEADER
  /\ ALIGNMENT \in Nat \ {0} /\ NoBlock = -1
BY HeapAssumption DEF NoBlock

LEMMA AlignSize ==
  ASSUME NEW n \in Nat
  PROVE  align_size(n) \in Nat /\ align_size(n) >= n
BY Sizes DEF align_size

LEMMA SoundBlocks ==
  ASSUME NEW b, Sound(b), NEW x \in DOMAIN b
  PROVE  /\ x \in Nat /\ b[x] \in Header
         /\ b[x].size \in Nat /\ b[x].used \in BOOLEAN /\ b[x].next \in Int /\ b[x].prev \in Int
         /\ End(b, x) \in Nat /\ End(b, x) = x + HEADER + b[x].size /\ x < End(b, x)
<1>1. x \in Nat /\ b[x] \in Header
  BY DEF Sound
<1>2. b[x].size \in Nat /\ b[x].used \in BOOLEAN /\ b[x].next \in Int /\ b[x].prev \in Int
  BY <1>1 DEF Header
<1> QED BY <1>1, <1>2, Sizes DEF End

LEMMA SoundLinks ==
  ASSUME NEW b, Sound(b), NEW x \in DOMAIN b
  PROVE  /\ b[x].next = NoBlock => End(b, x) = HEAP_WORDS
         /\ b[x].next # NoBlock => /\ b[x].next = End(b, x) /\ b[x].next \in DOMAIN b
                                   /\ b[b[x].next].prev = x
         /\ x = 0 => b[x].prev = NoBlock
         /\ x # 0 => b[x].prev \in DOMAIN b /\ b[b[x].prev].next = x
BY DEF Sound

\* The used flag of a block is no part of the list's soundness.
LEMMA SameLinks ==
  ASSUME NEW b, Sound(b), NEW r, r \in [DOMAIN b -> Header],
         \A x \in DOMAIN b : /\ r[x].size = b[x].size /\ r[x].next = b[x].next
                             /\ r[x].prev = b[x].prev
  PROVE  Sound(r)
<1>1. DOMAIN r = DOMAIN b
  OBVIOUS
<1>2. DOMAIN r \subseteq Nat /\ 0 \in DOMAIN r
  BY <1>1 DEF Sound
<1>3. \A x \in DOMAIN b : End(r, x) = End(b, x)
  BY DEF End
<1>4. \A x \in DOMAIN r :
        /\ r[x].next = NoBlock => End(r, x) = HEAP_WORDS
        /\ r[x].next # NoBlock => /\ r[x].next = End(r, x) /\ r[x].next \in DOMAIN r
                                  /\ r[r[x].next].prev = x
        /\ x = 0 => r[x].prev = NoBlock
        /\ x # 0 => r[x].prev \in DOMAIN r /\ r[r[x].prev].next = x
  BY <1>1, <1>3, SoundLinks
<1>5. \A x, y \in DOMAIN r : x < y => End(r, x) <= y
  BY <1>1, <1>3 DEF Sound
<1> QED BY <1>1, <1>2, <1>4, <1>5 DEF Sound

\* A split leaves a sound list, in which a has shrunk to at least n.
LEMMA SplitSound ==
  ASSUME NEW b, Sound(b), NEW a \in DOMAIN b, NEW n \in Nat, b[a].size >= n
  PROVE  /\ Sound(split_block(b, a, n))
         /\ DOMAIN b \subseteq DOMAIN split_block(b, a, n)
         /\ split_block(b, a, n)[a].size >= n
         /\ \A x \in DOMAIN b \ {a} : /\ split_block(b, a, n)[x].size = b[x].size
                                      /\ split_block(b, a, n)[x].used = b[x].used
                                      /\ split_block(b, a, n)[x].next = b[x].next
         /\ split_block(b, a, n)[a].used = b[a].used
         /\ \A x \in DOMAIN split_block(b, a, n) \ DOMAIN b :
              /\ ~split_block(b, a, n)[x].used /\ split_block(b, a, n)[a].next = x
              /\ split_block(b, a, n)[x].next = b[a].next
         /\ \/ split_block(b, a, n) = b
            \/ split_block(b, a, n)[a].next \notin DOMAIN b
<1> DEFINE r == split_block(b, a, n)
           new == a + HEADER + n
           succ == b[a].next
<1>0. /\ b[a] \in Header /\ b[a].size \in Nat /\ succ \in Int /\ b[a].prev \in Int
      /\ b[a].used \in BOOLEAN /\ a \in Nat
      /\ End(b, a) \in Nat /\ End(b, a) = a + HEADER + b[a].size
  BY SoundBlocks
<1>1. CASE b[a].size + HEADER < n + HEADER + MIN_BLOCK_SIZE
  BY <1>1 DEF split_block
<1>2. CASE ~(b[a].size + HEADER < n + HEADER + MIN_BLOCK_SIZE)
  <2> DEFINE rest == [size |-> b[a].size - n - HEADER, used |-> FALSE, next |-> succ, prev |-> a]
  <2>1. r = [x \in DOMAIN b \cup {new} |->
               CASE x = new  -> rest
                 [] x = a    -> [b[a] EXCEPT !.size = n, !.next = new]
                 [] x = succ -> [b[x] EXCEPT !.prev = new]
                 [] OTHER    -> b[x]]
    BY <1>2 DEF split_block
  <2>2. /\ rest.size \in Nat /\ new \in Nat /\ a < new /\ new # NoBlock
        /\ new + HEADER + rest.size = End(b, a) /\ new < End(b, a)
    BY <1>0, <1>2, Sizes DEF End
  <2>3. new \notin DOMAIN b
    <3>1. \A c \in DOMAIN b : a < c => End(b, a) <= c
      BY DEF Sound
    <3> QED BY <3>1, <2>2, <1>0
  <2>4. succ # a /\ new # a /\ new # succ
    <3>1. succ # a
      <4>1. succ # NoBlock => succ = End(b, a)
        BY DEF Sound
      <4> QED BY <4>1, <1>0, Sizes
    <3>2. succ = NoBlock \/ succ \in DOMAIN b
      BY DEF Sound
    <3> QED BY <3>1, <3>2, <2>2, <2>3, <1>0
  <2>5. rest \in Header
    BY <1>0, <2>2 DEF Header
  <2> HIDE DEF new, succ, rest
  <2>6. DOMAIN r = DOMAIN b \cup {new} /\ r[new] = rest
    BY <2>1, <2>4
  <2>7. r[a] = [b[a] EXCEPT !.size = n, !.next = new]
    BY <2>1, <2>4
  <2>8. succ \in DOMAIN b => r[succ] = [b[succ] EXCEPT !.prev = new]
    BY <2>1, <2>3, <2>4
  <2>9. \A x \in DOMAIN b : x # a /\ x # succ => r[x] = b[x]
    BY <2>1, <2>3, <2>4
  <2> HIDE DEF r
  <2>10. /\ r[a].size = n /\ r[a].next = new /\ r[a].prev = b[a].prev /\ r[a].used = b[a].used
         /\ r[a] \in Header
    <3> DEFINE q == b[a]
    <3>1. r[a] = [q EXCEPT !.size = n, !.next = new] /\ q \in Header /\ new \in Int
      BY <2>7, <1>0, <2>2
    <3> HIDE DEF q
    <3>2. /\ r[a].size = n /\ r[a].next = new /\ r[a].prev = q.prev /\ r[a].used = q.used
          /\ r[a] \in Header
      BY <3>1 DEF Header
    <3> QED BY <3>2 DEF q
  <2>11. succ \in DOMAIN b => /\ r[succ].size = b[succ].size /\ r[succ].next = b[succ].next
                              /\ r[succ].used = b[succ].used /\ r[succ].prev = new
                              /\ r[succ] \in Header
    BY <2>8, <2>2 DEF Header, Sound
  <2>12. /\ r[new].size = b[a].size - n - HEADER /\ ~r[new].used /\ r[new].next = succ
         /\ r[new].prev = a /\ r[new] \in Header
    BY <2>5, <2>6 DEF rest
  <2>13. \A x \in DOMAIN b : x # a => /\ r[x].size = b[x].size /\ r[x].used = b[x].used
                                      /\ r[x].next = b[x].next /\ End(r, x) = End(b, x)
    BY <2>9, <2>11 DEF End
  <2>14. End(r, a) = new /\ End(r, new) = End(b, a)
    <3>1. End(r, a) = a + HEADER + n /\ End(r, new) = new + HEADER + (b[a].size - n - HEADER)
      BY <2>10, <2>12 DEF End
    <3> QED BY <3>1, <1>0, Sizes DEF new
  <2>15. r \in [DOMAIN r -> Header]
    <3>1. \A x \in DOMAIN r : r[x] \in Header
      BY <2>6, <2>9, <2>10, <2>11, <2>12 DEF Sound
    <3>2. r = [x \in DOMAIN r |-> r[x]]
      BY <2>1, <2>6
    <3> QED BY <3>1, <3>2
  <2>16. DOMAIN r \subseteq Nat /\ 0 \in DOMAIN r
    BY <2>6, <2>2 DEF Sound
  <2>17. ASSUME NEW x \in DOMAIN r
         PROVE  /\ r[x].next = NoBlock => End(r, x) = HEAP_WORDS
                /\ r[x].next # NoBlock => /\ r[x].next = End(r, x) /\ r[x].next \in DOMAIN r
                                          /\ r[r[x].next].prev = x
    <3>1. CASE x = a
      BY <3>1, <2>10, <2>12, <2>14, <2>6, <2>2
    <3>2. CASE x = new
      BY <3>2, <2>12, <2>14, <2>6, <2>11 DEF Sound, succ
    <3>3. CASE x # a /\ x # new
      <4>1. x \in DOMAIN b
        BY <3>3, <2>6
      <4> DEFINE y == b[x].next
      <4>2. /\ y = NoBlock => End(b, x) = HEAP_WORDS
            /\ y # NoBlock => y = End(b, x) /\ y \in DOMAIN b /\ b[y].prev = x
        BY <4>1, SoundLinks
      <4>3. r[x].next = y /\ End(r, x) = End(b, x)
        BY <4>1, <3>3, <2>13
      <4>4. ASSUME y # NoBlock
            PROVE  r[y].prev = x
        <5>1. y # succ
          <6>1. succ \in DOMAIN b => succ = NoBlock \/ b[succ].prev = a
            BY SoundLinks DEF succ
          <6> QED BY <6>1, <4>2, <4>4, <3>3, <2>2
        <5>2. CASE y = a
          BY <5>2, <4>2, <4>4, <2>10
        <5>3. CASE y # a
          BY <5>1, <5>3, <4>2, <4>4, <2>9
        <5> QED BY <5>2, <5>3
      <4> HIDE DEF y
      <4> QED BY <4>2, <4>3, <4>4, <2>6
    <3> QED BY <3>1, <3>2, <3>3
  <2>18. ASSUME NEW x \in DOMAIN r
         PROVE  /\ x = 0 => r[x].prev = NoBlock
                /\ x # 0 => r[x].prev \in DOMAIN r /\ r[r[x].prev].next = x
    <3>1. CASE x = new
      BY <3>1, <2>12, <2>10, <2>6, <2>2, <1>0
    <3>2. CASE x = succ /\ x # new
      <4>1. x \in DOMAIN b /\ x # 0 /\ b[x].prev = a
        <5>1. x \in DOMAIN b
          BY <3>2, <2>6
        <5>2. x = End(b, a) /\ b[x].prev = a
          BY <5>1, <3>2, SoundLinks, SoundBlocks, Sizes DEF succ
        <5> QED BY <5>1, <5>2, <1>0, Sizes
      <4> QED BY <4>1, <3>2, <2>11, <2>12, <2>6
    <3>3. CASE x = a
      <4>1. a # 0 => b[a].prev \in DOMAIN b /\ b[b[a].prev].next = a
        BY DEF Sound
      <4>2. a # 0 => b[a].prev # a
        BY <4>1, <2>4 DEF succ
      <4> QED BY <3>3, <4>1, <4>2, <2>10, <2>13, <2>6 DEF Sound
    <3>4. CASE x # new /\ x # succ /\ x # a
      <4>1. x \in DOMAIN b /\ r[x] = b[x]
        BY <3>4, <2>6, <2>9
      <4>2. x # 0 => b[x].prev \in DOMAIN b /\ b[b[x].prev].next = x /\ b[x].prev # a
        BY <4>1, <3>4, SoundLinks DEF succ
      <4>3. x = 0 => b[x].prev = NoBlock
        BY <4>1, SoundLinks
      <4> QED BY <4>1, <4>2, <4>3, <2>13, <2>6
    <3> QED BY <3>1, <3>2, <3>3, <3>4
  <2>19. ASSUME NEW x \in DOMAIN r, NEW y \in DOMAIN r, x < y
         PROVE  End(r, x) <= y
    <3>0. /\ \A z \in DOMAIN b : End(b, z) \in Nat /\ z \in Nat /\ z < End(b, z)
          /\ new \in Nat
      BY <2>2, SoundBlocks
    <3>1. CASE x # a /\ x # new /\ y # new
      BY <3>1, <2>19, <2>6, <2>13 DEF Sound
    <3>2. CASE x # a /\ x # new /\ y = new
      <4>1. x \in DOMAIN b /\ x < End(b, a)
        BY <3>2, <2>19, <2>6, <2>2, <3>0
      <4>2. x < a
        BY <4>1, <3>2, <3>0 DEF Sound
      <4> QED BY <4>1, <4>2, <3>2, <3>0, <2>13, <2>2 DEF Sound
    <3>3. CASE x = a /\ y # new
      BY <3>3, <2>19, <2>6, <2>14, <2>2, <3>0 DEF Sound
    <3>4. CASE x = a /\ y = new
      BY <3>4, <2>14, <2>2
    <3>5. CASE x = new /\ y # new
      BY <3>5, <2>19, <2>6, <2>14, <2>2, <3>0 DEF Sound
    <3>6. CASE x = new /\ y = new
      BY <3>6, <2>19, <2>2
    <3> QED BY <3>1, <3>2, <3>3, <3>4, <3>5, <3>6
  <2>20. Sound(r)
    BY <2>15, <2>16, <2>17, <2>18, <2>19 DEF Sound
  <2> QED BY <2>20, <2>3, <2>6, <2>10, <2>12, <2>13 DEF r, succ
<1> QED BY <1>1, <1>2

\* Joining p with the block that follows it leaves a sound list.
LEMMA AbsorbSound ==
  ASSUME NEW b, Sound(b), NEW p \in DOMAIN b, NEW q \in DOMAIN b, b[p].next = q
  PROVE  /\ Sound(Absorb(b, p, q)) /\ DOMAIN Absorb(b, p, q) = DOMAIN b \ {q}
         /\ p # q /\ q # 0 /\ b[q].next # p /\ b[q].next # q
         /\ Absorb(b, p, q)[p].used = b[p].used /\ Absorb(b, p, q)[p].next = b[q].next
         /\ Absorb(b, p, q)[p].prev = b[p].prev
         /\ \A x \in DOMAIN b \ {p, q} : /\ Absorb(b, p, q)[x].size = b[x].size
                                         /\ Absorb(b, p, q)[x].used = b[x].used
                                         /\ Absorb(b, p, q)[x].next = b[x].next
<1> DEFINE r == Absorb(b, p, q)
           succ == b[q].next
           whole == [b[p] EXCEPT !.size = @ + b[q].size + HEADER, !.next = succ]
<1>1. r = [x \in DOMAIN b \ {q} |-> CASE x = p    -> whole
                                     [] x = succ -> [b[x] EXCEPT !.prev = p]
                                     [] OTHER    -> b[x]]
  BY DEF Absorb
<1>2. /\ p \in Nat /\ q \in Nat /\ q = End(b, p) /\ End(b, q) \in Nat
      /\ p < q /\ q < End(b, q) /\ b[q].prev = p
      /\ End(b, q) = p + HEADER + b[p].size + HEADER + b[q].size
      /\ b[p].size \in Nat /\ b[q].size \in Nat
  <2>1. q # NoBlock
    BY SoundBlocks, Sizes
  <2> QED BY <2>1, SoundBlocks, SoundLinks, Sizes
<1>3. /\ succ = NoBlock => End(b, q) = HEAP_WORDS
      /\ succ # NoBlock => succ = End(b, q) /\ succ \in DOMAIN b /\ b[succ].prev = q
      /\ succ # p /\ succ # q /\ succ # 0 /\ succ \in Int
  <2>1. /\ succ = NoBlock => End(b, q) = HEAP_WORDS
        /\ succ # NoBlock => succ = End(b, q) /\ succ \in DOMAIN b /\ b[succ].prev = q
    BY SoundLinks
  <2> QED BY <2>1, <1>2, Sizes
<1>4. /\ whole \in Header /\ whole.used = b[p].used /\ whole.next = succ /\ whole.prev = b[p].prev
      /\ whole.size = b[p].size + b[q].size + HEADER
  <2> DEFINE s == b[p].size + b[q].size + HEADER
             o == b[p]
  <2>1. s \in Nat /\ o \in Header /\ whole = [o EXCEPT !.size = s, !.next = succ] /\ succ \in Int
    BY <1>2, <1>3, SoundBlocks, Sizes
  <2> HIDE DEF s, o, succ, whole
  <2>2. /\ whole \in Header /\ whole.used = o.used /\ whole.next = succ /\ whole.prev = o.prev
        /\ whole.size = s
    BY <2>1 DEF Header
  <2> QED BY <2>2 DEF s, o
<1> HIDE DEF whole, succ
<1>5. DOMAIN r = DOMAIN b \ {q} /\ r[p] = whole
  BY <1>1, <1>2, <1>3
<1>6. succ \in DOMAIN b => r[succ] = [b[succ] EXCEPT !.prev = p]
  BY <1>1, <1>3
<1>7. \A x \in DOMAIN b \ {p, q} : x # succ => r[x] = b[x]
  BY <1>1
<1> HIDE DEF r
<1>8. succ \in DOMAIN b => /\ r[succ].size = b[succ].size /\ r[succ].next = b[succ].next
                           /\ r[succ].used = b[succ].used /\ r[succ].prev = p
                           /\ r[succ] \in Header
  <2> DEFINE o == b[succ]
  <2>1. SUFFICES ASSUME succ \in DOMAIN b
                 PROVE  /\ r[succ].size = o.size /\ r[succ].next = o.next
                        /\ r[succ].used = o.used /\ r[succ].prev = p /\ r[succ] \in Header
    OBVIOUS
  <2>2. o \in Header /\ r[succ] = [o EXCEPT !.prev = p] /\ p \in Int
    BY <2>1, <1>6, <1>2, SoundBlocks
  <2> HIDE DEF o
  <2> QED BY <2>2 DEF Header
<1>9. \A x \in DOMAIN b \ {p, q} : /\ r[x].size = b[x].size /\ r[x].used = b[x].used
                                   /\ r[x].next = b[x].next /\ End(r, x) = End(b, x)
  BY <1>7, <1>8 DEF End
<1>10. End(r, p) = End(b, q)
  <2>1. End(r, p) = p + HEADER + (b[p].size + b[q].size + HEADER)
    BY <1>5, <1>4 DEF End
  <2> QED BY <2>1, <1>2, Sizes
<1>11. r \in [DOMAIN r -> Header] /\ DOMAIN r \subseteq Nat /\ 0 \in DOMAIN r
  <2>1. \A x \in DOMAIN r : r[x] \in Header /\ x \in Nat
    BY <1>4, <1>5, <1>7, <1>8, SoundBlocks
  <2>2. r = [x \in DOMAIN r |-> r[x]]
    BY <1>1, <1>5
  <2>3. 0 \in DOMAIN b /\ q # 0
    BY <1>2 DEF Sound
  <2> QED BY <2>1, <2>2, <2>3, <1>5
<1>12. ASSUME NEW x \in DOMAIN r
       PROVE  /\ r[x].next = NoBlock => End(r, x) = HEAP_WORDS
              /\ r[x].next # NoBlock => /\ r[x].next = End(r, x) /\ r[x].next \in DOMAIN r
                                        /\ r[r[x].next].prev = x
  <2>1. CASE x = p
    BY <2>1, <1>3, <1>4, <1>5, <1>8, <1>10
  <2>2. CASE x # p
    <3> DEFINE y == b[x].next
    <3>1. x \in DOMAIN b /\ x # q
      BY <1>5
    <3>2. /\ y = NoBlock => End(b, x) = HEAP_WORDS
          /\ y # NoBlock => y = End(b, x) /\ y \in DOMAIN b /\ b[y].prev = x
      BY <3>1, SoundLinks
    <3>3. r[x].next = y /\ End(r, x) = End(b, x)
      BY <3>1, <2>2, <1>9
    <3>4. y # NoBlock => y # q /\ y # succ
      BY <3>1, <3>2, <2>2, <1>2, <1>3
    <3>5. y # NoBlock => r[y].prev = x
      <4>1. CASE y = p
        BY <4>1, <3>2, <1>4, <1>5
      <4>2. CASE y # p
        BY <4>2, <3>2, <3>4, <1>7
      <4> QED BY <4>1, <4>2
    <3> HIDE DEF y
    <3> QED BY <3>2, <3>3, <3>4, <3>5, <1>5
  <2> QED BY <2>1, <2>2
<1>13. ASSUME NEW x \in DOMAIN r
       PROVE  /\ x = 0 => r[x].prev = NoBlock
              /\ x # 0 => r[x].prev \in DOMAIN r /\ r[r[x].prev].next = x
  <2> DEFINE z == b[x].prev
  <2>1. x \in DOMAIN b /\ x # q
    BY <1>5
  <2>2. /\ x = 0 => z = NoBlock
        /\ x # 0 => z \in DOMAIN b /\ b[z].next = x
    BY <2>1, SoundLinks
  <2>3. CASE x = succ
    <3>1. r[x].prev = p /\ x # 0
      BY <2>3, <2>1, <1>3, <1>8
    <3>2. r[p].next = x /\ p \in DOMAIN r
      BY <2>3, <1>2, <1>4, <1>5
    <3> QED BY <3>1, <3>2
  <2>4. CASE x # succ
    <3>1. r[x].prev = z
      BY <2>1, <2>4, <1>4, <1>5, <1>7
    <3>2. x # 0 => z # q /\ z # p
      BY <2>1, <2>2, <2>4 DEF succ
    <3>3. x # 0 => r[z].next = x
      BY <2>2, <3>2, <1>9
    <3> HIDE DEF z
    <3> QED BY <2>2, <3>1, <3>2, <3>3, <1>5
  <2> QED BY <2>3, <2>4
<1>14. ASSUME NEW x \in DOMAIN r, NEW y \in DOMAIN r, x < y
       PROVE  End(r, x) <= y
  <2>1. x \in DOMAIN b /\ y \in DOMAIN b /\ x \in Nat /\ y \in Nat /\ y # q
    BY <1>5, SoundBlocks
  <2>2. \A c, d \in DOMAIN b : c < d => End(b, c) <= d
    BY DEF Sound
  <2>3. CASE x = p
    BY <2>1, <2>2, <2>3, <1>14, <1>10, <1>2
  <2>4. CASE x # p
    BY <2>1, <2>2, <2>4, <1>14, <1>9, <1>5
  <2> QED BY <2>3, <2>4
<1>15. Sound(r)
  BY <1>11, <1>12, <1>13, <1>14 DEF Sound
<1> QED BY <1>15, <1>2, <1>3, <1>4, <1>5, <1>9 DEF r, succ

-----------------------------------------------------------------------------
(* What an allocation and a release do to a sound list whose free blocks are *)
(* joined.                                                                   *)

\* r has the used blocks of b, and a, which was free and has room for n.
LEMMA AllocatedSound ==
  ASSUME NEW b, Sound(b), Joined(b), NEW a \in DOMAIN b, ~b[a].used, NEW n \in Nat,
         b[a].size >= align_size(n)
  PROVE  /\ Sound(Allocated(b, a, n)) /\ Joined(Allocated(b, a, n))
         /\ UsedIn(Allocated(b, a, n)) = UsedIn(b) \cup {a}
         /\ Allocated(b, a, n)[a].size >= n
         /\ \A x \in UsedIn(b) : Allocated(b, a, n)[x].size = b[x].size
<1> DEFINE s == split_block(b, a, align_size(n))
           r == Allocated(b, a, n)
<1>0. align_size(n) \in Nat /\ align_size(n) >= n
  BY AlignSize
<1>1. /\ Sound(s) /\ DOMAIN b \subseteq DOMAIN s /\ s[a].size >= align_size(n)
      /\ \A x \in DOMAIN b \ {a} :
           s[x].size = b[x].size /\ s[x].used = b[x].used /\ s[x].next = b[x].next
      /\ s[a].used = b[a].used
      /\ \A x \in DOMAIN s \ DOMAIN b :
           ~s[x].used /\ s[a].next = x /\ s[x].next = b[a].next
      /\ s = b \/ s[a].next \notin DOMAIN b
  BY <1>0, SplitSound
<1>2. r = [s EXCEPT ![a].used = TRUE]
  BY DEF Allocated
<1> HIDE DEF s, r
<1>3. /\ DOMAIN r = DOMAIN s /\ a \in DOMAIN s
      /\ r \in [DOMAIN s -> Header]
      /\ \A x \in DOMAIN s : r[x].size = s[x].size /\ r[x].next = s[x].next /\ r[x].prev = s[x].prev
      /\ r[a].used = TRUE /\ \A x \in DOMAIN s \ {a} : r[x].used = s[x].used
  <2> DEFINE o == s[a]
  <2>1. a \in DOMAIN s /\ o \in Header
    BY <1>1, SoundBlocks
  <2>2. /\ DOMAIN r = DOMAIN s /\ r[a] = [o EXCEPT !.used = TRUE]
        /\ r = [x \in DOMAIN s |-> r[x]] /\ \A x \in DOMAIN s \ {a} : r[x] = s[x]
    <3>1. r = [x \in DOMAIN s |-> IF x = a THEN [s[a] EXCEPT !.used = TRUE] ELSE s[x]]
      BY <1>2
    <3> QED BY <3>1, <2>1
  <2> HIDE DEF o
  <2>3. /\ r[a].size = o.size /\ r[a].next = o.next /\ r[a].prev = o.prev /\ r[a].used = TRUE
        /\ r[a] \in Header
    BY <2>1, <2>2 DEF Header
  <2>4. \A x \in DOMAIN s : r[x].size = s[x].size /\ r[x].next = s[x].next /\ r[x].prev = s[x].prev
    BY <2>2, <2>3 DEF o
  <2>5. \A x \in DOMAIN s : r[x] \in Header
    BY <1>1, <2>2, <2>3, SoundBlocks
  <2> QED BY <2>1, <2>2, <2>3, <2>4, <2>5
<1>4. Sound(r)
  BY <1>1, <1>3, SameLinks
<1>5. \A x \in DOMAIN b : r[x].used <=> x = a \/ b[x].used
  BY <1>1, <1>3
<1>6. \A x \in DOMAIN r \ DOMAIN b : ~r[x].used
  BY <1>1, <1>3
<1>7. UsedIn(r) = UsedIn(b) \cup {a}
  BY <1>1, <1>3, <1>5, <1>6 DEF UsedIn
<1>8. Joined(r)
  <2> SUFFICES ASSUME NEW x \in DOMAIN r, Free(r, x), Free(r, r[x].next)
               PROVE  FALSE
    BY DEF Joined
  <2> DEFINE y == r[x].next
  <2>1. ~r[x].used /\ ~r[y].used /\ y # NoBlock /\ y \in DOMAIN r
    BY <1>4, SoundLinks DEF Free
  <2>2. CASE x \notin DOMAIN b
    <3>1. y = b[a].next
      BY <2>2, <1>1, <1>3
    <3>2. y \in DOMAIN b
      BY <3>1, <2>1, SoundLinks
    <3>3. a # NoBlock
      BY SoundBlocks, Sizes
    <3> QED BY <3>1, <3>2, <3>3, <2>1, <1>5 DEF Joined, Free
  <2>3. CASE x \in DOMAIN b
    <3>1. x # a /\ y = b[x].next /\ ~b[x].used
      BY <2>1, <2>3, <1>1, <1>3, <1>5
    <3>2. y \in DOMAIN b
      BY <2>1, <2>3, <3>1, SoundLinks
    <3>3. ~b[y].used /\ x # NoBlock
      BY <3>2, <2>1, <1>5, <2>3, SoundBlocks, Sizes
    <3> QED BY <3>1, <3>2, <3>3, <2>1, <2>3 DEF Joined, Free
  <2> QED BY <2>2, <2>3
<1>9. r[a].size >= n
  <2>1. r[a].size = s[a].size /\ s[a].size \in Nat
    BY <1>1, <1>3, SoundBlocks
  <2> QED BY <2>1, <1>0, <1>1
<1>10. \A x \in UsedIn(b) : r[x].size = b[x].size
  BY <1>1, <1>3 DEF UsedIn
<1> QED BY <1>4, <1>7, <1>8, <1>9, <1>10 DEF r

\* What AbsorbSound says, of headers r that result.
LEMMA AbsorbedBy ==
  ASSUME NEW b, Sound(b), NEW p \in DOMAIN b, NEW q \in DOMAIN b, b[p].next = q,
         NEW r, r = Absorb(b, p, q)
  PROVE  /\ Sound(r) /\ DOMAIN r = DOMAIN b \ {q} /\ p # q
         /\ r[p].used = b[p].used /\ r[p].next = b[q].next /\ b[q].next # p /\ b[q].next # q
         /\ \A x \in DOMAIN b \ {p, q} : r[x].used = b[x].used /\ r[x].next = b[x].next
BY AbsorbSound

\* Joining two free blocks changes no used one.
LEMMA AbsorbUsed ==
  ASSUME NEW b, Sound(b), NEW p \in DOMAIN b, NEW q \in DOMAIN b, b[p].next = q,
         ~b[p].used, ~b[q].used
  PROVE  /\ UsedIn(Absorb(b, p, q)) = UsedIn(b)
         /\ \A x \in UsedIn(b) : Absorb(b, p, q)[x].size = b[x].size
<1> DEFINE r == Absorb(b, p, q)
<1>1. /\ DOMAIN r = DOMAIN b \ {q} /\ r[p].used = b[p].used
      /\ \A x \in DOMAIN b \ {p, q} : r[x].size = b[x].size /\ r[x].used = b[x].used
  BY AbsorbSound
<1> HIDE DEF r
<1>2. UsedIn(r) = UsedIn(b)
  BY <1>1 DEF UsedIn
<1>3. \A x \in UsedIn(b) : r[x].size = b[x].size
  BY <1>1 DEF UsedIn
<1> QED BY <1>2, <1>3 DEF r

\* The used blocks of r are those of b but a.
LEMMA ReleasedSound ==
  ASSUME NEW b, Sound(b), Joined(b), NEW a \in DOMAIN b, b[a].used
  PROVE  LET r == Coalesce([b EXCEPT ![a].used = FALSE], a) IN
         /\ Sound(r) /\ Joined(r) /\ UsedIn(r) = UsedIn(b) \ {a}
         /\ \A x \in UsedIn(r) : r[x].size = b[x].size
<1> DEFINE c == [b EXCEPT ![a].used = FALSE]
           j == IF Free(c, c[a].next) THEN Absorb(c, a, c[a].next) ELSE c
           r == IF Free(j, j[a].prev) THEN Absorb(j, j[a].prev, a) ELSE j
<1>1. Coalesce(c, a) = r
  BY DEF Coalesce
<1>2. /\ DOMAIN c = DOMAIN b /\ c \in [DOMAIN b -> Header]
      /\ \A x \in DOMAIN b : c[x].size = b[x].size /\ c[x].next = b[x].next /\ c[x].prev = b[x].prev
      /\ c[a].used = FALSE /\ \A x \in DOMAIN b \ {a} : c[x].used = b[x].used
  <2> DEFINE o == b[a]
  <2>1. o \in Header
    BY SoundBlocks
  <2>2. /\ DOMAIN c = DOMAIN b /\ c[a] = [o EXCEPT !.used = FALSE]
        /\ c = [x \in DOMAIN b |-> c[x]] /\ \A x \in DOMAIN b \ {a} : c[x] = b[x]
    <3>1. c = [x \in DOMAIN b |-> IF x = a THEN [b[a] EXCEPT !.used = FALSE] ELSE b[x]]
      OBVIOUS
    <3> HIDE DEF c
    <3> QED BY <3>1
  <2> HIDE DEF o, c
  <2>3. /\ c[a].size = o.size /\ c[a].next = o.next /\ c[a].prev = o.prev /\ c[a].used = FALSE
        /\ c[a] \in Header
    BY <2>1, <2>2 DEF Header
  <2>4. \A x \in DOMAIN b : c[x].size = b[x].size /\ c[x].next = b[x].next /\ c[x].prev = b[x].prev
    BY <2>2, <2>3 DEF o
  <2>5. \A x \in DOMAIN b : c[x] \in Header
    BY <2>2, <2>3, SoundBlocks
  <2> QED BY <2>2, <2>3, <2>4, <2>5
<1>3. Sound(c)
  BY <1>2, SameLinks
<1> HIDE DEF c
<1>4. UsedIn(c) = UsedIn(b) \ {a} /\ \A x \in UsedIn(c) : c[x].size = b[x].size
  BY <1>2 DEF UsedIn
<1>5. \A x \in DOMAIN c : Free(c, x) /\ Free(c, c[x].next) => x = a \/ c[x].next = a
  <2> SUFFICES ASSUME NEW x \in DOMAIN c, Free(c, x), Free(c, c[x].next), x # a, c[x].next # a
               PROVE  FALSE
    OBVIOUS
  <2>1. c[x].next \in DOMAIN c
    BY <1>3, SoundLinks DEF Free
  <2>2. Free(b, x) /\ Free(b, b[x].next)
    BY <2>1, <1>2 DEF Free
  <2> QED BY <2>2, <1>2 DEF Joined
<1>6. /\ Sound(j) /\ a \in DOMAIN j /\ ~j[a].used /\ ~Free(j, j[a].next)
      /\ UsedIn(j) = UsedIn(c) /\ \A x \in UsedIn(j) : j[x].size = c[x].size
      /\ \A x \in DOMAIN j \ {a} : Free(j, x) /\ Free(j, j[x].next) => j[x].next = a
  <2> DEFINE q == c[a].next
  <2>1. CASE Free(c, q)
    <3>1. j = Absorb(c, a, q)
      BY <2>1
    <3>2. q \in DOMAIN c /\ ~c[q].used /\ c[a].next = q /\ a \in DOMAIN c
      BY <1>2, <1>3, <2>1, SoundLinks DEF Free
    <3> HIDE DEF j, q
    <3>3. /\ Sound(j) /\ DOMAIN j = DOMAIN c \ {q} /\ a # q /\ j[a].used = c[a].used
          /\ j[a].next = c[q].next /\ c[q].next # a /\ c[q].next # q
          /\ \A x \in DOMAIN c \ {a, q} : j[x].used = c[x].used /\ j[x].next = c[x].next
      BY <1>3, <3>1, <3>2, AbsorbedBy
    <3>4. UsedIn(j) = UsedIn(c) /\ \A x \in UsedIn(j) : j[x].size = c[x].size
      BY <1>2, <1>3, <3>1, <3>2, AbsorbUsed
    <3>5. ~Free(j, j[a].next)
      <4>1. SUFFICES ASSUME Free(j, c[q].next) PROVE FALSE
        BY <3>3
      <4>2. c[q].next \in DOMAIN c
        BY <1>3, <3>2, <4>1, SoundLinks DEF Free
      <4>3. Free(c, c[q].next)
        BY <4>1, <4>2, <3>3 DEF Free
      <4> QED BY <4>3, <2>1, <1>5, <3>2, <3>3
    <3>6. ASSUME NEW x \in DOMAIN j, x # a, Free(j, x), Free(j, j[x].next), j[x].next # a
          PROVE  FALSE
      <4>1. x \in DOMAIN c /\ x # q /\ j[x].next = c[x].next /\ Free(c, x)
        BY <3>3, <3>6 DEF Free
      <4>2. j[x].next \in DOMAIN j
        BY <3>3, <3>6, SoundLinks DEF Free
      <4>3. Free(c, c[x].next)
        BY <4>1, <4>2, <3>3, <3>6 DEF Free
      <4> QED BY <4>1, <4>3, <3>6, <1>5
    <3> QED BY <3>2, <3>3, <3>4, <3>5, <3>6, <1>2
  <2>2. CASE ~Free(c, q)
    <3>1. j = c
      BY <2>2
    <3> HIDE DEF j
    <3> QED BY <3>1, <2>2, <1>2, <1>3, <1>5
  <2> QED BY <2>1, <2>2
<1> HIDE DEF j
<1>7. /\ Sound(r) /\ Joined(r) /\ UsedIn(r) = UsedIn(j)
      /\ \A x \in UsedIn(r) : r[x].size = j[x].size
  <2> DEFINE p == j[a].prev
  <2>1. CASE Free(j, p)
    <3>1. r = Absorb(j, p, a)
      BY <2>1
    <3>2. p \in DOMAIN j /\ ~j[p].used /\ j[p].next = a
      BY <1>6, <2>1, SoundLinks DEF Free
    <3> HIDE DEF r
    <3>3. /\ Sound(r) /\ DOMAIN r = DOMAIN j \ {a} /\ a # p /\ r[p].used = j[p].used
          /\ r[p].next = j[a].next /\ j[a].next # a /\ j[a].next # p
          /\ \A x \in DOMAIN j \ {a, p} : r[x].used = j[x].used /\ r[x].next = j[x].next
      BY <1>6, <3>1, <3>2, AbsorbSound, SMTT(30)
    <3>4. UsedIn(r) = UsedIn(j) /\ \A x \in UsedIn(r) : r[x].size = j[x].size
      BY <1>6, <3>1, <3>2, AbsorbUsed
    <3> HIDE DEF p
    <3>5. ASSUME NEW x \in DOMAIN r, Free(r, x), Free(r, r[x].next)
          PROVE  FALSE
      <4>1. r[x].next \in DOMAIN r /\ x \in DOMAIN j /\ x # a
        BY <3>3, <3>5, SoundLinks DEF Free
      <4>2. Free(j, r[x].next) /\ Free(j, x)
        BY <4>1, <3>3, <3>5 DEF Free
      <4>3. CASE x = p
        BY <4>2, <4>3, <3>3, <1>6
      <4>4. CASE x # p
        BY <4>1, <4>2, <4>4, <3>3, <1>6
      <4> QED BY <4>3, <4>4
    <3> QED BY <3>3, <3>4, <3>5 DEF Joined
  <2>2. CASE ~Free(j, p)
    <3>1. r = j
      BY <2>2
    <3> HIDE DEF r
    <3>2. ASSUME NEW x \in DOMAIN j, Free(j, x), Free(j, j[x].next)
          PROVE  FALSE
      <4>1. x # a
        BY <3>2, <1>6
      <4>2. j[x].next = a /\ a # NoBlock
        BY <4>1, <3>2, <1>6 DEF Free
      <4>3. j[a].prev = x
        BY <4>2, <1>6, SoundLinks
      <4> QED BY <4>3, <3>2, <2>2
    <3>3. Joined(j)
      BY <3>2 DEF Joined
    <3> QED BY <3>1, <3>3, <1>6
  <2> QED BY <2>1, <2>2
<1> HIDE DEF r
<1>8. UsedIn(r) = UsedIn(b) \ {a} /\ \A x \in UsedIn(r) : r[x].size = b[x].size
  BY <1>4, <1>6, <1>7
<1> QED BY <1>1, <1>7, <1>8 DEF c
-----------------------------------------------------------------------------
(* What programs hold.                                                     *)

\* Allocation h lies in a used block of b.
HeldWell(b, h) ==
  /\ h.ptr \in Nat /\ h.raw \in Nat /\ h.size \in Nat /\ h.align \in Nat \ {0}
  /\ h.raw - HEADER \in UsedIn(b)
  /\ h.raw <= h.ptr /\ h.ptr + h.size <= h.raw + b[h.raw - HEADER].size
  /\ h.ptr % h.align = 0 /\ (h.align > 1 => h.ptr - 1 >= h.raw)

\* The headers b are sound, and the allocations l are their used blocks.
Owned(b, l) ==
  /\ Sound(b) /\ Joined(b)
  /\ \A h \in l : HeldWell(b, h)
  /\ \A h, k \in l : h.raw = k.raw => h = k
  /\ \A a \in UsedIn(b) : \E h \in l : h.raw - HEADER = a

HeapInv == Owned(block, live)

\* An allocation depends on the size of its block only.
LEMMA HeldStill ==
  ASSUME NEW b, NEW r, NEW h, HeldWell(b, h), h.raw - HEADER \in UsedIn(r),
         r[h.raw - HEADER].size = b[h.raw - HEADER].size
  PROVE  HeldWell(r, h)
BY DEF HeldWell

LEMMA AllocOwned ==
  ASSUME NEW b, NEW l, Owned(b, l), NEW a \in DOMAIN b, ~b[a].used, NEW n \in Nat,
         b[a].size >= align_size(n), NEW h, h.raw = a + HEADER,
         h.ptr \in Nat, h.size \in Nat, h.align \in Nat \ {0},
         h.raw <= h.ptr, h.ptr + h.size <= h.raw + n,
         h.ptr % h.align = 0, h.align > 1 => h.ptr - 1 >= h.raw
  PROVE  Owned(Allocated(b, a, n), l \cup {h})
<1> DEFINE r == Allocated(b, a, n)
<1>0. Sound(b) /\ Joined(b)
  BY DEF Owned
<1>1. /\ Sound(r) /\ Joined(r) /\ UsedIn(r) = UsedIn(b) \cup {a} /\ r[a].size >= n
      /\ \A x \in UsedIn(b) : r[x].size = b[x].size
  BY <1>0, AllocatedSound
<1> HIDE DEF r
<1>2. a \in Nat /\ a \in UsedIn(r) /\ a \notin UsedIn(b) /\ h.raw \in Nat /\ h.raw - HEADER = a
  BY <1>0, <1>1, SoundBlocks, Sizes DEF UsedIn
<1>3. r[a].size \in Nat
  BY <1>1, <1>2, SoundBlocks DEF UsedIn
<1>4. HeldWell(r, h)
  BY <1>1, <1>2, <1>3, Sizes DEF HeldWell
<1>5. ASSUME NEW k \in l PROVE HeldWell(r, k) /\ k.raw # h.raw
  <2>1. HeldWell(b, k)
    BY DEF Owned
  <2>2. k.raw - HEADER \in UsedIn(b)
    BY <2>1 DEF HeldWell
  <2>3. k.raw # h.raw
    BY <2>2, <1>2
  <2> QED BY <2>1, <2>2, <2>3, <1>1, HeldStill
<1>6. \A x, y \in l : x.raw = y.raw => x = y
  BY DEF Owned
<1>7. \A x \in UsedIn(r) : \E k \in l \cup {h} : k.raw - HEADER = x
  BY <1>1, <1>2 DEF Owned
<1> QED BY <1>1, <1>4, <1>5, <1>6, <1>7 DEF Owned, r

LEMMA FreeOwned ==
  ASSUME NEW b, NEW l, Owned(b, l), NEW h \in l
  PROVE  Owned(Release(b, h.raw).block, l \ {h})
<1> DEFINE a == h.raw - HEADER
           r == Coalesce([b EXCEPT ![a].used = FALSE], a)
<1>1. Release(b, h.raw).block = r
  BY DEF Release
<1>2. Sound(b) /\ Joined(b) /\ HeldWell(b, h)
  BY DEF Owned
<1>3. a \in DOMAIN b /\ b[a].used
  BY <1>2 DEF HeldWell, UsedIn
<1>4. /\ Sound(r) /\ Joined(r) /\ UsedIn(r) = UsedIn(b) \ {a}
      /\ \A x \in UsedIn(r) : r[x].size = b[x].size
  BY <1>2, <1>3, ReleasedSound
<1> HIDE DEF r
<1>5. ASSUME NEW k \in l \ {h} PROVE HeldWell(r, k)
  <2>1. HeldWell(b, k) /\ k.raw # h.raw
    BY DEF Owned
  <2>2. k.raw \in Nat /\ h.raw \in Nat /\ k.raw - HEADER \in UsedIn(b)
    BY <2>1, <1>2 DEF HeldWell
  <2>3. k.raw - HEADER # a
    BY <2>1, <2>2, Sizes
  <2> QED BY <2>1, <2>2, <2>3, <1>4, HeldStill
<1>6. \A x \in UsedIn(r) : \E k \in l \ {h} : k.raw - HEADER = x
  <2> SUFFICES ASSUME NEW x \in UsedIn(r) PROVE \E k \in l \ {h} : k.raw - HEADER = x
    OBVIOUS
  <2>1. PICK k \in l : k.raw - HEADER = x
    BY <1>4 DEF Owned
  <2>2. x # a
    BY <1>4
  <2> QED BY <2>1, <2>2
<1>7. \A x, y \in l \ {h} : x.raw = y.raw => x = y
  BY DEF Owned
<1> QED BY <1>1, <1>4, <1>5, <1>6, <1>7 DEF Owned

-----------------------------------------------------------------------------
(* The theorems.                                                           *)

LEMMA Multiple ==
  ASSUME NEW k \in Nat, NEW m \in Nat \ {0}
  PROVE  (k * m) % m = 0
<1>1. k * m \in Nat
  OBVIOUS
<1> DEFINE q == (k * m) \div m
           d == (k * m) % m
<1>2. /\ q \in Nat /\ d \in Nat /\ d < m /\ k * m = m * q + d
  BY <1>1
<1> HIDE DEF q, d
<1>3. m * (k - q) = d
  BY <1>2
<1>4. CASE k - q >= 1
  BY <1>2, <1>3, <1>4
<1>5. CASE k - q <= -1
  BY <1>2, <1>3, <1>5
<1>6. CASE k - q = 0
  BY <1>2, <1>3, <1>6 DEF d
<1> QED BY <1>2, <1>4, <1>5, <1>6

LEMMA AlignedFits ==
  ASSUME NEW raw \in Nat, NEW align \in Nat \ {0}
  PROVE  /\ Aligned(raw, align) \in Nat /\ Aligned(raw, align) % align = 0
         /\ raw + 1 <= Aligned(raw, align) /\ Aligned(raw, align) <= raw + align
<1> DEFINE k == (raw + 1 + align - 1) \div align
<1>1. /\ k \in Nat /\ raw + 1 <= k * align /\ k * align <= raw + align
  OBVIOUS
<1>2. Aligned(raw, align) = k * align
  BY DEF Aligned
<1> HIDE DEF k
<1>3. k * align \in Nat /\ (k * align) % align = 0
  BY <1>1, Multiple
<1> QED BY <1>1, <1>2, <1>3

LEMMA HeapInitOwned == HeapInit => HeapInv
<1> SUFFICES ASSUME HeapInit PROVE Owned(block, live)
  BY DEF HeapInv
<1> DEFINE o == [size |-> HEAP_WORDS - HEADER, used |-> FALSE, next |-> NoBlock, prev |-> NoBlock]
<1>1. /\ DOMAIN block = {0} /\ block[0] = o /\ live = {} /\ block = [x \in {0} |-> block[x]]
  BY DEF HeapInit
<1>2. /\ o \in Header /\ o.size = HEAP_WORDS - HEADER /\ o.used = FALSE
      /\ o.next = NoBlock /\ o.prev = NoBlock
  BY Sizes DEF Header
<1> HIDE DEF o
<1>3. Sound(block)
  <2>1. DOMAIN block \subseteq Nat /\ block \in [DOMAIN block -> Header] /\ 0 \in DOMAIN block
    BY <1>1, <1>2
  <2>2. End(block, 0) = HEAP_WORDS
    BY <1>1, <1>2, Sizes DEF End
  <2> QED BY <2>1, <2>2, <1>1, <1>2 DEF Sound
<1>4. UsedIn(block) = {} /\ Joined(block)
  BY <1>1, <1>2, Sizes DEF UsedIn, Joined, Free
<1> QED BY <1>1, <1>3, <1>4 DEF Owned

\* What FirstFit returns, and what a plain allocation is.
LEMMA FitPlain ==
  ASSUME NEW n \in Nat, NEW a \in FirstFit(align_size(n)), NEW m
  PROVE  /\ a \in DOMAIN block /\ ~block[a].used /\ block[a].size >= align_size(n)
         /\ Plain(a, n, m).raw = a + HEADER /\ Plain(a, n, m).ptr = a + HEADER
         /\ Plain(a, n, m).size = n /\ Plain(a, n, m).align = 1
BY DEF FirstFit, Plain

\* A plain allocation of n words.
LEMMA PlainOwned ==
  ASSUME HeapInv, NEW n \in Nat, NEW a \in FirstFit(align_size(n)), NEW m
  PROVE  Owned(Allocated(block, a, n), live \cup {Plain(a, n, m)})
<1> DEFINE h == Plain(a, n, m)
<1>1. /\ a \in DOMAIN block /\ ~block[a].used /\ block[a].size >= align_size(n)
      /\ h.raw = a + HEADER /\ h.ptr = a + HEADER /\ h.size = n /\ h.align = 1
  BY FitPlain
<1>2. a \in Nat
  BY <1>1, SoundBlocks DEF HeapInv, Owned
<1> HIDE DEF h
<1>3. /\ h.ptr \in Nat /\ h.size \in Nat /\ h.align \in Nat \ {0} /\ h.raw <= h.ptr
      /\ h.ptr + h.size <= h.raw + n /\ h.ptr % h.align = 0 /\ ~(h.align > 1)
  BY <1>1, <1>2, Sizes
<1>4. Owned(Allocated(block, a, n), live \cup {h})
  BY <1>1, <1>3, AllocOwned DEF HeapInv
<1> QED BY <1>4 DEF h

LEMMA HeapStep ==
  ASSUME HeapInv, [HeapNext]_heap_vars
  PROVE  HeapInv'
<1>0. Lengths \subseteq Nat /\ Alignments \subseteq Nat \ {0}
  BY HeapAssumption
<1>1. ASSUME NEW n \in Lengths, heap_alloc(n) PROVE HeapInv'
  <2>1. PICK a \in FirstFit(align_size(n)) : Take(a, n, Plain(a, n, n))
    BY <1>1 DEF heap_alloc
  <2>2. block' = Allocated(block, a, n) /\ live' = live \cup {Plain(a, n, n)}
    BY <2>1 DEF Take
  <2> QED BY <1>0, <2>2, PlainOwned DEF HeapInv
<1>2. ASSUME NEW n \in Lengths, NEW align \in Alignments, heap_alloc_aligned(n, align)
      PROVE  HeapInv'
  <2> DEFINE total == n + align + 1
             held(a) == [ptr |-> Aligned(a + HEADER, align), raw |-> a + HEADER, size |-> n,
                         align |-> align, intact |-> n]
  <2>1. PICK a \in FirstFit(align_size(total)) : Take(a, total, held(a))
    BY <1>2 DEF heap_alloc_aligned
  <2> DEFINE h == held(a)
  <2>2. block' = Allocated(block, a, total) /\ live' = live \cup {h}
    BY <2>1 DEF Take
  <2>3. a \in DOMAIN block /\ ~block[a].used /\ block[a].size >= align_size(total)
    BY <2>1 DEF FirstFit
  <2>4. a \in Nat /\ n \in Nat /\ align \in Nat \ {0} /\ total \in Nat /\ a + HEADER \in Nat
    BY <1>0, <2>3, Sizes, SoundBlocks DEF HeapInv, Owned
  <2>5. /\ h.ptr = Aligned(a + HEADER, align) /\ h.raw = a + HEADER /\ h.size = n
        /\ h.align = align
    OBVIOUS
  <2> HIDE DEF h
  <2>6. /\ h.ptr \in Nat /\ h.raw <= h.ptr - 1 /\ h.ptr <= h.raw + align /\ h.ptr % h.align = 0
    <3> DEFINE raw == a + HEADER
               ptr == Aligned(raw, align)
    <3>1. /\ ptr \in Nat /\ ptr % align = 0 /\ raw + 1 <= ptr /\ ptr <= raw + align /\ raw \in Nat
      BY <2>4, AlignedFits
    <3> HIDE DEF ptr
    <3>2. h.ptr = ptr
      BY <2>5 DEF ptr
    <3> QED BY <2>4, <2>5, <3>1, <3>2
  <2>7. h.raw <= h.ptr /\ h.ptr + h.size <= h.raw + total /\ h.ptr - 1 >= h.raw
    BY <2>4, <2>5, <2>6
  <2> HIDE DEF total
  <2> QED BY <2>2, <2>3, <2>4, <2>5, <2>6, <2>7, AllocOwned DEF HeapInv
<1>3. ASSUME NEW h \in live, heap_free(h) PROVE HeapInv'
  <2>1. block' = Release(block, h.raw).block /\ live' = live \ {h}
    BY <1>3 DEF heap_free
  <2> QED BY <2>1, FreeOwned DEF HeapInv
<1>4. ASSUME NEW h \in live, NEW n \in Lengths, krealloc(h, n) PROVE HeapInv'
  <2>0. PICK a \in FirstFit(align_size(n)) : \E m :
          /\ block' = Release(Allocated(block, a, n), h.raw).block
          /\ live' = (live \ {h}) \cup {Plain(a, n, m)}
    BY <1>4 DEF krealloc
  <2>1. PICK m : /\ block' = Release(Allocated(block, a, n), h.raw).block
                 /\ live' = (live \ {h}) \cup {Plain(a, n, m)}
    BY <2>0
  <2> DEFINE p == Plain(a, n, m)
             b == Allocated(block, a, n)
  <2>2. Owned(b, live \cup {p})
    BY <1>0, PlainOwned
  <2>3. Owned(Release(b, h.raw).block, (live \cup {p}) \ {h})
    BY <2>2, FreeOwned
  <2>4. p # h
    <3>1. a \in DOMAIN block /\ ~block[a].used /\ p.raw = a + HEADER
      BY <1>0, FitPlain
    <3>2. a \in Nat
      BY <3>1, SoundBlocks DEF HeapInv, Owned
    <3>3. h.raw \in Nat /\ h.raw - HEADER \in UsedIn(block)
      BY DEF HeapInv, Owned, HeldWell
    <3> QED BY <3>1, <3>2, <3>3, Sizes DEF UsedIn
  <2>5. (live \cup {p}) \ {h} = (live \ {h}) \cup {p}
    BY <2>4
  <2> QED BY <2>1, <2>3, <2>5 DEF HeapInv
<1>5. ASSUME UNCHANGED heap_vars PROVE HeapInv'
  BY <1>5 DEF heap_vars, HeapInv
<1> QED BY <1>1, <1>2, <1>3, <1>4, <1>5 DEF HeapNext

THEOREM HeapInvariant == HeapSpec => []HeapInv
<1> QED BY HeapInitOwned, HeapStep, PTL DEF HeapSpec

\* The blocks tile the arena whatever the order of allocations and frees, so
\* no word is lost or in two blocks (heap.c:119 and 202).
THEOREM BlocksTileAlways == HeapSpec => []BlocksTile
<1>1. ASSUME HeapInv PROVE BlocksTile
  <2>1. Sound(block)
    BY <1>1 DEF HeapInv, Owned
  <2> QED BY <2>1, SoundLinks, SoundBlocks, Sizes DEF BlocksTile
<1> QED BY <1>1, HeapInvariant, PTL

\* A free joins a block with both of its neighbours: two free blocks are never
\* next to each other (heap.c:202).
THEOREM NoFreeNeighboursAlways == HeapSpec => []NoFreeNeighbours
<1>1. ASSUME HeapInv PROVE NoFreeNeighbours
  BY <1>1 DEF HeapInv, Owned, Joined, NoFreeNeighbours
<1> QED BY <1>1, HeapInvariant, PTL

\* Every allocation lies in a used block of its own, aligned and as large as
\* asked for, and no two overlap, for any sizes and alignments (heap.c:145-250).
THEOREM LiveOwnedAlways == HeapSpec => []LiveOwned
<1>1. ASSUME HeapInv PROVE LiveOwned
  <2>1. Sound(block)
    BY <1>1 DEF HeapInv, Owned
  <2>2. ASSUME NEW h \in live
        PROVE  /\ h.raw - HEADER \in DOMAIN block /\ block[h.raw - HEADER].used
               /\ h.raw \in Nat /\ h.ptr \in Nat /\ h.size \in Nat /\ h.raw <= h.ptr
               /\ h.ptr + h.size <= End(block, h.raw - HEADER)
               /\ h.ptr % h.align = 0 /\ (h.align > 1 => h.ptr - 1 >= h.raw)
    <3>1. HeldWell(block, h)
      BY <1>1 DEF HeapInv, Owned
    <3>2. h.raw - HEADER \in DOMAIN block /\ block[h.raw - HEADER].used
      BY <3>1 DEF HeldWell, UsedIn
    <3>3. End(block, h.raw - HEADER) = h.raw + block[h.raw - HEADER].size
      BY <2>1, <3>1, <3>2, SoundBlocks, Sizes DEF HeldWell
    <3> QED BY <3>1, <3>2, <3>3 DEF HeldWell
  <2>3. ASSUME NEW h \in live, NEW k \in live, h.raw < k.raw
        PROVE  h.ptr + h.size <= k.ptr
    <3> DEFINE a == h.raw - HEADER
               c == k.raw - HEADER
    <3>1. a \in DOMAIN block /\ c \in DOMAIN block /\ a < c /\ c <= k.ptr
      BY <2>2, <2>3, Sizes
    <3>2. End(block, a) <= c /\ End(block, a) \in Nat
      BY <2>1, <3>1, SoundBlocks DEF Sound
    <3> QED BY <2>2, <3>1, <3>2, Sizes
  <2>4. \A h, k \in live : h # k => h.raw # k.raw
    BY <1>1 DEF HeapInv, Owned
  <2>5. \A h, k \in live : h # k => Disjoint(h, k)
    BY <2>2, <2>3, <2>4 DEF Disjoint
  <2>6. \A a \in DOMAIN block : block[a].used => \E h \in live : h.raw - HEADER = a
    BY <1>1 DEF HeapInv, Owned, UsedIn
  <2> QED BY <2>2, <2>5, <2>6 DEF LiveOwned
<1> QED BY <1>1, HeapInvariant, PTL

-----------------------------------------------------------------------------
(* used_size.                                                              *)

Words(b) == [x \in UsedIn(b) |-> b[x].size + HEADER]

\* u counts the used blocks of b and their headers.
UsedCounted(b, u) == IsFiniteSet(UsedIn(b)) /\ u = HEADER + Total(Words(b), UsedIn(b))

CountInv == UsedCounted(block, used_size)

LEMMA WordsNat ==
  ASSUME NEW b, Sound(b)
  PROVE  \A x \in UsedIn(b) : Words(b)[x] \in Nat /\ Words(b)[x] = b[x].size + HEADER
<1> SUFFICES ASSUME NEW x \in UsedIn(b)
             PROVE  Words(b)[x] \in Nat /\ Words(b)[x] = b[x].size + HEADER
  OBVIOUS
<1>1. b[x].size \in Nat
  BY SoundBlocks DEF UsedIn
<1> QED BY <1>1, Sizes DEF Words

\* Headers r have one used block more than c, of the same sizes otherwise.
LEMMA OneMore ==
  ASSUME NEW c, Sound(c), IsFiniteSet(UsedIn(c)), NEW r, Sound(r), NEW a, a \notin UsedIn(c),
         UsedIn(r) = UsedIn(c) \cup {a}, \A x \in UsedIn(c) : r[x].size = c[x].size
  PROVE  /\ IsFiniteSet(UsedIn(r)) /\ Total(Words(c), UsedIn(c)) \in Nat /\ r[a].size \in Nat
         /\ Total(Words(r), UsedIn(r)) = (r[a].size + HEADER) + Total(Words(c), UsedIn(c))
<1> DEFINE S == UsedIn(r)
           f == Words(r)
           g == Words(c)
<1>1. IsFiniteSet(S) /\ a \in S /\ S \ {a} = UsedIn(c)
  BY FS_AddElement
<1>2. \A x \in S : f[x] \in Nat /\ f[x] = r[x].size + HEADER
  BY WordsNat
<1>3. \A x \in UsedIn(c) : g[x] \in Nat /\ g[x] = c[x].size + HEADER
  BY WordsNat
<1> HIDE DEF f, g
<1>4. \A x \in UsedIn(c) : f[x] = g[x]
  BY <1>1, <1>2, <1>3
<1>5. Total(f, S) = f[a] + Total(f, S \ {a})
  BY <1>1, <1>2, TotalTake
<1>6. Total(f, UsedIn(c)) = Total(g, UsedIn(c))
  BY <1>4, TotalSame
<1>7. Total(g, UsedIn(c)) \in Nat
  BY <1>3, TotalNat
<1>8. r[a].size \in Nat
  BY <1>1, SoundBlocks DEF UsedIn
<1> QED BY <1>1, <1>2, <1>5, <1>6, <1>7, <1>8 DEF f, g

LEMMA AllocCounts ==
  ASSUME NEW b, NEW l, Owned(b, l), NEW a \in DOMAIN b, ~b[a].used, NEW n \in Nat,
         b[a].size >= align_size(n), NEW u, UsedCounted(b, u)
  PROVE  UsedCounted(Allocated(b, a, n), u + Account(Allocated(b, a, n), a, align_size(n)))
<1> DEFINE r == Allocated(b, a, n)
<1>1. /\ Sound(r) /\ UsedIn(r) = UsedIn(b) \cup {a} /\ Sound(b)
      /\ \A x \in UsedIn(b) : r[x].size = b[x].size
  BY AllocatedSound DEF Owned
<1> HIDE DEF r
<1>2. a \notin UsedIn(b) /\ IsFiniteSet(UsedIn(b)) /\ u = HEADER + Total(Words(b), UsedIn(b))
  BY DEF UsedIn, UsedCounted
<1>3. /\ IsFiniteSet(UsedIn(r)) /\ Total(Words(b), UsedIn(b)) \in Nat /\ r[a].size \in Nat
      /\ Total(Words(r), UsedIn(r)) = (r[a].size + HEADER) + Total(Words(b), UsedIn(b))
  BY <1>1, <1>2, OneMore
<1>4. Account(r, a, align_size(n)) = r[a].size + HEADER
  BY DEF Account
<1>5. UsedCounted(r, u + Account(r, a, align_size(n)))
  BY <1>2, <1>3, <1>4, Sizes DEF UsedCounted
<1> QED BY <1>5 DEF r

LEMMA FreeCounts ==
  ASSUME NEW b, NEW l, Owned(b, l), NEW h \in l, NEW u, UsedCounted(b, u)
  PROVE  UsedCounted(Release(b, h.raw).block, u - Release(b, h.raw).size)
<1> DEFINE a == h.raw - HEADER
           r == Coalesce([b EXCEPT ![a].used = FALSE], a)
<1>1. Release(b, h.raw).block = r /\ Release(b, h.raw).size = b[a].size + HEADER
  BY DEF Release
<1>2. Sound(b) /\ Joined(b) /\ HeldWell(b, h)
  BY DEF Owned
<1>3. a \in DOMAIN b /\ b[a].used /\ a \in UsedIn(b)
  BY <1>2 DEF HeldWell, UsedIn
<1>4. /\ Sound(r) /\ UsedIn(r) = UsedIn(b) \ {a}
      /\ \A x \in UsedIn(r) : r[x].size = b[x].size
  BY <1>2, <1>3, ReleasedSound
<1> HIDE DEF r, a
<1>5. IsFiniteSet(UsedIn(b)) /\ u = HEADER + Total(Words(b), UsedIn(b))
  BY DEF UsedCounted
<1>6. IsFiniteSet(UsedIn(r)) /\ a \notin UsedIn(r) /\ UsedIn(b) = UsedIn(r) \cup {a}
  BY <1>3, <1>4, <1>5, FS_Subset
<1>7. /\ Total(Words(r), UsedIn(r)) \in Nat /\ b[a].size \in Nat
      /\ Total(Words(b), UsedIn(b)) = (b[a].size + HEADER) + Total(Words(r), UsedIn(r))
  BY <1>2, <1>4, <1>6, OneMore
<1>8. u - (b[a].size + HEADER) = HEADER + Total(Words(r), UsedIn(r))
  BY <1>5, <1>7, Sizes
<1> QED BY <1>1, <1>6, <1>8 DEF UsedCounted

LEMMA CountInit == HeapInit => CountInv
<1> SUFFICES ASSUME HeapInit PROVE CountInv
  OBVIOUS
<1>1. block = [x \in {0} |-> block[x]] /\ block[0].used = FALSE /\ used_size = HEADER
  BY DEF HeapInit
<1>2. UsedIn(block) = {}
  BY <1>1 DEF UsedIn
<1> QED BY <1>1, <1>2, TotalEmpty, FS_EmptySet, Sizes DEF CountInv, UsedCounted

LEMMA CountStep ==
  ASSUME HeapInv, CountInv, [HeapNext]_heap_vars
  PROVE  CountInv'
<1>0. Lengths \subseteq Nat /\ Alignments \subseteq Nat \ {0} /\ Owned(block, live)
      /\ UsedCounted(block, used_size)
  BY HeapAssumption DEF HeapInv, CountInv
<1>1. ASSUME NEW n \in Nat, NEW a \in FirstFit(align_size(n)), NEW h, Take(a, n, h)
      PROVE  CountInv'
  <2>1. a \in DOMAIN block /\ ~block[a].used /\ block[a].size >= align_size(n)
    BY DEF FirstFit
  <2>2. /\ block' = Allocated(block, a, n)
        /\ used_size' = used_size + Account(Allocated(block, a, n), a, align_size(n))
    BY <1>1 DEF Take
  <2>3. UsedCounted(block', used_size')
    BY <1>0, <2>1, <2>2, AllocCounts
  <2> QED BY <2>3 DEF CountInv
<1>2. ASSUME NEW n \in Lengths, heap_alloc(n) PROVE CountInv'
  <2>1. PICK a \in FirstFit(align_size(n)) : Take(a, n, Plain(a, n, n))
    BY <1>2 DEF heap_alloc
  <2> QED BY <1>0, <1>1, <2>1
<1>3. ASSUME NEW n \in Lengths, NEW align \in Alignments, heap_alloc_aligned(n, align)
      PROVE  CountInv'
  <2> DEFINE total == n + align + 1
  <2>1. PICK a \in FirstFit(align_size(total)) : \E h : Take(a, total, h)
    BY <1>3 DEF heap_alloc_aligned
  <2>2. total \in Nat
    BY <1>0
  <2> QED BY <1>1, <2>1, <2>2
<1>4. ASSUME NEW h \in live, heap_free(h) PROVE CountInv'
  <2>1. /\ block' = Release(block, h.raw).block
        /\ used_size' = used_size - Release(block, h.raw).size
    BY <1>4 DEF heap_free
  <2>2. UsedCounted(block', used_size')
    BY <1>0, <2>1, FreeCounts
  <2> QED BY <2>2 DEF CountInv
<1>5. ASSUME NEW h \in live, NEW n \in Lengths, krealloc(h, n) PROVE CountInv'
  <2>1. PICK a \in FirstFit(align_size(n)) :
          /\ block' = Release(Allocated(block, a, n), h.raw).block
          /\ used_size' = (used_size + Account(Allocated(block, a, n), a, align_size(n)))
                          - Release(Allocated(block, a, n), h.raw).size
    BY <1>5 DEF krealloc
  <2> DEFINE b == Allocated(block, a, n)
             u == used_size + Account(b, a, align_size(n))
             l == live \cup {Plain(a, n, n)}
  <2>2. a \in DOMAIN block /\ ~block[a].used /\ block[a].size >= align_size(n)
    BY DEF FirstFit
  <2>3. UsedCounted(b, u)
    BY <1>0, <2>2, AllocCounts
  <2>4. Owned(b, l) /\ h \in l
    BY <1>0, PlainOwned
  <2>5. block' = Release(b, h.raw).block /\ used_size' = u - Release(b, h.raw).size
    BY <2>1
  <2> HIDE DEF b, u, l
  <2>6. UsedCounted(block', used_size')
    BY <2>3, <2>4, <2>5, FreeCounts
  <2> QED BY <2>6 DEF CountInv
<1>6. ASSUME UNCHANGED heap_vars PROVE CountInv'
  BY <1>6 DEF heap_vars, CountInv
<1> QED BY <1>2, <1>3, <1>4, <1>5, <1>6 DEF HeapNext

\* The sum that HeapSound writes is the sum of Words.
LEMMA CountedIsWords ==
  ASSUME HeapInv, CountInv
  PROVE  MapThenSumSet(LAMBDA a : block[a].size + HEADER, {a \in DOMAIN block : block[a].used})
           = Total(Words(block), UsedIn(block))
<1> DEFINE S == UsedIn(block)
           f == Words(block)
           R(g) == g = [s \in SUBSET S |-> IF s = {} THEN 0
                                           ELSE (block[First(s)].size + HEADER) + g[s \ {First(s)}]]
           c == CHOOSE g : R(g)
<1>0. IsFiniteSet(S) /\ \A x \in S : f[x] \in Nat /\ f[x] = block[x].size + HEADER
  BY WordsNat DEF HeapInv, Owned, CountInv, UsedCounted
<1>1. MapThenSumSet(LAMBDA a : block[a].size + HEADER, {a \in DOMAIN block : block[a].used}) = c[S]
  BY DEF MapThenSumSet, MapThenFoldSet, First, UsedIn
<1> HIDE DEF S, f
<1>2. \A s \in SUBSET S : s # {} => f[First(s)] = block[First(s)].size + HEADER
  BY <1>0, FirstIn
<1>3. ASSUME NEW g PROVE R(g) <=> Sums(f, S, g)
  <2> DEFINE p == [s \in SUBSET S |-> IF s = {} THEN 0
                                     ELSE (block[First(s)].size + HEADER) + g[s \ {First(s)}]]
             q == [s \in SUBSET S |-> IF s = {} THEN 0 ELSE f[First(s)] + g[s \ {First(s)}]]
  <2>1. p = q
    BY <1>2
  <2>2. R(g) <=> g = p
    OBVIOUS
  <2>3. Sums(f, S, g) <=> g = q
    BY DEF Sums
  <2> HIDE DEF p, q, R
  <2> QED BY <2>1, <2>2, <2>3
<1>4. PICK g : Sums(f, S, g) /\ Total(f, S) = g[S]
  BY <1>0, TotalIs
<1> HIDE DEF R
<1>5. R(c)
  BY <1>3, <1>4
<1>6. Sums(f, S, c)
  BY <1>3, <1>5
<1>7. c[S] = g[S]
  BY <1>0, <1>4, <1>6, SumsSame
<1> QED BY <1>1, <1>4, <1>7 DEF S, f

THEOREM CountInvariant == HeapSpec => []CountInv
<1> QED BY CountInit, CountStep, HeapInvariant, PTL DEF HeapSpec

\* After every order of allocations, frees and reallocations the blocks tile
\* the arena, free neighbours are joined, and used_size counts the used blocks
\* and their headers (heap.c:127, 209).
THEOREM HeapSoundAlways == HeapSpec => []HeapSound
<1>1. HeapInv /\ CountInv => used_size = HEADER + MapThenSumSet(LAMBDA a : block[a].size + HEADER,
                                             {a \in DOMAIN block : block[a].used})
  BY CountedIsWords DEF CountInv, UsedCounted
<1>2. BlocksTile /\ NoFreeNeighbours /\ HeapInv /\ CountInv => HeapSound
  BY <1>1 DEF HeapSound
<1> QED BY <1>2, BlocksTileAlways, NoFreeNeighboursAlways, HeapInvariant, CountInvariant, PTL
=============================================================================

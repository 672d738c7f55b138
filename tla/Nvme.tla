-------------------------------- MODULE Nvme --------------------------------
(***************************************************************************)
(* The NVMe driver's I/O queue pair (kernel/drivers/nvme/nvme.c) and the   *)
(* controller.  A call of nvme_read or nvme_write runs in batches through  *)
(* one bounce buffer; every batch is one command, submitted to a ring and  *)
(* awaited by polling the head of the completion ring, whose entries carry *)
(* a phase bit that flips with every lap.                                  *)
(*                                                                         *)
(* The controller is external: it fetches commands in order, performs them *)
(* in any order, and never posts into a full completion ring.  It may die; *)
(* with LATE it may also take longer than nvme_wait_completion polls.      *)
(***************************************************************************)
EXTENDS Integers, FiniteSets, FiniteSetsExt

CONSTANTS SIZE,           \* entries of each ring (256)
          CID_MOD,        \* command identifiers wrap here (2^16)
          MAX_IO_BLOCKS,  \* blocks the bounce buffer holds (32)
          MAX_BLOCKS,     \* max_transfer / block_size
          CAPACITY,       \* blocks of the namespace
          MAX_COUNT,      \* blocks of a caller's request
          Data,
          LATE,           \* the controller may answer after the timeout
          MAX_OVERLAPS    \* bound: calls made while a command is unanswered

ASSUME NvmeAssumption ==
  /\ SIZE \in Nat \ {0, 1} /\ CID_MOD \in Nat \ {0}
  /\ MAX_IO_BLOCKS \in Nat \ {0} /\ MAX_BLOCKS \in Nat /\ MAX_COUNT \in Nat
  /\ CAPACITY \in Nat \ {0} /\ LATE \in BOOLEAN /\ MAX_OVERLAPS \in Nat

Entries == 0..(SIZE - 1)
Lbas  == 0..(CAPACITY - 1)

VARIABLES sq, sqTail, cqHead, cqPhase, nextCid,  \* nvme_queue_t
          cq,                      \* written by the controller
          ioBuffer,                \* the bounce buffer
          call,                    \* the caller's request
          user,                    \* the caller's buffer
          done,                    \* blocks_read, blocks_written
          cid,                     \* of the command awaited
          ret, ioPc, overlaps,
          sqHead, cqTail, devPhase,  \* the controller's place in the rings
          fetched,                 \* commands it has fetched
          disk,
          dead

queueVars == <<sq, sqTail, cqHead, cqPhase, nextCid>>
callVars  == <<call, user, done, cid, ret, ioPc, overlaps>>
devVars   == <<sqHead, cqTail, devPhase, fetched, disk, dead>>
nvme_vars == <<queueVars, cq, ioBuffer, callVars, devVars>>

Ops      == {"read", "write", "flush"}
Requests == [op : {"read", "write"}, lba : Lbas, count : 0..MAX_COUNT]
              \cup [op : {"flush"}, lba : {0}, count : {0}]
Commands == [op : Ops, cid : 0..(CID_MOD - 1), lba : Nat, n : Nat]
Entry    == [cid : 0..(CID_MOD - 1), phase : {0, 1}, ok : BOOLEAN]

\* The request while no call is in progress.
NoCall == [op |-> "read", lba |-> 0, count |-> 0]

NvmeTypeOK ==
  /\ sq \in [Entries -> Commands] /\ sqTail \in Entries
  /\ cq \in [Entries -> Entry] /\ cqHead \in Entries /\ cqPhase \in {0, 1}
  /\ nextCid \in 0..(CID_MOD - 1) /\ cid \in 0..(CID_MOD - 1)
  /\ ioBuffer \in [0..(MAX_IO_BLOCKS - 1) -> Data]
  /\ call \in Requests /\ user \in [0..(MAX_COUNT - 1) -> Data]
  /\ done \in 0..MAX_COUNT /\ ret \in -1..MAX_COUNT
  /\ ioPc \in {"idle", "batch", "wait"} /\ overlaps \in 0..MAX_OVERLAPS
  /\ sqHead \in Entries /\ cqTail \in Entries /\ devPhase \in {0, 1}
  /\ disk \in [Lbas -> Data] /\ dead \in BOOLEAN

NvmeInit ==
  /\ sq = [i \in Entries |-> [op |-> "flush", cid |-> 0, lba |-> 0, n |-> 0]]
  /\ cq = [i \in Entries |-> [cid |-> 0, phase |-> 0, ok |-> TRUE]]
  /\ sqTail = 0 /\ cqHead = 0 /\ cqPhase = 1 /\ nextCid = 0 /\ cid = 0
  /\ \E d \in Data : /\ ioBuffer = [i \in 0..(MAX_IO_BLOCKS - 1) |-> d]
                     /\ user = [i \in 0..(MAX_COUNT - 1) |-> d]
                     /\ disk = [b \in Lbas |-> d]
  /\ call = NoCall /\ done = 0
  /\ ret = 0 /\ ioPc = "idle" /\ overlaps = 0
  /\ sqHead = 0 /\ cqTail = 0 /\ devPhase = 1 /\ fetched = {}
  /\ dead = FALSE

-----------------------------------------------------------------------------
(* The driver.                                                             *)

Next1(i) == (i + 1) % SIZE

\* The entries of completions posted and not yet taken.
Waiting == {i \in Entries : (i - cqHead) % SIZE < (cqTail - cqHead) % SIZE}
Posted  == cqHead # cqTail
Unanswered == sqHead # sqTail \/ fetched # {} \/ Posted

\* A caller enters nvme_read, nvme_write (with its buffer filled) or nvme_flush.
Call(r) ==
  /\ ioPc = "idle"
  /\ overlaps' = IF Unanswered THEN overlaps + 1 ELSE overlaps
  /\ overlaps' <= MAX_OVERLAPS
  /\ call' = r /\ ret' = 0 /\ ioPc' = "batch"
  /\ IF r.op = "write" THEN user' \in [0..(MAX_COUNT - 1) -> Data] ELSE UNCHANGED user
  /\ UNCHANGED <<queueVars, cq, ioBuffer, done, cid, devVars>>

\* The call returns r; its request, its count and its command's identifier
\* end with it.
Return(r) ==
  /\ ret' = r /\ ioPc' = "idle"
  /\ call' = NoCall /\ done' = 0 /\ cid' = 0

\* The blocks of the next batch.  A controller whose transfers are smaller
\* than a block (MAX_BLOCKS = 0) does not limit it.
BatchSize ==
  LET rest    == call.count - done
      limited == Min({rest, MAX_IO_BLOCKS})
  IN IF MAX_BLOCKS > 0 THEN Min({limited, MAX_BLOCKS}) ELSE limited

\* nvme_submit_cmd; it does not look whether the submission ring is full.
nvme_submit_cmd(cmd) ==
  /\ sq' = [sq EXCEPT ![sqTail] = cmd]
  /\ sqTail' = Next1(sqTail)

\* Mutant: every batch writes the start of the caller's buffer.
FilledFromStart(n) == [i \in DOMAIN ioBuffer |-> IF i < n THEN user[i] ELSE ioBuffer[i]]

\* The bounce buffer of a write's next batch.
Filled(n) == [i \in DOMAIN ioBuffer |-> IF i < n THEN user[done + i] ELSE ioBuffer[i]]

\* A batch, or the single command of a flush: the bounce buffer is filled for
\* a write, the command takes the next identifier and is submitted.
Batch ==
  /\ ioPc = "batch" /\ (call.op = "flush" \/ done < call.count)
  /\ LET n == IF call.op = "flush" THEN 0 ELSE BatchSize IN
       /\ ioBuffer' = IF call.op = "write" THEN Filled(n) ELSE ioBuffer
       /\ nvme_submit_cmd([op |-> call.op, cid |-> nextCid, lba |-> call.lba + done, n |-> n])
  /\ cid' = nextCid /\ nextCid' = (nextCid + 1) % CID_MOD
  /\ ioPc' = "wait"
  /\ UNCHANGED <<cqHead, cqPhase, cq, call, user, done, ret, overlaps, devVars>>

Finished ==
  /\ ioPc = "batch" /\ call.op # "flush" /\ done = call.count
  /\ Return(done)
  /\ UNCHANGED <<queueVars, cq, ioBuffer, user, overlaps, devVars>>

\* Mutant: a failed batch counts as moved.
PartialMiscounts == done + BatchSize

\* What a failed command makes the call return: the blocks moved before it,
\* or an error (-1).
Partial == IF done > 0 THEN done ELSE -1

\* Mutant: the phase is not flipped at the end of a lap.
TakeEntryKeepsPhase == cqHead' = Next1(cqHead) /\ UNCHANGED cqPhase

\* Mutant: the head does not wrap.
TakeEntryNoWrap == /\ cqHead' = cqHead + 1
                   /\ cqPhase' = IF cqHead' = 0 THEN 1 - cqPhase ELSE cqPhase

TakeEntry ==
  /\ cqHead' = Next1(cqHead)
  /\ cqPhase' = IF cqHead' = 0 THEN 1 - cqPhase ELSE cqPhase

\* The poll looks at the head of the completion ring only.
Answered == cq[cqHead].phase = cqPhase /\ cq[cqHead].cid = cid

\* The awaited completion: a read copies the bounce buffer out.
Complete ==
  /\ ioPc = "wait" /\ Answered
  /\ TakeEntry
  /\ IF cq[cqHead].ok /\ call.op # "flush"
     THEN /\ user' = IF call.op = "read"
                     THEN [i \in DOMAIN user |-> IF i >= done /\ i < done + BatchSize
                                                 THEN ioBuffer[i - done] ELSE user[i]]
                     ELSE user
          /\ done' = done + BatchSize /\ ioPc' = "batch"
          /\ UNCHANGED <<call, cid, ret>>
     ELSE /\ Return(IF call.op = "flush" /\ cq[cqHead].ok THEN 0 ELSE Partial)
          /\ UNCHANGED user
  /\ UNCHANGED <<sq, sqTail, nextCid, cq, ioBuffer, overlaps, devVars>>

\* The polls are used up and the last one finds nothing for this command.
Timeout ==
  /\ ioPc = "wait" /\ (LATE \/ dead) /\ ~Answered
  /\ Return(Partial)
  /\ UNCHANGED <<queueVars, cq, ioBuffer, user, overlaps, devVars>>

-----------------------------------------------------------------------------
(* The controller.                                                         *)

Fetch ==
  /\ ~dead /\ sqHead # sqTail
  /\ fetched' = fetched \cup {[cmd |-> sq[sqHead], slot |-> sqHead, moved |-> FALSE]}
  /\ sqHead' = Next1(sqHead)
  /\ UNCHANGED <<queueVars, cq, ioBuffer, callVars, cqTail, devPhase, disk, dead>>

InRange(c) == c.lba + c.n <= CAPACITY

Move(w) ==
  /\ ~dead /\ ~w.moved /\ InRange(w.cmd)
  /\ fetched' = (fetched \ {w}) \cup {[w EXCEPT !.moved = TRUE]}
  /\ disk' = IF w.cmd.op = "write"
             THEN [b \in Lbas |-> IF b >= w.cmd.lba /\ b < w.cmd.lba + w.cmd.n
                                  THEN ioBuffer[b - w.cmd.lba] ELSE disk[b]]
             ELSE disk
  /\ ioBuffer' = IF w.cmd.op = "read"
                 THEN [i \in DOMAIN ioBuffer |-> IF i < w.cmd.n THEN disk[w.cmd.lba + i] ELSE ioBuffer[i]]
                 ELSE ioBuffer
  /\ UNCHANGED <<queueVars, cq, callVars, sqHead, cqTail, devPhase, dead>>

\* An entry is posted; a command out of range fails without moving data.
Post(w) ==
  /\ ~dead /\ (w.moved \/ ~InRange(w.cmd))
  /\ Next1(cqTail) # cqHead
  /\ cq' = [cq EXCEPT ![cqTail] = [cid |-> w.cmd.cid, phase |-> devPhase, ok |-> w.moved]]
  /\ cqTail' = Next1(cqTail)
  /\ devPhase' = IF cqTail' = 0 THEN 1 - devPhase ELSE devPhase
  /\ fetched' = fetched \ {w}
  /\ UNCHANGED <<queueVars, ioBuffer, callVars, sqHead, disk, dead>>

\* A death between commands shows at the next one.
Die ==
  /\ ~dead /\ (sqHead # sqTail \/ fetched # {})
  /\ dead' = TRUE
  /\ UNCHANGED <<queueVars, cq, ioBuffer, callVars, sqHead, cqTail, devPhase, fetched, disk>>

-----------------------------------------------------------------------------
Driver     == Batch \/ Finished \/ Complete \/ Timeout
Controller == Fetch \/ Die \/ \E w \in fetched : Move(w) \/ Post(w)
NvmeNext   == (\E r \in Requests : Call(r)) \/ Driver \/ Controller

NvmeSpec == NvmeInit /\ [][NvmeNext]_nvme_vars

-----------------------------------------------------------------------------
(* Properties.                                                             *)

\* The phase bit tells new entries from old ones: the head of the ring shows
\* the phase the driver expects exactly when a completion is waiting there.
PhaseExact == (cq[cqHead].phase = cqPhase) <=> Posted

\* A read or write that returns k has moved the first k blocks, failures and
\* timeouts in the middle included (nvme.h:365, "Number of blocks read").
Moved(k) == /\ k <= call.count /\ call.lba + k <= CAPACITY
            /\ \A i \in 0..(k - 1) : user[i] = disk[call.lba + i]
ReturnsMoved == [][ioPc # "idle" /\ ioPc' = "idle" /\ ret' > 0 => Moved(ret')]_nvme_vars

\* The disk changes only where the write in progress says, and to its data.
DiskIntended ==
  [][\A b \in Lbas : disk'[b] # disk[b] =>
       /\ ioPc = "wait" /\ call.op = "write"
       /\ b \in call.lba..(call.lba + call.count - 1)
       /\ disk'[b] = user[b - call.lba]]_nvme_vars

\* A call gives up only on a command whose completion is not in the ring:
\* nvme_wait_completion returns the status of its command (nvme.c:113).
GivesUpUnanswered ==
  [][ioPc = "wait" /\ ioPc' = "idle" /\ cqHead' = cqHead =>
       \A i \in Waiting : cq[i].cid # cid]_nvme_vars
=============================================================================

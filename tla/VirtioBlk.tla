------------------------------ MODULE VirtioBlk ------------------------------
(***************************************************************************)
(* The VirtIO block driver (kernel/drivers/block/virtio_blk.c) and the     *)
(* device it shares memory with.  The driver handles one request at a      *)
(* time: it fills the one request header and the one status byte, links    *)
(* two or three descriptors, kicks the device and polls the used ring a    *)
(* bounded number of times.                                                *)
(*                                                                         *)
(* The device is external: it takes the requests of the available ring in  *)
(* order, follows the chain of descriptors it finds at that moment, moves  *)
(* the data, then writes the status and the used ring.  A malformed chain  *)
(* stops it for good ("broken"), and so may a failure.  With LATE it may   *)
(* also answer after the driver has given the request up.                  *)
(***************************************************************************)
EXTENDS Virtqueue

CONSTANTS Sectors, Data,
          Buffers,   \* callers' buffers, each for one sector
          LATE,      \* the device may take longer than the driver polls
          MAX_OVERLAPS, \* bound: requests made while an earlier one is unanswered
          IO_ERRORS, \* the device may fail a request
          FLUSH      \* VIRTIO_BLK_F_FLUSH was negotiated

ASSUME BlkAssumption ==
  /\ {"none", "hdr", "status"} \cup Buffers \subseteq Addrs
  /\ MAX_OVERLAPS \in Nat /\ {LATE, IO_ERRORS, FLUSH} \subseteq BOOLEAN

VARIABLES hdr, status,   \* req_hdr and req_status, shared with the device
          buffer,        \* contents of the callers' buffers
          call,          \* the request in progress
          chain,         \* the descriptors it holds, in order
          ret,           \* what the last request returned
          pc,
          overlaps,      \* counts towards MAX_OVERLAPS
          devAvail,      \* the device's index into the available ring
          work,          \* the request the device is working on
          disk, broken

callVars == <<call, chain, ret, pc, overlaps>>
devVars  == <<devAvail, work, disk, broken>>
memVars  == <<hdr, status, buffer>>
vars == <<vqVars, memVars, callVars, devVars>>

Ops      == {"read", "write"} \cup IF FLUSH THEN {"flush"} ELSE {}
Statuses == {"ok", "ioerr", "unset"}     \* "unset" is the 0xFF the driver writes
Transfers == [op : {"read", "write"}, sector : Sectors, buf : Buffers]
\* A flush writes sector 0, which the device ignores: here the sector stays.
Requests == Transfers \cup (IF FLUSH THEN {[call EXCEPT !.op = "flush"]} ELSE {})
NoWork   == [head |-> Nil, op |-> "none"]
Rets     == {"ok", "io", "full", "timeout"}

TypeOK ==
  /\ VirtqueueTypeOK
  /\ hdr \in [op : Ops, sector : Sectors] /\ status \in Statuses
  /\ buffer \in [Buffers -> Data]
  /\ call \in [op : Ops, sector : Sectors, buf : Buffers] /\ chain \in Seq(Descs) /\ ret \in Rets
  /\ pc \in {"idle", "alloc", "kick", "poll"} /\ overlaps \in 0..MAX_OVERLAPS
  /\ devAvail \in 0..(IDX_MOD - 1)
  /\ work = NoWork \/ work \in [head : Descs, op : Ops, sector : Sectors,
                                buf : Buffers, done : BOOLEAN]
  /\ disk \in [Sectors -> Data] /\ broken \in BOOLEAN

Init ==
  /\ virtqueue_alloc
  /\ call \in [op : {"read"}, sector : Sectors, buf : Buffers]
  /\ hdr = [op |-> "read", sector |-> call.sector] /\ status = "unset"
  /\ buffer \in [Buffers -> Data] /\ disk \in [Sectors -> Data]
  /\ chain = <<>> /\ ret = "ok" /\ pc = "idle" /\ overlaps = 0
  /\ devAvail = 0 /\ work = NoWork /\ broken = FALSE

-----------------------------------------------------------------------------
(* The driver.                                                             *)

\* A request the driver has given up is not yet answered, or its answer is
\* still in the used ring.
Unanswered == availIdx # devAvail \/ work # NoWork \/ virtqueue_has_used

\* virtio_blk_read, virtio_blk_write and virtio_blk_flush after their checks:
\* the header is filled and the status cleared.  A writer has filled its buffer.
Request(r) ==
  /\ pc = "idle"
  /\ overlaps' = IF Unanswered THEN overlaps + 1 ELSE overlaps
  /\ overlaps' <= MAX_OVERLAPS
  /\ call' = r
  /\ hdr' = [op |-> r.op, sector |-> r.sector] /\ status' = "unset"
  /\ \E d \in Data : buffer' = IF r.op = "write" THEN [buffer EXCEPT ![r.buf] = d] ELSE buffer
  /\ pc' = "alloc"
  /\ UNCHANGED <<vqVars, chain, ret, devVars>>

\* What each descriptor of a request points to, and its flags.
Roles(r) ==
  LET header == [addr |-> "hdr", flags |-> {"NEXT"}]
      data   == [addr |-> r.buf, flags |-> {"NEXT"} \cup IF r.op = "read" THEN {"WRITE"} ELSE {}]
      stat   == [addr |-> "status", flags |-> {"WRITE"}]
  IN IF r.op = "flush" THEN <<header, stat>> ELSE <<header, data, stat>>

\* The table with the request's descriptors linked in the order of s.
Linked(s, roles) ==
  [i \in Descs |->
     IF \E k \in 1..Len(s) : s[k] = i
     THEN LET k == CHOOSE k \in 1..Len(s) : s[k] = i IN
            [addr  |-> roles[k].addr, flags |-> roles[k].flags,
             next  |-> IF k = Len(s) THEN 0 ELSE s[k + 1]]
     ELSE desc[i]]

\* Mutant: the descriptors taken are not given back.
AllocFullLeaks ==
  /\ pc = "alloc" /\ freeCount < Len(Roles(call))
  /\ freeHead' = Nil /\ freeCount' = 0 /\ UNCHANGED desc
  /\ ret' = "full" /\ pc' = "idle"
  /\ UNCHANGED <<size, availVars, usedVars, lastUsed, memVars, call, chain, overlaps, devVars>>

\* The descriptors taken before the table ran out go back.
AllocFull ==
  /\ pc = "alloc" /\ freeCount < Len(Roles(call))
  /\ LET taken == virtqueue_alloc_desc(freeCount)
         list  == virtqueue_free_desc(desc, Nil, taken)
     IN desc' = list.desc /\ freeHead' = list.head
  /\ UNCHANGED freeCount
  /\ ret' = "full" /\ pc' = "idle"
  /\ UNCHANGED <<size, availVars, usedVars, lastUsed, memVars, call, chain, overlaps, devVars>>

\* Mutant: free_count is not decremented.
LeftFreeUncounted(n) == freeCount

LeftFree(n) == freeCount - n

AllocChain ==
  /\ pc = "alloc" /\ freeCount >= Len(Roles(call))
  /\ LET n == Len(Roles(call)) IN
       /\ chain' = virtqueue_alloc_desc(n)
       /\ freeHead' = Walk(freeHead, n) /\ freeCount' = LeftFree(n)
       /\ desc' = Linked(chain', Roles(call))
  /\ pc' = "kick"
  /\ UNCHANGED <<size, availVars, usedVars, lastUsed, memVars, call, ret, overlaps, devVars>>

Kick ==
  /\ pc = "kick"
  /\ virtqueue_kick(chain[1])
  /\ pc' = "poll"
  /\ UNCHANGED <<size, freeVars, usedVars, lastUsed, memVars, call, chain, ret, overlaps, devVars>>

\* The request's descriptors go back to the free list, the head first.
Release ==
  LET list == virtqueue_free_desc(desc, freeHead, chain) IN
  /\ desc' = list.desc /\ freeHead' = list.head
  /\ freeCount' = freeCount + Len(chain)
  /\ chain' = <<>>

\* Mutant: the status byte is not looked at.
ResultUnchecked == "ok"

Result == IF status = "ok" THEN "ok" ELSE "io"

\* Mutant: last_used_idx stays behind.
CompleteKeepsUsed ==
  /\ pc = "poll" /\ virtqueue_has_used
  /\ Release
  /\ ret' = Result /\ pc' = "idle"
  /\ UNCHANGED <<size, availVars, usedVars, lastUsed, memVars, call, overlaps, devVars>>

\* The poll finds a used entry, whichever request it answers.
Complete ==
  /\ pc = "poll" /\ virtqueue_has_used
  /\ virtqueue_get_used
  /\ Release
  /\ ret' = Result /\ pc' = "idle"
  /\ UNCHANGED <<size, availVars, usedVars, memVars, call, overlaps, devVars>>

\* The polls are used up, because the device is late or dead.  A read or
\* write gives up without a look at the used ring, even if the very last poll
\* saw an answer; a flush takes an answer if there is one and goes by the
\* status byte.
Timeout ==
  /\ pc = "poll" /\ (LATE \/ (broken /\ ~virtqueue_has_used))
  /\ Release
  /\ IF call.op = "flush"
     THEN virtqueue_get_used /\ ret' = Result
     ELSE UNCHANGED lastUsed /\ ret' = "timeout"
  /\ pc' = "idle"
  /\ UNCHANGED <<size, availVars, usedVars, memVars, call, overlaps, devVars>>

-----------------------------------------------------------------------------
(* The device.                                                             *)

Pending == (availIdx - devAvail + IDX_MOD) % IDX_MOD

\* The chain that starts at "head" has the shape of the request in hdr.
WellFormed(head) ==
  \E b \in Buffers :
    LET roles == Roles([op |-> hdr.op, sector |-> hdr.sector, buf |-> b]) IN
    \A k \in 1..Len(roles) :
      LET i == Walk(head, k - 1) IN
        i # Nil /\ desc[i].addr = roles[k].addr /\ desc[i].flags = roles[k].flags

Fetch ==
  /\ ~broken /\ work = NoWork /\ Pending > 0
  /\ devAvail' = (devAvail + 1) % IDX_MOD
  /\ LET head == avail[devAvail % size] IN
       IF Pending <= size /\ WellFormed(head)
       THEN /\ work' = [head |-> head, op |-> hdr.op, sector |-> hdr.sector, done |-> FALSE,
                        buf |-> IF hdr.op = "flush" THEN call.buf ELSE desc[Walk(head, 1)].addr]
            /\ UNCHANGED broken
       ELSE broken' = TRUE /\ UNCHANGED work
  /\ UNCHANGED <<vqVars, memVars, callVars, disk>>

Transfer ==
  /\ ~broken /\ work # NoWork /\ ~work.done
  /\ work' = [work EXCEPT !.done = TRUE]
  /\ disk' = IF work.op = "write" THEN [disk EXCEPT ![work.sector] = buffer[work.buf]] ELSE disk
  /\ buffer' = IF work.op = "read" THEN [buffer EXCEPT ![work.buf] = disk[work.sector]] ELSE buffer
  /\ UNCHANGED <<vqVars, hdr, status, callVars, devAvail, broken>>

Answer ==
  /\ ~broken /\ work # NoWork /\ (work.done \/ IO_ERRORS)
  /\ status' = IF work.done THEN "ok" ELSE "ioerr"
  /\ used' = [used EXCEPT ![usedIdx % size] = work.head]
  /\ usedIdx' = (usedIdx + 1) % IDX_MOD
  /\ work' = NoWork
  /\ UNCHANGED <<size, freeVars, availVars, lastUsed, hdr, buffer, callVars, devAvail, disk, broken>>

Die ==
  /\ ~broken /\ broken' = TRUE
  /\ UNCHANGED <<vqVars, memVars, callVars, devAvail, work, disk>>

-----------------------------------------------------------------------------
Driver == AllocFull \/ AllocChain \/ Kick \/ Complete \/ Timeout
Device == Fetch \/ Transfer \/ Answer \/ Die
Next   == (\E r \in Requests : Request(r)) \/ Driver \/ Device

Spec == Init /\ [][Next]_vars

-----------------------------------------------------------------------------
(* Properties.                                                             *)

\* The descriptors the request in progress does not hold are in the free
\* list, each once, after failed allocations and timeouts too.
FreeListSound ==
  /\ FreeListIntact
  /\ FreeList = (0..(size - 1)) \ {chain[k] : k \in 1..Len(chain)}

\* The entry the driver takes from the used ring answers its own request
\* (virtio_blk.c:733, "Should match head").
UsedHeadMatches == pc = "poll" /\ virtqueue_has_used => UsedHead = chain[1]

\* A read that returns VIRTIO_OK has filled the buffer from the sector asked
\* for (block.h:63, "BLOCK_OK on success").
ReadReturnsSector ==
  [][pc = "poll" /\ pc' = "idle" /\ ret' = "ok" /\ call.op = "read"
       => buffer[call.buf] = disk[call.sector]]_vars

\* With a device that answers in time the driver is a block device.  The
\* request has taken effect once the device has no more to do for it.
Performed == /\ pc = "poll" /\ devAvail = availIdx
             /\ IF work = NoWork THEN status = "ok" ELSE work.done

Promise == INSTANCE BlockDevice WITH
  op     <- IF pc = "idle" THEN "none" ELSE call.op,
  sector <- call.sector,
  data   <- buffer[call.buf],
  done   <- Performed,
  ret    <- IF ret = "ok" THEN "ok" ELSE "error"

IsBlockDevice == Promise!Spec
=============================================================================

----------------------------- MODULE VirtioNet -----------------------------
(***************************************************************************)
(* The VirtIO network driver (kernel/drivers/net/virtio_net.c): one        *)
(* transmit buffer, a pool of receive buffers that are handed to the       *)
(* device and taken back one by one, and two virtqueues.  The stack calls  *)
(* virtio_net_send and virtio_net_receive one at a time.                   *)
(*                                                                         *)
(* The device is external: it takes descriptors in order, writes a frame   *)
(* into a receive buffer over some time ("torn" meanwhile), reads the      *)
(* transmit buffer when it processes the descriptor, and may stop for      *)
(* good.  A late one may also answer after the driver has given up.        *)
(* Frames are numbered in the order in which they arrive and are sent.     *)
(***************************************************************************)
EXTENDS Integers, Sequences, FiniteSets, SequencesExt

CONSTANTS RxSizes, TxSizes,  \* sizes of queues devices offer
          NET_IDX_MOD,       \* ring indices wrap here (2^16)
          NetBuffers,        \* rx_buffers
          FRAMES,            \* frame numbers wrap here
          LateDevices        \* whether a device may answer late: a set of BOOLEANs

ASSUME NetAssumption ==
  /\ LateDevices \subseteq BOOLEAN
  /\ NetBuffers # {} /\ IsFiniteSet(NetBuffers)
  /\ FRAMES \in Nat /\ FRAMES > Cardinality(NetBuffers) + 1
  /\ RxSizes \subseteq Nat \ {0} /\ RxSizes # {} /\ TxSizes \subseteq Nat \ {0} /\ TxSizes # {}
  /\ NET_IDX_MOD \in Nat /\ NET_IDX_MOD > Cardinality(NetBuffers)
  /\ \A n \in RxSizes \cup TxSizes : NET_IDX_MOD % n = 0 /\ NET_IDX_MOD >= n
  /\ \A n \in RxSizes : Cardinality(NetBuffers) <= n   \* else the probe fails

VARIABLES rxSize, rxDesc, rxFreeHead, rxFreeCount, rxAvail, rxAvailIdx, rxUsed, rxUsedIdx, rxLastUsed,
          txSize, txDesc, txFreeHead, txFreeCount, txAvail, txAvailIdx, txUsed, txUsedIdx, txLastUsed,
          rx_buffer_desc, \* the descriptor of each receive buffer
          rxMem, txMem,   \* contents of the buffers: a frame, or 0 for none or a torn one
          netPc, netBuf,  \* the call in progress, and the buffer it has found
          txHead,         \* the descriptor it holds
          netRet,         \* what the last send returned
          netFrame,       \* the last frame the stack sent
          netUser,        \* the last frame the stack received
          rxDev, txDev,   \* the device's indices into the available rings
          rxWork, txWork, \* the descriptors it works on
          arrived, netOut, \* the last frame that arrived, and that it transmitted
          netLate, netBroken

RX == INSTANCE Virtqueue WITH
        Sizes <- RxSizes, IDX_MOD <- NET_IDX_MOD, Addrs <- NetBuffers \cup {"none"},
        size <- rxSize, desc <- rxDesc, freeHead <- rxFreeHead, freeCount <- rxFreeCount,
        avail <- rxAvail, availIdx <- rxAvailIdx, used <- rxUsed, usedIdx <- rxUsedIdx,
        lastUsed <- rxLastUsed
TX == INSTANCE Virtqueue WITH
        Sizes <- TxSizes, IDX_MOD <- NET_IDX_MOD, Addrs <- {"tx_buffer", "none"},
        size <- txSize, desc <- txDesc, freeHead <- txFreeHead, freeCount <- txFreeCount,
        avail <- txAvail, availIdx <- txAvailIdx, used <- txUsed, usedIdx <- txUsedIdx,
        lastUsed <- txLastUsed

rxFreeVars  == <<rxDesc, rxFreeHead, rxFreeCount>>
rxAvailVars == <<rxAvail, rxAvailIdx>>
rxUsedVars  == <<rxUsed, rxUsedIdx>>
rxVars      == <<rxSize, rxFreeVars, rxAvailVars, rxUsedVars, rxLastUsed>>
txFreeVars  == <<txDesc, txFreeHead, txFreeCount>>
txAvailVars == <<txAvail, txAvailIdx>>
txUsedVars  == <<txUsed, txUsedIdx>>
txVars      == <<txSize, txFreeVars, txAvailVars, txUsedVars, txLastUsed>>
netDevVars  == <<rxDev, txDev, rxWork, txWork, arrived, netOut, netBroken>>
netCallVars == <<netPc, netBuf, txHead, netRet, netFrame, netUser>>
net_vars == <<rxVars, txVars, rx_buffer_desc, rxMem, txMem, netCallVars, netDevVars, netLate>>

Frames == 1..FRAMES
NextFrame(f) == (f % FRAMES) + 1

NetTypeOK ==
  /\ RX!VirtqueueTypeOK /\ TX!VirtqueueTypeOK
  /\ rx_buffer_desc \in [NetBuffers -> 0..(rxSize - 1)]
  /\ rxMem \in [NetBuffers -> Frames \cup {0}] /\ txMem \in Frames \cup {0}
  /\ netPc \in {"idle", "copy", "requeue", "kick", "poll"} /\ netBuf \in NetBuffers
  /\ txHead \in TX!Descs \cup {TX!Nil} /\ netRet \in {"ok", "full", "timeout"}
  /\ {netFrame, netUser, arrived, netOut} \subseteq Frames \cup {0}
  /\ rxDev \in 0..(NET_IDX_MOD - 1) /\ txDev \in 0..(NET_IDX_MOD - 1)
  /\ rxWork \in RX!Descs \cup {RX!Nil} /\ txWork \in TX!Descs \cup {TX!Nil}
  /\ netLate \in LateDevices /\ netBroken \in BOOLEAN

\* virtio_net_init_rx_buffers takes the first descriptors, one per buffer.
NetInit ==
  LET bufs == SetToSeq(NetBuffers)  n == Len(bufs) IN
  /\ rxSize \in RxSizes
  /\ rxDesc = [i \in RX!Descs |->
       CASE i < n -> [addr |-> bufs[i + 1], flags |-> {"WRITE"}, next |-> 0]
         [] i >= n /\ i < rxSize - 1 -> [addr |-> "none", flags |-> {"NEXT"}, next |-> i + 1]
         [] OTHER -> [addr |-> "none", flags |-> {}, next |-> RX!Nil]]
  /\ rxFreeHead = (IF n < rxSize THEN n ELSE RX!Nil) /\ rxFreeCount = rxSize - n
  /\ rxAvail = [i \in RX!Descs |-> IF i < n THEN i ELSE 0] /\ rxAvailIdx = n % NET_IDX_MOD
  /\ rxUsed = [i \in RX!Descs |-> 0] /\ rxUsedIdx = 0 /\ rxLastUsed = 0
  /\ rx_buffer_desc = [b \in NetBuffers |-> CHOOSE i \in 0..(n - 1) : bufs[i + 1] = b]
  /\ TX!virtqueue_alloc
  /\ rxMem = [b \in NetBuffers |-> 0] /\ txMem = 0
  /\ netPc = "idle" /\ netBuf \in NetBuffers /\ netBuf = bufs[1] /\ txHead = TX!Nil /\ netRet = "ok"
  /\ netFrame = 0 /\ netUser = 0 /\ arrived = 0 /\ netOut = 0
  /\ rxDev = 0 /\ txDev = 0 /\ rxWork = RX!Nil /\ txWork = TX!Nil
  /\ netLate \in LateDevices /\ netBroken = FALSE

-----------------------------------------------------------------------------
(* virtio_net_receive.                                                     *)

\* A frame is there: find the buffer of its descriptor, or skip the entry.
Received ==
  /\ netPc = "idle" /\ RX!virtqueue_has_used
  /\ LET match == {b \in NetBuffers : rx_buffer_desc[b] = RX!UsedHead} IN
       IF match = {}
       THEN RX!virtqueue_get_used /\ UNCHANGED <<netPc, netBuf>>
       ELSE netBuf' \in match /\ netPc' = "copy" /\ UNCHANGED rxLastUsed
  /\ UNCHANGED <<rxSize, rxFreeVars, rxAvailVars, rxUsedVars, txVars, rx_buffer_desc, rxMem,
                 txMem, txHead, netRet, netFrame, netUser, netDevVars, netLate>>

CopyFrame ==
  /\ netPc = "copy"
  /\ netUser' = rxMem[netBuf]
  /\ netPc' = "requeue"
  /\ UNCHANGED <<rxVars, txVars, rx_buffer_desc, rxMem, txMem, netBuf, txHead, netRet,
                 netFrame, netDevVars, netLate>>

\* Mutant: every frame that has arrived is taken as read, as a send does.
EntriesRead == rxUsedIdx

\* The used index after one frame.
EntryRead == (rxLastUsed + 1) % NET_IDX_MOD

\* The descriptor goes back to the free list and virtio_net_add_rx_buffer
\* takes one for the buffer, which the device then owns.
Requeue ==
  /\ netPc = "requeue"
  /\ rxLastUsed' = EntryRead
  /\ LET list == RX!virtqueue_free_desc(rxDesc, rxFreeHead, <<rx_buffer_desc[netBuf]>>)
         d    == list.head
     IN /\ rxDesc' = [list.desc EXCEPT ![d] = [addr |-> netBuf, flags |-> {"WRITE"}, next |-> 0]]
        /\ rxFreeHead' = list.desc[d].next
        /\ rx_buffer_desc' = [rx_buffer_desc EXCEPT ![netBuf] = d]
        /\ RX!virtqueue_kick(d)
  /\ netPc' = "idle"
  /\ UNCHANGED <<rxSize, rxFreeCount, rxUsedVars, txVars, rxMem, txMem, netBuf, txHead, netRet,
                 netFrame, netUser, netDevVars, netLate>>

-----------------------------------------------------------------------------
(* virtio_net_send.                                                        *)

\* The stack sends its next frame: a descriptor, then the one buffer is filled.
Send ==
  /\ netPc = "idle"
  /\ IF txFreeHead = TX!Nil
     THEN netRet' = "full" /\ UNCHANGED <<netPc, netFrame, txMem, txHead, txFreeVars>>
     ELSE LET d == txFreeHead IN
          /\ txHead' = d /\ txFreeHead' = txDesc[d].next /\ txFreeCount' = txFreeCount - 1
          /\ netFrame' = NextFrame(netFrame) /\ txMem' = netFrame'
          /\ txDesc' = [txDesc EXCEPT ![d] = [addr |-> "tx_buffer", flags |-> {}, next |-> 0]]
          /\ netPc' = "kick" /\ UNCHANGED netRet
  /\ UNCHANGED <<rxVars, txSize, txAvailVars, txUsedVars, txLastUsed, rx_buffer_desc, rxMem,
                 netBuf, netUser, netDevVars, netLate>>

SendKick ==
  /\ netPc = "kick"
  /\ TX!virtqueue_kick(txHead)
  /\ netPc' = "poll"
  /\ UNCHANGED <<rxVars, txSize, txFreeVars, txUsedVars, txLastUsed, rx_buffer_desc, rxMem,
                 txMem, netBuf, txHead, netRet, netFrame, netUser, netDevVars, netLate>>

\* The call returns and its descriptor is free again, the device done or not.
Returns(ret) ==
  /\ LET list == TX!virtqueue_free_desc(txDesc, txFreeHead, <<txHead>>) IN
       txDesc' = list.desc /\ txFreeHead' = list.head
  /\ txFreeCount' = txFreeCount + 1
  /\ txHead' = TX!Nil /\ netPc' = "idle" /\ netRet' = ret
  /\ UNCHANGED <<rxVars, txSize, txAvailVars, txUsedVars, rx_buffer_desc, rxMem, txMem, netBuf,
                 netFrame, netUser, netDevVars, netLate>>

\* Mutant: the driver does not remember that it has seen the used entry.
NotSeen == txLastUsed

\* All used entries are taken as seen.
Seen == txUsedIdx

\* Any change of the used index ends the wait.
SendDone ==
  /\ netPc = "poll" /\ TX!virtqueue_has_used
  /\ txLastUsed' = Seen
  /\ Returns("ok")

SendTimeout ==
  /\ netPc = "poll" /\ ~TX!virtqueue_has_used /\ (netLate \/ netBroken)
  /\ UNCHANGED txLastUsed
  /\ Returns("timeout")

-----------------------------------------------------------------------------
(* The device.                                                             *)

\* A frame starts to arrive; without a buffer it would be lost before it counts.
RxFill ==
  /\ ~netBroken /\ rxWork = RX!Nil /\ rxDev # rxAvailIdx
  /\ rxWork' = rxAvail[rxDev % rxSize] /\ rxDev' = (rxDev + 1) % NET_IDX_MOD
  /\ rxMem' = [rxMem EXCEPT ![rxDesc[rxWork'].addr] = 0]
  /\ UNCHANGED <<rxVars, txVars, rx_buffer_desc, txMem, netCallVars, txDev, txWork, arrived,
                 netOut, netBroken, netLate>>

RxAnswer ==
  /\ ~netBroken /\ rxWork # RX!Nil
  /\ arrived' = NextFrame(arrived)
  /\ rxMem' = [rxMem EXCEPT ![rxDesc[rxWork].addr] = arrived']
  /\ rxUsed' = [rxUsed EXCEPT ![rxUsedIdx % rxSize] = rxWork]
  /\ rxUsedIdx' = (rxUsedIdx + 1) % NET_IDX_MOD
  /\ rxWork' = RX!Nil
  /\ UNCHANGED <<rxSize, rxFreeVars, rxAvailVars, rxLastUsed, txVars, rx_buffer_desc, txMem,
                 netCallVars, rxDev, txDev, txWork, netOut, netBroken, netLate>>

TxTransmit ==
  /\ ~netBroken /\ txWork = TX!Nil /\ txDev # txAvailIdx
  /\ txWork' = txAvail[txDev % txSize] /\ txDev' = (txDev + 1) % NET_IDX_MOD
  /\ netOut' = txMem
  /\ UNCHANGED <<rxVars, txVars, rx_buffer_desc, rxMem, txMem, netCallVars, rxDev, rxWork,
                 arrived, netBroken, netLate>>

TxAnswer ==
  /\ ~netBroken /\ txWork # TX!Nil
  /\ txUsed' = [txUsed EXCEPT ![txUsedIdx % txSize] = txWork]
  /\ txUsedIdx' = (txUsedIdx + 1) % NET_IDX_MOD
  /\ txWork' = TX!Nil
  /\ UNCHANGED <<rxVars, txSize, txFreeVars, txAvailVars, txLastUsed, rx_buffer_desc, rxMem,
                 txMem, netCallVars, rxDev, txDev, rxWork, arrived, netOut, netBroken, netLate>>

NetDie ==
  /\ ~netBroken /\ netBroken' = TRUE
  /\ UNCHANGED <<rxVars, txVars, rx_buffer_desc, rxMem, txMem, netCallVars, rxDev, txDev,
                 rxWork, txWork, arrived, netOut, netLate>>

-----------------------------------------------------------------------------
NetDriver == Received \/ CopyFrame \/ Requeue \/ Send \/ SendKick \/ SendDone \/ SendTimeout
NetDevice == RxFill \/ RxAnswer \/ TxTransmit \/ TxAnswer \/ NetDie
NetNext   == NetDriver \/ NetDevice

NetSpec == NetInit /\ [][NetNext]_net_vars

-----------------------------------------------------------------------------
(* Properties.                                                             *)

\* The descriptors of the receive buffers and of the send in progress are in
\* use, all others in the free lists, each once (virtio_net.c:393 frees one
\* that the device may still hold, and every receive frees and takes one).
NetQueuesSound ==
  /\ RX!FreeListIntact
  /\ RX!FreeList = (0..(rxSize - 1)) \ {rx_buffer_desc[b] : b \in NetBuffers}
  /\ TX!FreeListIntact /\ TX!FreeList = (0..(txSize - 1)) \ {txHead}

\* virtio_net_receive hands over the frames that arrived in order, none twice,
\* none skipped and none that the device is still writing (virtio_net.c:453).
ReceivedInOrder ==
  [][netPc = "copy" /\ netPc' = "requeue" => netUser' = NextFrame(netUser)]_net_vars

\* With a device that answers in time, frames leave in order and once each,
\* and a send that returns VIRTIO_NET_OK has transmitted its own.
SentInOrder ==
  [][~netLate =>
       /\ txWork = TX!Nil /\ txWork' # TX!Nil => netOut' = NextFrame(netOut)
       /\ netPc = "poll" /\ netPc' = "idle" /\ netRet' = "ok" => netOut = netFrame]_net_vars
=============================================================================

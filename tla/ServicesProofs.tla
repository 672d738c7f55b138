-------------------------- MODULE ServicesProofs --------------------------
(***************************************************************************)
(* Proofs about the NVMe driver and the worker pool, and about the four    *)
(* parts that MCServices puts together.                                    *)
(*                                                                         *)
(* Nvme, for rings of any size: types and the phase bit for controllers of *)
(* any delay; that a call moves what it says it moved, and writes nothing  *)
(* else, is proved for controllers that never answer after the timeout     *)
(* (LATE = FALSE), who may die at any moment.  One command is then under   *)
(* way at a time, and it is the one awaited.                               *)
(*                                                                         *)
(* ParallelPool, for any number of threads, items and calls: a pool that   *)
(* is set up once executes every item of a call exactly once, whatever     *)
(* order its workers run in, and no worker of a call outlives it.          *)
(***************************************************************************)
EXTENDS MCServices, ModelProofs

(* The NVMe driver.                                                        *)

\* The places of the two sides in the completion ring.
RingType ==
  /\ cqHead \in Entries /\ cqTail \in Entries
  /\ cqPhase \in {0, 1} /\ devPhase \in {0, 1}
  /\ cq = [i \in Entries |-> cq[i]]

\* The entries before the controller's place are of this lap, the others of the
\* last one.
LapsWritten == \A i \in Entries : cq[i].phase = IF i < cqTail THEN devPhase ELSE 1 - devPhase

\* The driver is in the controller's lap, or one lap behind it and ahead of it
\* in the ring.
LapsRead == cqPhase = IF cqHead <= cqTail THEN devPhase ELSE 1 - devPhase

RingInv == RingType /\ LapsWritten /\ LapsRead

-----------------------------------------------------------------------------
LEMMA NextEntry ==
  ASSUME NEW i \in Entries
  PROVE  /\ i \in Nat /\ SIZE \in Nat /\ i < SIZE /\ 0 \in Entries
         /\ Next1(i) \in Entries /\ Next1(i) = IF i + 1 = SIZE THEN 0 ELSE i + 1
BY NvmeAssumption DEF Entries, Next1

\* What the invariant says of the head of the ring.
LEMMA HeadPhase == RingInv => PhaseExact
<1> SUFFICES ASSUME RingInv PROVE PhaseExact
  OBVIOUS
<1>1. cqHead \in Nat /\ cqTail \in Nat
  BY NextEntry DEF RingInv, RingType
<1>2. cq[cqHead].phase = IF cqHead < cqTail THEN devPhase ELSE 1 - devPhase
  BY DEF RingInv, RingType, LapsWritten
<1> QED BY <1>1, <1>2 DEF RingInv, RingType, LapsRead, PhaseExact, Posted

LEMMA RingInit == NvmeInit => RingInv
<1> SUFFICES ASSUME NvmeInit PROVE RingInv
  OBVIOUS
<1>1. 0 \in Entries
  BY NvmeAssumption DEF Entries
<1>2. /\ cqHead = 0 /\ cqTail = 0 /\ cqPhase = 1 /\ devPhase = 1
      /\ cq = [i \in Entries |-> [cid |-> 0, phase |-> 0, ok |-> TRUE]]
  BY DEF NvmeInit
<1>3. \A i \in Entries : cq[i].phase = 0 /\ i \in Nat
  BY <1>2 DEF Entries
<1> QED BY <1>1, <1>2, <1>3 DEF RingInv, RingType, LapsWritten, LapsRead

\* The driver takes an entry: one was waiting.
LEMMA CompleteInv ==
  ASSUME RingInv, Complete
  PROVE  RingInv'
<1>0. RingType /\ LapsWritten /\ LapsRead
  BY DEF RingInv
<1>1. /\ cqHead' = Next1(cqHead)
      /\ cqPhase' = IF cqHead' = 0 THEN 1 - cqPhase ELSE cqPhase
      /\ cq' = cq /\ cqTail' = cqTail /\ devPhase' = devPhase
      /\ cq[cqHead].phase = cqPhase
  BY DEF Complete, TakeEntry, Answered, devVars
<1>2. cqHead # cqTail
  BY <1>1, HeadPhase DEF PhaseExact, Posted
<1>3. /\ cqHead \in Nat /\ cqTail \in Nat /\ SIZE \in Nat /\ cqTail < SIZE /\ cqHead < SIZE
      /\ cqHead' \in Entries /\ cqHead' = IF cqHead + 1 = SIZE THEN 0 ELSE cqHead + 1
  BY <1>0, <1>1, NextEntry DEF RingType
<1>4. RingType'
  BY <1>0, <1>1, <1>3 DEF RingType
<1>5. LapsWritten'
  BY <1>0, <1>1 DEF LapsWritten
<1>6. LapsRead'
  BY <1>0, <1>1, <1>2, <1>3 DEF LapsRead, RingType
<1> QED BY <1>4, <1>5, <1>6 DEF RingInv

\* The controller posts an entry, never into a full ring.
LEMMA PostInv ==
  ASSUME RingInv, NEW w, Post(w)
  PROVE  RingInv'
<1> DEFINE e == [cid |-> w.cmd.cid, phase |-> devPhase, ok |-> w.moved]
<1>0. RingType /\ LapsWritten /\ LapsRead
  BY DEF RingInv
<1>1. /\ cq' = [cq EXCEPT ![cqTail] = e]
      /\ cqTail' = Next1(cqTail) /\ cqTail' # cqHead
      /\ devPhase' = IF cqTail' = 0 THEN 1 - devPhase ELSE devPhase
      /\ cqHead' = cqHead /\ cqPhase' = cqPhase
  BY DEF Post, queueVars
<1>2. e.phase = devPhase
  OBVIOUS
<1> HIDE DEF e
<1>3. /\ cqHead \in Nat /\ cqTail \in Nat /\ SIZE \in Nat /\ cqHead < SIZE /\ cqTail < SIZE
      /\ cqTail' \in Entries /\ cqTail' = IF cqTail + 1 = SIZE THEN 0 ELSE cqTail + 1
  BY <1>0, <1>1, NextEntry DEF RingType
<1>4. cq' = [i \in Entries |-> cq'[i]] /\ \A i \in Entries : cq'[i] = IF i = cqTail THEN e ELSE cq[i]
  BY <1>0, <1>1 DEF RingType
<1>5. RingType'
  BY <1>0, <1>1, <1>3, <1>4 DEF RingType
<1>6. LapsWritten'
  <2> SUFFICES ASSUME NEW i \in Entries
               PROVE  cq'[i].phase = IF i < cqTail' THEN devPhase' ELSE 1 - devPhase'
    BY DEF LapsWritten
  <2>1. i \in Nat /\ i < SIZE
    BY NextEntry
  <2>2. cq'[i].phase = IF i <= cqTail THEN devPhase ELSE 1 - devPhase
    BY <1>0, <1>2, <1>3, <1>4, <2>1 DEF LapsWritten
  <2>3. devPhase \in {0, 1}
    BY <1>0 DEF RingType
  <2> QED BY <1>1, <1>3, <2>1, <2>2, <2>3
<1>7. LapsRead'
  BY <1>0, <1>1, <1>3 DEF LapsRead, RingType
<1> QED BY <1>5, <1>6, <1>7 DEF RingInv

LEMMA RingStep ==
  ASSUME RingInv, [NvmeNext]_nvme_vars
  PROVE  RingInv'
<1>1. CASE Complete
  BY <1>1, CompleteInv
<1>2. ASSUME NEW w \in fetched, Post(w) PROVE RingInv'
  BY <1>2, PostInv
<1>3. CASE UNCHANGED <<cq, cqHead, cqTail, cqPhase, devPhase>>
  BY <1>3 DEF RingInv, RingType, LapsWritten, LapsRead
<1>4. ASSUME NEW r \in Requests, Call(r) PROVE UNCHANGED <<cq, cqHead, cqTail, cqPhase, devPhase>>
  BY <1>4 DEF Call, queueVars, devVars
<1>5. CASE Batch \/ Finished \/ Timeout
  BY <1>3, <1>5 DEF Batch, Finished, Timeout, queueVars, devVars
<1>6. CASE Fetch \/ Die
  BY <1>3, <1>6 DEF Fetch, Die, queueVars
<1>7. ASSUME NEW w \in fetched, Move(w) PROVE UNCHANGED <<cq, cqHead, cqTail, cqPhase, devPhase>>
  BY <1>7 DEF Move, queueVars
<1>8. CASE UNCHANGED nvme_vars
  BY <1>3, <1>8 DEF nvme_vars, queueVars, devVars
<1> QED BY <1>1, <1>2, <1>3, <1>4, <1>5, <1>6, <1>7, <1>8 DEF NvmeNext, Driver, Controller

\* The head of the completion ring shows the phase the driver expects exactly
\* when a completion waits there, through every wrap of either side and for
\* controllers of any delay (nvme.c:128 and 134).
THEOREM PhaseExactAlways == NvmeSpec => []PhaseExact
<1>1. NvmeSpec => []RingInv
  BY RingInit, RingStep, PTL DEF NvmeSpec
<1> QED BY <1>1, HeadPhase, PTL

-----------------------------------------------------------------------------
(* The types.                                                              *)

\* Nothing queued or fetched is larger than the bounce buffer, and a call has
\* never moved more than it was asked for.
NvmeTypes ==
  /\ NvmeTypeOK
  /\ done <= call.count
  /\ \A i \in Entries : sq[i].n <= MAX_IO_BLOCKS
  /\ fetched \subseteq [cmd : Commands, slot : Entries, moved : BOOLEAN]
  /\ \A w \in fetched : w.cmd.n <= MAX_IO_BLOCKS
  /\ ioPc = "idle" => done = 0

(* What is under way, when every command is answered in time.              *)

\* The command of the batch that is awaited.
Awaited == [op |-> call.op, cid |-> cid, lba |-> call.lba + done,
            n |-> IF call.op = "flush" THEN 0 ELSE BatchSize]

\* The bounce buffer holds the blocks of a write's batch.
Prepared == call.op = "write" => \A i \in 0..(BatchSize - 1) : ioBuffer[i] = user[done + i]

\* The controller has moved the blocks of the batch.
Arrived ==
  /\ InRange(Awaited)
  /\ \A i \in 0..(BatchSize - 1) :
       /\ call.op = "write" => disk[call.lba + done + i] = user[done + i]
       /\ call.op = "read"  => disk[call.lba + done + i] = ioBuffer[i]

Quiet     == sqTail = sqHead /\ fetched = {} /\ cqTail = cqHead
Submitted == sqTail = Next1(sqHead) /\ sq[sqHead] = Awaited /\ fetched = {} /\ cqTail = cqHead
Serving(w) == /\ sqTail = sqHead /\ fetched = {w} /\ cqTail = cqHead
             /\ w.cmd = Awaited /\ (w.moved => Arrived)
Answer    == /\ sqTail = sqHead /\ fetched = {} /\ cqTail = Next1(cqHead)
             /\ cq[cqHead].cid = cid /\ (cq[cqHead].ok => Arrived)

\* While the controller lives one command is under way, the one awaited; a
\* dead one has left no completion behind.
OneCommand ==
  IF dead THEN cqTail = cqHead
  ELSE IF ioPc = "wait"
       THEN Prepared /\ (Submitted \/ (\E w \in fetched : Serving(w)) \/ Answer)
       ELSE Quiet

NvmeInv == NvmeTypes /\ RingInv /\ OneCommand /\ Moved(done)

-----------------------------------------------------------------------------
LEMMA RequestTypes ==
  ASSUME NEW c \in Requests
  PROVE  /\ c.op \in Ops /\ c.lba \in Nat /\ c.lba < CAPACITY
         /\ c.count \in Nat /\ c.count <= MAX_COUNT /\ MAX_COUNT \in Nat
         /\ c.op = "flush" => c.count = 0
BY NvmeAssumption DEF Requests, Ops, Lbas

LEMMA BatchBounds ==
  ASSUME call \in Requests, done \in Nat, done <= call.count
  PROVE  BatchSize \in Nat /\ BatchSize <= call.count - done /\ BatchSize <= MAX_IO_BLOCKS
<1> DEFINE rest    == call.count - done
           limited == Min({rest, MAX_IO_BLOCKS})
<1>1. rest \in Nat /\ MAX_IO_BLOCKS \in Nat /\ MAX_BLOCKS \in Nat
  BY RequestTypes, NvmeAssumption
<1> HIDE DEF rest
<1>2. limited \in {rest, MAX_IO_BLOCKS} /\ \A y \in {rest, MAX_IO_BLOCKS} : limited <= y
  BY <1>1, MinOfNaturals
<1> HIDE DEF limited
<1>3. limited \in Nat /\ limited <= rest /\ limited <= MAX_IO_BLOCKS
  BY <1>1, <1>2
<1> DEFINE least == Min({limited, MAX_BLOCKS})
<1>4. least \in {limited, MAX_BLOCKS} /\ \A y \in {limited, MAX_BLOCKS} : least <= y
  BY <1>1, <1>3, MinOfNaturals
<1> HIDE DEF least
<1>5. least \in Nat /\ least <= limited
  BY <1>1, <1>3, <1>4
<1>6. BatchSize = IF MAX_BLOCKS > 0 THEN least ELSE limited
  BY DEF BatchSize, least, limited, rest
<1>7. least <= rest /\ least <= MAX_IO_BLOCKS
  BY <1>1, <1>3, <1>5
<1> QED BY <1>3, <1>5, <1>6, <1>7 DEF rest

\* What the types say of a call and its batch.
LEMMA CallTypes ==
  ASSUME NvmeTypes
  PROVE  /\ call \in Requests /\ call.op \in Ops /\ call.lba \in Nat /\ call.lba < CAPACITY
         /\ call.count \in Nat /\ call.count <= MAX_COUNT /\ MAX_COUNT \in Nat
         /\ call.op = "flush" => call.count = 0
         /\ done \in Nat /\ done <= call.count
         /\ BatchSize \in Nat /\ done + BatchSize <= call.count
         /\ BatchSize <= MAX_IO_BLOCKS /\ MAX_IO_BLOCKS \in Nat /\ CAPACITY \in Nat
         /\ call.op = "flush" => BatchSize = 0
<1>1. call \in Requests /\ done \in Nat /\ done <= call.count /\ MAX_IO_BLOCKS \in Nat /\ CAPACITY \in Nat
  BY NvmeAssumption DEF NvmeTypes, NvmeTypeOK
<1>2. BatchSize \in Nat /\ BatchSize <= call.count - done /\ BatchSize <= MAX_IO_BLOCKS
  BY <1>1, BatchBounds
<1>3. /\ call.op \in Ops /\ call.lba \in Nat /\ call.lba < CAPACITY
      /\ call.count \in Nat /\ call.count <= MAX_COUNT /\ MAX_COUNT \in Nat
      /\ call.op = "flush" => call.count = 0
  BY <1>1, RequestTypes
<1>4. done + BatchSize <= call.count
  BY <1>1, <1>2, <1>3
<1>5. call.op = "flush" => BatchSize = 0
  BY <1>1, <1>3, <1>4, <1>2
<1> QED BY <1>1, <1>2, <1>3, <1>4, <1>5

LEMMA TypesInit == NvmeInit => NvmeTypes
<1> SUFFICES ASSUME NvmeInit PROVE NvmeTypes
  OBVIOUS
<1>0. /\ MAX_IO_BLOCKS \in Nat /\ MAX_COUNT \in Nat /\ MAX_OVERLAPS \in Nat /\ CAPACITY \in Nat \ {0}
      /\ CID_MOD \in Nat \ {0} /\ SIZE \in Nat \ {0}
  BY NvmeAssumption
<1>1. 0 \in Entries /\ 0 \in 0..(CID_MOD - 1) /\ 0 \in Lbas /\ 0 \in 0..MAX_COUNT
      /\ 0 \in 0..MAX_OVERLAPS /\ 0 \in -1..MAX_COUNT
  BY <1>0 DEF Entries, Lbas
<1>2. /\ sq = [i \in Entries |-> [op |-> "flush", cid |-> 0, lba |-> 0, n |-> 0]]
      /\ cq = [i \in Entries |-> [cid |-> 0, phase |-> 0, ok |-> TRUE]]
  BY DEF NvmeInit
<1>3. [op |-> "flush", cid |-> 0, lba |-> 0, n |-> 0] \in Commands
  BY <1>1 DEF Commands, Ops
<1>4. [cid |-> 0, phase |-> 0, ok |-> TRUE] \in Entry
  BY <1>1 DEF Entry
<1>5. sq \in [Entries -> Commands] /\ cq \in [Entries -> Entry]
  BY <1>2, <1>3, <1>4
<1>6. \A i \in Entries : sq[i].n <= MAX_IO_BLOCKS
  BY <1>0, <1>2
<1>7. NoCall \in Requests
  BY <1>1 DEF NoCall, Requests
<1>8. PICK d \in Data : /\ ioBuffer = [i \in 0..(MAX_IO_BLOCKS - 1) |-> d]
                        /\ user = [i \in 0..(MAX_COUNT - 1) |-> d]
                        /\ disk = [b \in Lbas |-> d]
  BY DEF NvmeInit
<1>9. /\ ioBuffer \in [0..(MAX_IO_BLOCKS - 1) -> Data] /\ user \in [0..(MAX_COUNT - 1) -> Data]
      /\ disk \in [Lbas -> Data]
  BY <1>8
<1>10. /\ sqTail = 0 /\ cqHead = 0 /\ cqPhase = 1 /\ nextCid = 0 /\ cid = 0
       /\ call = NoCall /\ done = 0 /\ ret = 0 /\ ioPc = "idle" /\ overlaps = 0
       /\ sqHead = 0 /\ cqTail = 0 /\ devPhase = 1 /\ fetched = {} /\ dead = FALSE
  BY DEF NvmeInit
<1>11. call.count = 0
  BY <1>10 DEF NoCall
<1>12. NvmeTypeOK
  BY <1>1, <1>5, <1>7, <1>9, <1>10 DEF NvmeTypeOK
<1> QED BY <1>6, <1>10, <1>11, <1>12 DEF NvmeTypes

\* A call that returns leaves a value in range.
LEMMA ReturnTypes ==
  ASSUME NvmeTypes, NEW r \in -1..MAX_COUNT, Return(r)
  PROVE  /\ ret' \in -1..MAX_COUNT /\ ioPc' = "idle" /\ call' \in Requests
         /\ done' = 0 /\ done' \in 0..MAX_COUNT /\ done' <= call'.count /\ cid' \in 0..(CID_MOD - 1)
<1>1. /\ MAX_COUNT \in Nat /\ CAPACITY \in Nat \ {0} /\ CID_MOD \in Nat \ {0}
  BY NvmeAssumption
<1>2. NoCall \in Requests /\ NoCall.count = 0
  BY <1>1 DEF NoCall, Requests, Lbas
<1> QED BY <1>1, <1>2 DEF Return

LEMMA PartialInRange ==
  ASSUME NvmeTypes
  PROVE  Partial \in -1..MAX_COUNT /\ done \in -1..MAX_COUNT /\ 0 \in -1..MAX_COUNT
BY CallTypes DEF Partial

LEMMA NvmeTypesStep ==
  ASSUME NvmeTypes, [NvmeNext]_nvme_vars
  PROVE  NvmeTypes'
<1>0. /\ NvmeTypeOK /\ \A i \in Entries : sq[i].n <= MAX_IO_BLOCKS
      /\ fetched \subseteq [cmd : Commands, slot : Entries, moved : BOOLEAN]
      /\ \A w \in fetched : w.cmd.n <= MAX_IO_BLOCKS
      /\ done <= call.count /\ (ioPc = "idle" => done = 0)
      /\ CID_MOD \in Nat \ {0} /\ CAPACITY \in Nat \ {0}
  BY NvmeAssumption DEF NvmeTypes
<1>1. ASSUME NEW r \in Requests, Call(r) PROVE NvmeTypes'
  <2>1. /\ ioPc = "idle" /\ (overlaps' = overlaps + 1 \/ overlaps' = overlaps)
        /\ overlaps' <= MAX_OVERLAPS /\ call' = r /\ ret' = 0 /\ ioPc' = "batch" /\ done' = done
        /\ (user' \in [0..(MAX_COUNT - 1) -> Data] \/ user' = user)
        /\ UNCHANGED <<queueVars, cq, ioBuffer, cid, devVars>>
    BY <1>1 DEF Call
  <2>2. done' = 0 /\ r.count \in Nat /\ 0 \in -1..MAX_COUNT /\ MAX_OVERLAPS \in Nat
    BY <1>0, <2>1, RequestTypes, NvmeAssumption
  <2>3. overlaps' \in 0..MAX_OVERLAPS
    BY <1>0, <2>1, <2>2 DEF NvmeTypeOK
  <2>4. NvmeTypeOK'
    BY <1>0, <2>1, <2>2, <2>3 DEF NvmeTypeOK, queueVars, devVars
  <2> QED BY <1>0, <2>1, <2>2, <2>4 DEF NvmeTypes, queueVars, devVars
<1>2. CASE Batch
  <2> DEFINE n == IF call.op = "flush" THEN 0 ELSE BatchSize
             c == [op |-> call.op, cid |-> nextCid, lba |-> call.lba + done, n |-> n]
  <2>1. /\ ioBuffer' = (IF call.op = "write" THEN Filled(n) ELSE ioBuffer)
        /\ sq' = [sq EXCEPT ![sqTail] = c] /\ sqTail' = Next1(sqTail)
        /\ cid' = nextCid /\ nextCid' = (nextCid + 1) % CID_MOD /\ ioPc' = "wait"
        /\ UNCHANGED <<cqHead, cqPhase, cq, call, user, done, ret, overlaps, devVars>>
    BY <1>2 DEF Batch, nvme_submit_cmd
  <2>2. n \in Nat /\ n <= MAX_IO_BLOCKS /\ done + n <= MAX_COUNT
    BY CallTypes
  <2>3. c \in Commands /\ c.n <= MAX_IO_BLOCKS
    <3>1. call.op \in Ops /\ call.lba + done \in Nat /\ nextCid \in 0..(CID_MOD - 1)
      BY <1>0, CallTypes DEF NvmeTypeOK
    <3> HIDE DEF n
    <3> QED BY <2>2, <3>1 DEF Commands
  <2> HIDE DEF c
  <2>4. sq' \in [Entries -> Commands] /\ \A i \in Entries : sq'[i].n <= MAX_IO_BLOCKS
    BY <1>0, <2>1, <2>3 DEF NvmeTypeOK
  <2>5. sqTail' \in Entries
    BY <1>0, <2>1, NextEntry DEF NvmeTypeOK
  <2>6. nextCid' \in 0..(CID_MOD - 1) /\ cid' \in 0..(CID_MOD - 1)
    BY <1>0, <2>1 DEF NvmeTypeOK
  <2> HIDE DEF n
  <2>7. ioBuffer' \in [0..(MAX_IO_BLOCKS - 1) -> Data]
    <3>1. DOMAIN ioBuffer = 0..(MAX_IO_BLOCKS - 1)
      BY <1>0 DEF NvmeTypeOK
    <3>2. ASSUME NEW i \in 0..(MAX_IO_BLOCKS - 1), i < n PROVE user[done + i] \in Data
      <4>1. done + i \in 0..(MAX_COUNT - 1)
        BY <2>2, <3>2, CallTypes
      <4> QED BY <1>0, <4>1 DEF NvmeTypeOK
    <3>3. Filled(n) \in [0..(MAX_IO_BLOCKS - 1) -> Data]
      BY <1>0, <3>1, <3>2 DEF Filled, NvmeTypeOK
    <3> QED BY <1>0, <2>1, <3>3 DEF NvmeTypeOK
  <2>8. NvmeTypeOK'
    BY <1>0, <2>1, <2>4, <2>5, <2>6, <2>7 DEF NvmeTypeOK, devVars
  <2> QED BY <1>0, <2>1, <2>4, <2>8 DEF NvmeTypes, devVars
<1>3. CASE Finished
  <2>1. Return(done) /\ UNCHANGED <<queueVars, cq, ioBuffer, user, overlaps, devVars>>
    BY <1>3 DEF Finished
  <2>2. /\ ret' \in -1..MAX_COUNT /\ ioPc' = "idle" /\ call' \in Requests
        /\ done' = 0 /\ done' \in 0..MAX_COUNT /\ done' <= call'.count /\ cid' \in 0..(CID_MOD - 1)
    BY <2>1, ReturnTypes, PartialInRange
  <2>3. NvmeTypeOK'
    BY <1>0, <2>1, <2>2 DEF NvmeTypeOK, queueVars, devVars
  <2> QED BY <1>0, <2>1, <2>2, <2>3 DEF NvmeTypes, queueVars, devVars
<1>4. CASE Timeout
  <2>1. Return(Partial) /\ UNCHANGED <<queueVars, cq, ioBuffer, user, overlaps, devVars>>
    BY <1>4 DEF Timeout
  <2>2. /\ ret' \in -1..MAX_COUNT /\ ioPc' = "idle" /\ call' \in Requests
        /\ done' = 0 /\ done' \in 0..MAX_COUNT /\ done' <= call'.count /\ cid' \in 0..(CID_MOD - 1)
    BY <2>1, ReturnTypes, PartialInRange
  <2>3. NvmeTypeOK'
    BY <1>0, <2>1, <2>2 DEF NvmeTypeOK, queueVars, devVars
  <2> QED BY <1>0, <2>1, <2>2, <2>3 DEF NvmeTypes, queueVars, devVars
<1>5. CASE Complete
  <2>1. /\ ioPc = "wait" /\ cqHead' = Next1(cqHead)
        /\ cqPhase' = (IF cqHead' = 0 THEN 1 - cqPhase ELSE cqPhase)
        /\ UNCHANGED <<sq, sqTail, nextCid, cq, ioBuffer, overlaps, devVars>>
    BY <1>5 DEF Complete, TakeEntry
  <2>2. cqHead' \in Entries /\ cqPhase' \in {0, 1}
    BY <1>0, <2>1, NextEntry DEF NvmeTypeOK
  <2>3. CASE cq[cqHead].ok /\ call.op # "flush"
    <3>1. /\ user' = (IF call.op = "read"
                      THEN [i \in DOMAIN user |-> IF i >= done /\ i < done + BatchSize
                                                  THEN ioBuffer[i - done] ELSE user[i]]
                      ELSE user)
          /\ done' = done + BatchSize /\ ioPc' = "batch"
          /\ call' = call /\ cid' = cid /\ ret' = ret
      BY <1>5, <2>3 DEF Complete
    <3>2. done' \in 0..MAX_COUNT /\ done' <= call'.count
      BY <3>1, CallTypes
    <3>3. user' \in [0..(MAX_COUNT - 1) -> Data]
      <4>1. DOMAIN user = 0..(MAX_COUNT - 1)
        BY <1>0 DEF NvmeTypeOK
      <4>2. ASSUME NEW i \in 0..(MAX_COUNT - 1), i >= done, i < done + BatchSize
            PROVE  ioBuffer[i - done] \in Data
        <5>1. i - done \in 0..(MAX_IO_BLOCKS - 1)
          BY <4>2, CallTypes
        <5> QED BY <1>0, <5>1 DEF NvmeTypeOK
      <4> QED BY <1>0, <3>1, <4>1, <4>2 DEF NvmeTypeOK
    <3>4. NvmeTypeOK'
      BY <1>0, <2>1, <2>2, <3>1, <3>2, <3>3 DEF NvmeTypeOK, devVars
    <3> QED BY <1>0, <2>1, <3>1, <3>2, <3>4 DEF NvmeTypes, devVars
  <2>4. CASE ~(cq[cqHead].ok /\ call.op # "flush")
    <3>1. /\ Return(IF call.op = "flush" /\ cq[cqHead].ok THEN 0 ELSE Partial) /\ user' = user
      BY <1>5, <2>4 DEF Complete
    <3>2. /\ ret' \in -1..MAX_COUNT /\ ioPc' = "idle" /\ call' \in Requests
          /\ done' = 0 /\ done' \in 0..MAX_COUNT /\ done' <= call'.count /\ cid' \in 0..(CID_MOD - 1)
      BY <3>1, ReturnTypes, PartialInRange
    <3>3. NvmeTypeOK'
      BY <1>0, <2>1, <2>2, <3>1, <3>2 DEF NvmeTypeOK, devVars
    <3> QED BY <1>0, <2>1, <3>2, <3>3 DEF NvmeTypes, devVars
  <2> QED BY <2>3, <2>4
<1>6. CASE Fetch
  <2>1. /\ fetched' = fetched \cup {[cmd |-> sq[sqHead], slot |-> sqHead, moved |-> FALSE]}
        /\ sqHead' = Next1(sqHead)
        /\ UNCHANGED <<queueVars, cq, ioBuffer, callVars, cqTail, devPhase, disk, dead>>
    BY <1>6 DEF Fetch
  <2>2. sqHead' \in Entries /\ sqHead \in Entries /\ sq[sqHead] \in Commands /\ sq[sqHead].n <= MAX_IO_BLOCKS
    BY <1>0, <2>1, NextEntry DEF NvmeTypeOK
  <2> DEFINE f == [cmd |-> sq[sqHead], slot |-> sqHead, moved |-> FALSE]
  <2>2a. f \in [cmd : Commands, slot : Entries, moved : BOOLEAN] /\ f.cmd.n <= MAX_IO_BLOCKS
    BY <2>2
  <2>2b. fetched' = fetched \cup {f}
    BY <2>1
  <2> HIDE DEF f
  <2>3. /\ fetched' \subseteq [cmd : Commands, slot : Entries, moved : BOOLEAN]
        /\ \A w \in fetched' : w.cmd.n <= MAX_IO_BLOCKS
    BY <1>0, <2>2a, <2>2b
  <2>4. NvmeTypeOK'
    BY <1>0, <2>1, <2>2 DEF NvmeTypeOK, queueVars, callVars
  <2> QED BY <1>0, <2>1, <2>3, <2>4 DEF NvmeTypes, queueVars, callVars
<1>7. ASSUME NEW w \in fetched, Move(w) PROVE NvmeTypes'
  <2>1. /\ InRange(w.cmd) /\ fetched' = (fetched \ {w}) \cup {[w EXCEPT !.moved = TRUE]}
        /\ disk' = (IF w.cmd.op = "write"
                    THEN [b \in Lbas |-> IF b >= w.cmd.lba /\ b < w.cmd.lba + w.cmd.n
                                         THEN ioBuffer[b - w.cmd.lba] ELSE disk[b]]
                    ELSE disk)
        /\ ioBuffer' = (IF w.cmd.op = "read"
                        THEN [i \in DOMAIN ioBuffer |-> IF i < w.cmd.n THEN disk[w.cmd.lba + i] ELSE ioBuffer[i]]
                        ELSE ioBuffer)
        /\ UNCHANGED <<queueVars, cq, callVars, sqHead, cqTail, devPhase, dead>>
    BY <1>7 DEF Move
  <2>2. /\ w \in [cmd : Commands, slot : Entries, moved : BOOLEAN]
        /\ w.cmd.lba \in Nat /\ w.cmd.n \in Nat /\ w.cmd.n <= MAX_IO_BLOCKS
    BY <1>0 DEF Commands
  <2>3. w.cmd.lba + w.cmd.n <= CAPACITY /\ MAX_IO_BLOCKS \in Nat
    BY <2>1, NvmeAssumption DEF InRange
  <2> DEFINE v == [w EXCEPT !.moved = TRUE]
  <2>4. v \in [cmd : Commands, slot : Entries, moved : BOOLEAN] /\ v.cmd = w.cmd
    BY <2>2
  <2> HIDE DEF v
  <2>5. /\ fetched' \subseteq [cmd : Commands, slot : Entries, moved : BOOLEAN]
        /\ \A u \in fetched' : u.cmd.n <= MAX_IO_BLOCKS
    BY <1>0, <2>1, <2>2, <2>4 DEF v
  <2>6. disk' \in [Lbas -> Data]
    <3>1. ASSUME NEW b \in Lbas, b >= w.cmd.lba, b < w.cmd.lba + w.cmd.n
          PROVE  ioBuffer[b - w.cmd.lba] \in Data
      <4>1. b - w.cmd.lba \in 0..(MAX_IO_BLOCKS - 1)
        BY <2>2, <2>3, <3>1 DEF Lbas
      <4> QED BY <1>0, <4>1 DEF NvmeTypeOK
    <3> QED BY <1>0, <2>1, <3>1 DEF NvmeTypeOK
  <2>7. ioBuffer' \in [0..(MAX_IO_BLOCKS - 1) -> Data]
    <3>1. ASSUME NEW i \in 0..(MAX_IO_BLOCKS - 1), i < w.cmd.n
          PROVE  disk[w.cmd.lba + i] \in Data
      <4>1. w.cmd.lba + i \in Lbas
        BY <1>0, <2>2, <2>3, <3>1 DEF Lbas
      <4> QED BY <1>0, <4>1 DEF NvmeTypeOK
    <3>2. DOMAIN ioBuffer = 0..(MAX_IO_BLOCKS - 1)
      BY <1>0 DEF NvmeTypeOK
    <3> QED BY <1>0, <2>1, <3>1, <3>2 DEF NvmeTypeOK
  <2>8. NvmeTypeOK'
    BY <1>0, <2>1, <2>6, <2>7 DEF NvmeTypeOK, queueVars, callVars
  <2> QED BY <1>0, <2>1, <2>5, <2>8 DEF NvmeTypes, queueVars, callVars
<1>8. ASSUME NEW w \in fetched, Post(w) PROVE NvmeTypes'
  <2> DEFINE e == [cid |-> w.cmd.cid, phase |-> devPhase, ok |-> w.moved]
  <2>1. /\ cq' = [cq EXCEPT ![cqTail] = e] /\ cqTail' = Next1(cqTail)
        /\ devPhase' = (IF cqTail' = 0 THEN 1 - devPhase ELSE devPhase)
        /\ fetched' = fetched \ {w}
        /\ UNCHANGED <<queueVars, ioBuffer, callVars, sqHead, disk, dead>>
    BY <1>8 DEF Post
  <2>2. e \in Entry
    BY <1>0 DEF Entry, Commands, NvmeTypeOK
  <2> HIDE DEF e
  <2>3. cq' \in [Entries -> Entry] /\ cqTail' \in Entries /\ devPhase' \in {0, 1}
    BY <1>0, <2>1, <2>2, NextEntry DEF NvmeTypeOK
  <2>4. NvmeTypeOK'
    BY <1>0, <2>1, <2>3 DEF NvmeTypeOK, queueVars, callVars
  <2> QED BY <1>0, <2>1, <2>4 DEF NvmeTypes, queueVars, callVars
<1>9. CASE Die
  <2>1. dead' = TRUE /\ UNCHANGED <<queueVars, cq, ioBuffer, callVars, sqHead, cqTail, devPhase, fetched, disk>>
    BY <1>9 DEF Die
  <2>2. NvmeTypeOK'
    BY <1>0, <2>1 DEF NvmeTypeOK, queueVars, callVars
  <2> QED BY <1>0, <2>1, <2>2 DEF NvmeTypes, queueVars, callVars
<1>10. CASE UNCHANGED nvme_vars
  <2>1. NvmeTypeOK'
    BY <1>0, <1>10 DEF NvmeTypeOK, nvme_vars, queueVars, callVars, devVars
  <2> QED BY <1>0, <1>10, <2>1 DEF NvmeTypes, nvme_vars, queueVars, callVars, devVars
<1> QED BY <1>1, <1>2, <1>3, <1>4, <1>5, <1>6, <1>7, <1>8, <1>9, <1>10 DEF NvmeNext, Driver, Controller

\* Type correctness of the driver and its controller, late ones too: the
\* copies through the bounce buffer stay inside the buffers and the disk
\* (nvme.c:462, the batch is cut to the size of the bounce buffer).
THEOREM NvmeTypeCorrect == NvmeSpec => []NvmeTypeOK
<1>1. NvmeTypes => NvmeTypeOK
  BY DEF NvmeTypes
<1> QED BY <1>1, TypesInit, NvmeTypesStep, PTL DEF NvmeSpec

-----------------------------------------------------------------------------
(* One command is under way.                                               *)

\* Nothing that the invariant speaks of has changed.
LEMMA SameBatch ==
  ASSUME call' = call, done' = done
  PROVE  BatchSize' = BatchSize
BY DEF BatchSize

LEMMA OneInit == NvmeInit => OneCommand /\ Moved(done)
<1> SUFFICES ASSUME NvmeInit PROVE OneCommand /\ Moved(done)
  OBVIOUS
<1>1. /\ sqTail = 0 /\ cqHead = 0 /\ call = NoCall /\ done = 0 /\ ioPc = "idle"
      /\ sqHead = 0 /\ cqTail = 0 /\ fetched = {} /\ dead = FALSE
  BY DEF NvmeInit
<1>2. call.count = 0 /\ call.lba = 0
  BY <1>1 DEF NoCall
<1> QED BY <1>1, <1>2, NvmeAssumption DEF OneCommand, Quiet, Moved

\* A call that starts or returns has moved nothing yet.
LEMMA NothingMoved ==
  ASSUME NEW c \in Requests, call' = c, done' = 0
  PROVE  Moved(done)'
<1>1. c.count \in Nat /\ c.lba \in Nat /\ c.lba < CAPACITY
  BY RequestTypes
<1> QED BY <1>1, NvmeAssumption DEF Moved

LEMMA NoCallIsRequest == NoCall \in Requests
BY NvmeAssumption DEF NoCall, Requests, Lbas

\* Calls, and returns that leave nothing under way.
LEMMA OneBetween ==
  ASSUME NvmeInv, ioPc # "wait", ioPc' # "wait", UNCHANGED <<queueVars, devVars>>
  PROVE  OneCommand'
BY DEF NvmeInv, OneCommand, Quiet, queueVars, devVars

LEMMA OneBatch ==
  ASSUME NvmeInv, Batch
  PROVE  OneCommand' /\ Moved(done)'
<1> DEFINE n == IF call.op = "flush" THEN 0 ELSE BatchSize
           c == [op |-> call.op, cid |-> nextCid, lba |-> call.lba + done, n |-> n]
<1>0. NvmeTypes /\ OneCommand /\ Moved(done) /\ ioPc = "batch"
  BY DEF NvmeInv, Batch
<1>1. /\ ioBuffer' = (IF call.op = "write" THEN Filled(n) ELSE ioBuffer)
      /\ sq' = [sq EXCEPT ![sqTail] = c] /\ sqTail' = Next1(sqTail)
      /\ cid' = nextCid /\ ioPc' = "wait" /\ cqHead' = cqHead /\ call' = call /\ user' = user
      /\ done' = done /\ sqHead' = sqHead /\ cqTail' = cqTail /\ fetched' = fetched
      /\ dead' = dead /\ disk' = disk
  BY DEF Batch, nvme_submit_cmd, devVars
<1>2. Moved(done)'
  BY <1>0, <1>1 DEF Moved
<1>3. CASE dead
  <2>1. cqTail' = cqHead' /\ dead'
    BY <1>0, <1>1, <1>3 DEF OneCommand
  <2> QED BY <1>2, <2>1 DEF OneCommand
<1>4. CASE ~dead
  <2>1. Quiet
    BY <1>0, <1>4 DEF OneCommand
  <2>2. BatchSize' = BatchSize
    BY <1>1, SameBatch
  <2>3. Awaited' = c
    BY <1>1, <2>2 DEF Awaited
  <2> HIDE DEF c
  <2>4. sq \in [Entries -> Commands] /\ sqTail \in Entries
    BY <1>0 DEF NvmeTypes, NvmeTypeOK
  <2>5. sq'[sqHead'] = c
    BY <1>1, <2>1, <2>4 DEF Quiet
  <2>6. Submitted'
    BY <1>1, <2>1, <2>3, <2>5 DEF Submitted, Quiet, Next1
  <2>7. Prepared'
    <3> SUFFICES ASSUME call.op = "write", NEW i \in 0..(BatchSize - 1)
                 PROVE  ioBuffer'[i] = user[done + i]
      BY <1>1, <2>2 DEF Prepared
    <3>1. DOMAIN ioBuffer = 0..(MAX_IO_BLOCKS - 1)
      BY <1>0 DEF NvmeTypes, NvmeTypeOK
    <3>2. i \in DOMAIN ioBuffer /\ i < BatchSize
      BY <1>0, <3>1, CallTypes
    <3>3. ioBuffer' = Filled(BatchSize)
      BY <1>1
    <3> QED BY <3>2, <3>3 DEF Filled
  <2> QED BY <1>1, <1>2, <1>4, <2>6, <2>7 DEF OneCommand
<1> QED BY <1>2, <1>3, <1>4

\* The driver takes the answer to its command.
LEMMA OneComplete ==
  ASSUME NvmeInv, Complete
  PROVE  OneCommand' /\ Moved(done)'
<1>0. NvmeTypes /\ OneCommand /\ Moved(done) /\ RingInv /\ ioPc = "wait" /\ Answered
  BY DEF NvmeInv, Complete
<1>1. /\ cqHead' = Next1(cqHead) /\ sqTail' = sqTail /\ sqHead' = sqHead /\ cqTail' = cqTail
      /\ fetched' = fetched /\ dead' = dead /\ disk' = disk /\ ioBuffer' = ioBuffer
  BY DEF Complete, TakeEntry, devVars
<1>2. cqTail # cqHead
  BY <1>0, HeadPhase DEF PhaseExact, Posted, Answered
<1>3. ~dead /\ Answer
  BY <1>0, <1>2 DEF OneCommand, Submitted, Serving
<1>4. sqTail = sqHead /\ fetched = {} /\ cqTail = Next1(cqHead) /\ (cq[cqHead].ok => Arrived)
  BY <1>3 DEF Answer
<1>5. ioPc' # "wait" /\ Moved(done)'
  <2>1. CASE cq[cqHead].ok /\ call.op # "flush"
    <3>1. /\ user' = (IF call.op = "read"
                      THEN [i \in DOMAIN user |-> IF i >= done /\ i < done + BatchSize
                                                  THEN ioBuffer[i - done] ELSE user[i]]
                      ELSE user)
          /\ done' = done + BatchSize /\ ioPc' = "batch" /\ call' = call
      BY <2>1 DEF Complete
    <3>2. /\ call.lba \in Nat /\ done \in Nat /\ BatchSize \in Nat /\ done + BatchSize <= call.count
          /\ call.count \in Nat /\ call.count <= MAX_COUNT /\ MAX_COUNT \in Nat /\ call.op \in Ops
      BY <1>0, CallTypes
    <3>3. call.lba + done + BatchSize <= CAPACITY
      BY <1>4, <2>1 DEF Arrived, InRange, Awaited
    <3>4. ASSUME NEW i \in 0..((done + BatchSize) - 1)
          PROVE  user'[i] = disk[call.lba + i]
      <4>1. i \in DOMAIN user
        <5>1. DOMAIN user = 0..(MAX_COUNT - 1)
          BY <1>0 DEF NvmeTypes, NvmeTypeOK
        <5> QED BY <3>2, <3>4, <5>1
      <4>2. CASE i < done
        <5>1. user[i] = disk[call.lba + i]
          <6>1. i \in 0..(done - 1)
            BY <3>2, <3>4, <4>2
          <6> QED BY <1>0, <6>1 DEF Moved
        <5>2. ~(i >= done)
          BY <3>2, <4>2
        <5>3. user'[i] = user[i]
          BY <3>1, <4>1, <5>2
        <5> QED BY <5>1, <5>3
      <4>3. CASE i >= done
        <5>1. /\ i - done \in 0..(BatchSize - 1) /\ i < done + BatchSize
              /\ (call.lba + done) + (i - done) = call.lba + i /\ done + (i - done) = i
          BY <3>2, <3>4, <4>3
        <5>2. /\ call.op = "write" => disk[call.lba + done + (i - done)] = user[done + (i - done)]
              /\ call.op = "read"  => disk[call.lba + done + (i - done)] = ioBuffer[i - done]
          BY <1>4, <2>1, <5>1 DEF Arrived
        <5>3. CASE call.op = "read"
          <6>1. user'[i] = ioBuffer[i - done]
            BY <3>1, <4>1, <4>3, <5>1, <5>3
          <6> QED BY <5>1, <5>2, <5>3, <6>1
        <5>4. CASE call.op = "write"
          BY <3>1, <5>1, <5>2, <5>4
        <5> QED BY <2>1, <3>2, <5>3, <5>4 DEF Ops
      <4> QED BY <3>2, <4>2, <4>3
    <3>5. Moved(done)'
      <4>1. done' <= call'.count /\ call'.lba + done' <= CAPACITY
        BY <3>1, <3>2, <3>3
      <4>0. done' = done + BatchSize /\ call' = call /\ disk' = disk
        BY <1>1, <3>1
      <4>2. \A i \in 0..(done' - 1) : user'[i] = disk'[call'.lba + i]
        BY <3>4, <4>0
      <4> QED BY <4>1, <4>2 DEF Moved
    <3> QED BY <3>1, <3>5
  <2>2. CASE ~(cq[cqHead].ok /\ call.op # "flush")
    <3>1. ioPc' = "idle" /\ call' = NoCall /\ done' = 0
      BY <2>2 DEF Complete, Return
    <3> QED BY <3>1, NothingMoved, NoCallIsRequest
  <2> QED BY <2>1, <2>2
<1> QED BY <1>1, <1>3, <1>4, <1>5 DEF OneCommand, Quiet

\* Only a dead controller is not waited for.
LEMMA OneTimeout ==
  ASSUME LATE = FALSE, NvmeInv, Timeout
  PROVE  OneCommand' /\ Moved(done)'
<1>1. dead /\ cqTail = cqHead
  BY DEF Timeout, NvmeInv, OneCommand
<1>2. /\ call' = NoCall /\ done' = 0 /\ dead' = dead /\ cqTail' = cqTail /\ cqHead' = cqHead
  BY DEF Timeout, Return, queueVars, devVars
<1> QED BY <1>1, <1>2, NothingMoved, NoCallIsRequest DEF OneCommand

\* The awaited command, with the batch that it is for.
LEMMA AwaitedFields ==
  ASSUME NvmeTypes
  PROVE  /\ Awaited.op = call.op /\ Awaited.cid = cid /\ Awaited.lba = call.lba + done
         /\ Awaited.n = BatchSize
BY CallTypes DEF Awaited

\* The controller fetches the command.
LEMMA OneFetch ==
  ASSUME NvmeInv, Fetch
  PROVE  OneCommand' /\ Moved(done)'
<1>a. PICK w : w = [cmd |-> sq[sqHead], slot |-> sqHead, moved |-> FALSE]
  OBVIOUS
<1>0. NvmeTypes /\ OneCommand /\ Moved(done)
  BY DEF NvmeInv
<1>1. /\ ~dead /\ sqHead # sqTail /\ fetched' = fetched \cup {w} /\ sqHead' = Next1(sqHead)
      /\ dead' = dead /\ cqTail' = cqTail /\ cqHead' = cqHead /\ sqTail' = sqTail
      /\ call' = call /\ done' = done /\ cid' = cid /\ ioPc' = ioPc
      /\ ioBuffer' = ioBuffer /\ user' = user /\ disk' = disk
  BY <1>a DEF Fetch, queueVars, callVars
<1>2. w.cmd = sq[sqHead] /\ w.moved = FALSE
  BY <1>a
<1>3. ioPc = "wait" /\ Prepared /\ Submitted
  BY <1>0, <1>1 DEF OneCommand, Quiet, Serving, Answer
<1>4. BatchSize' = BatchSize
  BY <1>1, SameBatch
<1>5. Awaited' = Awaited
  BY <1>1, <1>4 DEF Awaited
<1>6. Prepared'
  BY <1>1, <1>3, <1>4 DEF Prepared
<1>7. /\ sqTail' = sqHead' /\ fetched' = {w} /\ cqTail' = cqHead' /\ w.cmd = Awaited'
  BY <1>1, <1>2, <1>3, <1>5 DEF Submitted
<1>8. \E v \in fetched' : Serving(v)'
  <2>1. Serving(w)'
    BY <1>2, <1>7 DEF Serving
  <2> QED BY <1>7, <2>1
<1>9. Moved(done)'
  BY <1>0, <1>1 DEF Moved
<1> QED BY <1>1, <1>3, <1>6, <1>8, <1>9 DEF OneCommand

\* What the controller moves for the awaited command.
LEMMA WhatMoves ==
  ASSUME NvmeInv, NEW w \in fetched, Move(w)
  PROVE  /\ ioPc = "wait" /\ Prepared /\ Serving(w) /\ ~w.moved /\ InRange(Awaited)
         /\ w.cmd.op = call.op /\ w.cmd.lba = call.lba + done /\ w.cmd.n = BatchSize
<1>1. ~dead /\ ~w.moved /\ InRange(w.cmd)
  BY DEF Move
<1>2. NvmeTypes /\ OneCommand
  BY DEF NvmeInv
<1>3. ioPc = "wait" /\ Prepared /\ \E v \in fetched : Serving(v)
  BY <1>1, <1>2 DEF OneCommand, Quiet, Submitted, Answer
<1>4. Serving(w)
  BY <1>3 DEF Serving
<1>5. w.cmd = Awaited
  BY <1>4 DEF Serving
<1> QED BY <1>1, <1>2, <1>3, <1>4, <1>5, AwaitedFields

\* A write puts the batch's blocks of the caller's buffer on the disk, and
\* touches nothing else.
LEMMA WhatChanges ==
  ASSUME NvmeInv, NEW w \in fetched, Move(w), NEW b \in Lbas
  PROVE  \/ disk'[b] = disk[b] /\ ~(call.op = "write" /\ b >= call.lba + done /\ b < (call.lba + done) + BatchSize)
         \/ /\ call.op = "write" /\ b >= call.lba + done /\ b < (call.lba + done) + BatchSize
            /\ disk'[b] = user[b - call.lba]
<1>0. NvmeTypes
  BY DEF NvmeInv
<1>1. /\ call.lba \in Nat /\ done \in Nat /\ BatchSize \in Nat /\ b \in Nat
      /\ disk = [x \in Lbas |-> disk[x]]
  BY <1>0, CallTypes DEF Lbas, NvmeTypes, NvmeTypeOK
<1>2. Prepared /\ w.cmd.op = call.op /\ w.cmd.lba = call.lba + done /\ w.cmd.n = BatchSize
  BY WhatMoves
<1>3. disk' = (IF w.cmd.op = "write"
               THEN [x \in Lbas |-> IF x >= w.cmd.lba /\ x < w.cmd.lba + w.cmd.n
                                    THEN ioBuffer[x - w.cmd.lba] ELSE disk[x]]
               ELSE disk)
  BY DEF Move
<1> DEFINE at == call.lba + done
<1>4. disk'[b] = IF call.op = "write" /\ b >= at /\ b < at + BatchSize
                 THEN ioBuffer[b - at] ELSE disk[b]
  BY <1>2, <1>3
<1>5. ASSUME call.op = "write", b >= at, b < at + BatchSize
      PROVE  ioBuffer[b - at] = user[b - call.lba]
  <2>1. b - at \in 0..(BatchSize - 1) /\ done + (b - at) = b - call.lba
    BY <1>1, <1>5
  <2>2. ioBuffer[b - at] = user[done + (b - at)]
    BY <1>2, <1>5, <2>1 DEF Prepared
  <2> QED BY <2>1, <2>2
<1> QED BY <1>4, <1>5

LEMMA OneMove ==
  ASSUME NvmeInv, NEW w \in fetched, Move(w)
  PROVE  OneCommand' /\ Moved(done)'
<1> DEFINE v == [w EXCEPT !.moved = TRUE]
<1>0. /\ NvmeTypes /\ OneCommand /\ Moved(done)
      /\ call.lba \in Nat /\ done \in Nat /\ BatchSize \in Nat /\ call.op \in Ops /\ CAPACITY \in Nat
      /\ BatchSize <= MAX_IO_BLOCKS /\ MAX_IO_BLOCKS \in Nat
  BY CallTypes DEF NvmeInv
<1>1. /\ ~dead /\ fetched' = (fetched \ {w}) \cup {v}
      /\ dead' = dead /\ cqTail' = cqTail /\ cqHead' = cqHead /\ sqTail' = sqTail /\ sqHead' = sqHead
      /\ call' = call /\ done' = done /\ cid' = cid /\ ioPc' = ioPc /\ user' = user
      /\ ioBuffer' = (IF w.cmd.op = "read"
                      THEN [i \in DOMAIN ioBuffer |-> IF i < w.cmd.n THEN disk[w.cmd.lba + i] ELSE ioBuffer[i]]
                      ELSE ioBuffer)
      /\ (w.cmd.op # "write" => disk' = disk)
  BY DEF Move, queueVars, callVars
<1>2. /\ ioPc = "wait" /\ Prepared /\ Serving(w) /\ ~w.moved /\ InRange(Awaited)
      /\ w.cmd.op = call.op /\ w.cmd.lba = call.lba + done /\ w.cmd.n = BatchSize
  BY WhatMoves
<1>3. v.cmd = w.cmd
  BY <1>0 DEF NvmeTypes
<1> HIDE DEF v
<1>4. BatchSize' = BatchSize
  BY <1>1, SameBatch
<1>5. Awaited' = Awaited
  BY <1>1, <1>4 DEF Awaited
<1>6. (call.lba + done) + BatchSize <= CAPACITY
  BY <1>0, <1>2, AwaitedFields DEF InRange
<1>7. Moved(done)'
  <2> SUFFICES ASSUME NEW i \in 0..(done - 1) PROVE user[i] = disk'[call.lba + i]
    BY <1>0, <1>1 DEF Moved
  <2>1. user[i] = disk[call.lba + i]
    BY <1>0 DEF Moved
  <2>2. call.lba + i \in Lbas /\ ~(call.lba + i >= call.lba + done)
    BY <1>0, <1>6 DEF Lbas
  <2>3. disk'[call.lba + i] = disk[call.lba + i]
    BY <2>2, WhatChanges
  <2> QED BY <2>1, <2>3
<1>8. Prepared'
  BY <1>1, <1>2, <1>4 DEF Prepared
<1>9. Arrived'
  <2>1. InRange(Awaited)'
    BY <1>2, <1>5 DEF InRange
  <2>2. ASSUME NEW i \in 0..(BatchSize - 1), call.op = "write"
        PROVE  disk'[call.lba + done + i] = user[done + i]
    <3>1. /\ (call.lba + done) + i \in Lbas /\ (call.lba + done) + i >= call.lba + done
          /\ (call.lba + done) + i < (call.lba + done) + BatchSize
          /\ ((call.lba + done) + i) - call.lba = done + i
      BY <1>0, <1>6 DEF Lbas
    <3> QED BY <2>2, <3>1, WhatChanges
  <2>3. ASSUME NEW i \in 0..(BatchSize - 1), call.op = "read"
        PROVE  disk'[call.lba + done + i] = ioBuffer'[i]
    <3>1. DOMAIN ioBuffer = 0..(MAX_IO_BLOCKS - 1)
      BY <1>0 DEF NvmeTypes, NvmeTypeOK
    <3>2. i \in DOMAIN ioBuffer /\ i < BatchSize
      BY <1>0, <3>1
    <3>3. ioBuffer'[i] = disk[(call.lba + done) + i]
      BY <1>1, <1>2, <2>3, <3>2
    <3>4. disk' = disk
      BY <1>1, <1>2, <2>3
    <3> QED BY <3>3, <3>4
  <2> QED BY <1>1, <1>4, <2>1, <2>2, <2>3 DEF Arrived
<1>10. \E x \in fetched' : Serving(x)'
  <2>1. fetched = {w} /\ sqTail = sqHead /\ cqTail = cqHead /\ w.cmd = Awaited
    BY <1>2 DEF Serving
  <2>2. fetched' = {v}
    BY <1>1, <2>1
  <2>3. Serving(v)'
    BY <1>1, <1>3, <1>5, <1>9, <2>1, <2>2 DEF Serving
  <2> QED BY <2>2, <2>3
<1> QED BY <1>1, <1>2, <1>7, <1>8, <1>10 DEF OneCommand

\* The controller answers.
LEMMA OnePost ==
  ASSUME NvmeInv, NEW w \in fetched, Post(w)
  PROVE  OneCommand' /\ Moved(done)'
<1> DEFINE e == [cid |-> w.cmd.cid, phase |-> devPhase, ok |-> w.moved]
<1>0. NvmeTypes /\ OneCommand /\ Moved(done)
  BY DEF NvmeInv
<1>1. /\ ~dead /\ fetched' = fetched \ {w} /\ cq' = [cq EXCEPT ![cqTail] = e]
      /\ cqTail' = Next1(cqTail)
      /\ dead' = dead /\ cqHead' = cqHead /\ sqTail' = sqTail /\ sqHead' = sqHead
      /\ call' = call /\ done' = done /\ cid' = cid /\ ioPc' = ioPc
      /\ ioBuffer' = ioBuffer /\ user' = user /\ disk' = disk
  BY DEF Post, queueVars, callVars
<1>2. e.cid = w.cmd.cid /\ e.ok = w.moved
  OBVIOUS
<1> HIDE DEF e
<1>3. ioPc = "wait" /\ Prepared /\ \E v \in fetched : Serving(v)
  BY <1>0, <1>1 DEF OneCommand, Quiet, Submitted, Answer
<1>4. /\ fetched = {w} /\ sqTail = sqHead /\ cqTail = cqHead /\ w.cmd = Awaited /\ (w.moved => Arrived)
  BY <1>3 DEF Serving
<1>5. BatchSize' = BatchSize
  BY <1>1, SameBatch
<1>6. Prepared'
  BY <1>1, <1>3, <1>5 DEF Prepared
<1>7. Arrived => Arrived'
  BY <1>1, <1>5 DEF Arrived, InRange, Awaited
<1>8. cq'[cqHead'] = e
  BY <1>0, <1>1, <1>4 DEF NvmeTypes, NvmeTypeOK
<1>9. e.cid = cid
  BY <1>0, <1>2, <1>4, AwaitedFields
<1>10. Answer'
  BY <1>1, <1>2, <1>4, <1>7, <1>8, <1>9 DEF Answer
<1>11. Moved(done)'
  BY <1>0, <1>1 DEF Moved
<1> QED BY <1>1, <1>3, <1>6, <1>10, <1>11 DEF OneCommand

\* A controller dies with the command on its hands, unanswered.
LEMMA OneDie ==
  ASSUME NvmeInv, Die
  PROVE  OneCommand' /\ Moved(done)'
<1>1. /\ ~dead /\ (sqHead # sqTail \/ fetched # {}) /\ dead' = TRUE
      /\ cqTail' = cqTail /\ cqHead' = cqHead /\ call' = call /\ done' = done
      /\ user' = user /\ disk' = disk
  BY DEF Die, queueVars, callVars
<1>2. cqTail = cqHead
  BY <1>1 DEF NvmeInv, OneCommand, Quiet, Submitted, Serving, Answer
<1>3. Moved(done)'
  BY <1>1 DEF NvmeInv, Moved
<1> QED BY <1>1, <1>2, <1>3 DEF OneCommand

LEMMA NvmeStep ==
  ASSUME LATE = FALSE, NvmeInv, [NvmeNext]_nvme_vars
  PROVE  NvmeInv'
<1>0. NvmeTypes /\ RingInv /\ OneCommand /\ Moved(done)
  BY DEF NvmeInv
<1>1. NvmeTypes' /\ RingInv'
  BY <1>0, NvmeTypesStep, RingStep
<1> SUFFICES OneCommand' /\ Moved(done)'
  BY <1>1 DEF NvmeInv
<1>2. ASSUME NEW r \in Requests, Call(r) PROVE OneCommand' /\ Moved(done)'
  <2>1. ioPc = "idle" /\ ioPc' = "batch" /\ done' = done /\ call' = r /\ UNCHANGED <<queueVars, devVars>>
    BY <1>2 DEF Call
  <2>2. done' = 0
    BY <1>0, <2>1 DEF NvmeTypes
  <2> QED BY <2>1, <2>2, OneBetween, NothingMoved
<1>3. CASE Finished
  <2>1. /\ ioPc = "batch" /\ ioPc' = "idle" /\ done' = 0 /\ call' = NoCall
        /\ UNCHANGED <<queueVars, devVars>>
    BY <1>3 DEF Finished, Return
  <2> QED BY <2>1, OneBetween, NothingMoved, NoCallIsRequest
<1>4. CASE UNCHANGED nvme_vars
  <2>1. BatchSize' = BatchSize
    BY <1>4, SameBatch DEF nvme_vars, callVars
  <2>2. Moved(done)'
    BY <1>0, <1>4 DEF Moved, nvme_vars, callVars, devVars
  <2>3. UNCHANGED <<sq, sqTail, cqHead, cq, ioBuffer, call, user, done, cid, ioPc, sqHead, cqTail, fetched, disk, dead>>
    BY <1>4 DEF nvme_vars, queueVars, callVars, devVars
  <2>4. OneCommand'
    BY <1>0, <2>1, <2>3 DEF OneCommand, Prepared, Submitted, Serving, Answer, Quiet, Awaited, Arrived, InRange, Next1
  <2> QED BY <2>2, <2>4
<1>5. ASSUME NEW w \in fetched, Move(w) \/ Post(w) PROVE OneCommand' /\ Moved(done)'
  BY <1>5, OneMove, OnePost
<1> QED BY <1>2, <1>3, <1>4, <1>5, OneBatch, OneComplete, OneTimeout, OneFetch, OneDie
        DEF NvmeNext, Driver, Controller

\* While every command is answered in time, one command is under way at a
\* time, and it is the awaited one.
THEOREM NvmeInvariant ==
  ASSUME LATE = FALSE
  PROVE  NvmeSpec => []NvmeInv
<1>1. NvmeInit => NvmeInv
  BY TypesInit, RingInit, OneInit DEF NvmeInv
<1> QED BY <1>1, NvmeStep, PTL DEF NvmeSpec

\* A read or write that returns k, whatever fails in the middle and even when
\* the controller dies, has moved the first k blocks (nvme.c:484 and 534),
\* provided that no live controller answers late.
THEOREM ReturnsMovedTimely ==
  ASSUME LATE = FALSE
  PROVE  NvmeSpec => ReturnsMoved
<1>1. NvmeInv /\ [NvmeNext]_nvme_vars => [ioPc # "idle" /\ ioPc' = "idle" /\ ret' > 0 => Moved(ret')]_nvme_vars
  <2> SUFFICES ASSUME NvmeInv, NvmeNext, ioPc # "idle", ioPc' = "idle", ret' > 0
               PROVE  Moved(ret')
    OBVIOUS
  <2>1. Moved(done)
    BY DEF NvmeInv
  <2>2. ret' = done
    <3>1. CASE Finished
      BY <3>1 DEF Finished, Return
    <3>2. CASE Timeout
      BY <3>2 DEF Timeout, Return, Partial
    <3>3. CASE Complete
      BY <3>3 DEF Complete, Return, Partial
    <3>4. ASSUME NEW r \in Requests, Call(r) PROVE FALSE
      BY <3>4 DEF Call
    <3>5. CASE Batch
      BY <3>5 DEF Batch
    <3>6. CASE Fetch \/ Die \/ \E w \in fetched : Move(w) \/ Post(w)
      BY <3>6 DEF Fetch, Die, Move, Post, callVars
    <3> QED BY <3>1, <3>2, <3>3, <3>4, <3>5, <3>6 DEF NvmeNext, Driver, Controller
  <2> QED BY <2>1, <2>2
<1> QED BY <1>1, NvmeInvariant, PTL DEF NvmeSpec, ReturnsMoved

\* The disk changes only where the write in progress says, and to the
\* caller's data (nvme.c:507, the batch at lba + blocks_written).
THEOREM DiskIntendedTimely ==
  ASSUME LATE = FALSE
  PROVE  NvmeSpec => DiskIntended
<1> DEFINE Intended == \A b \in Lbas : disk'[b] # disk[b] =>
                         /\ ioPc = "wait" /\ call.op = "write"
                         /\ b \in call.lba..(call.lba + call.count - 1)
                         /\ disk'[b] = user[b - call.lba]
<1>1. NvmeInv /\ [NvmeNext]_nvme_vars => [Intended]_nvme_vars
  <2> SUFFICES ASSUME NvmeInv, NvmeNext, NEW b \in Lbas, disk'[b] # disk[b]
               PROVE  /\ ioPc = "wait" /\ call.op = "write"
                      /\ b \in call.lba..(call.lba + call.count - 1)
                      /\ disk'[b] = user[b - call.lba]
    OBVIOUS
  <2>1. PICK w \in fetched : Move(w)
    <3>1. (\E w \in fetched : Move(w)) \/ disk' = disk
      BY DEF NvmeNext, Driver, Controller, Call, Batch, Finished, Complete, Timeout, Fetch, Die, Post, devVars
    <3> QED BY <3>1
  <2>2. /\ call.op = "write" /\ b >= call.lba + done /\ b < (call.lba + done) + BatchSize
        /\ disk'[b] = user[b - call.lba]
    BY <2>1, WhatChanges
  <2>3. ioPc = "wait"
    BY <2>1, WhatMoves
  <2>4. /\ call.lba \in Nat /\ done \in Nat /\ BatchSize \in Nat /\ call.count \in Nat
        /\ done + BatchSize <= call.count /\ b \in Nat
    BY CallTypes DEF NvmeInv, Lbas
  <2>5. b \in call.lba..(call.lba + call.count - 1)
    BY <2>2, <2>4
  <2> QED BY <2>2, <2>3, <2>5
<1> QED BY <1>1, NvmeInvariant, PTL DEF NvmeSpec, DiskIntended

-----------------------------------------------------------------------------
(* The worker pool.                                                        *)

\* One size of pool, which is set up once.
Steady ==
  /\ MAX_CONFIGS <= 1
  /\ \A m, n \in ThreadCounts : Clamp(m) = Clamp(n)

Size == pool.numThreads
\* Workers that have seen the call's signal and not yet counted themselves done.
Busy == {"fetch", "done"} \cup WorkPcs

PoolTypes ==
  /\ pool \in [initialized : BOOLEAN, shutdown : BOOLEAN, numThreads : 0..PARALLEL_MAX_THREADS,
               hasWork : BOOLEAN, available : BOOLEAN, done : 0..MAX_WORKERS]
  /\ workerTask \in [Threads -> 0..MAX_WORKERS] /\ deterministic \in BOOLEAN
  /\ work \in [total : 0..MAX_TOTAL, chunk : {-1} \cup (Nat \ {0}), next : Nat, completed : Nat]
  /\ task \in [Tasks -> [pc : MainPcs \cup WorkerPcs \cup WorkPcs, tid : Threads,
                         lo : Items, hi : Items]]
  /\ hits \in [Items -> Nat]
  /\ spawn \in 1..PARALLEL_MAX_THREADS /\ created \in 0..MAX_WORKERS
  /\ calls \in Nat /\ configs \in Nat

\* The flags say where the caller is.
Flags ==
  /\ pool.hasWork <=> InCall /\ ~At(Caller, "publish")
  /\ pool.available <=> task[Caller].pc \in {"waitItems", "waitWorkers", "clear"} \cup WorkPcs
  /\ task[Caller].pc \in {"spawn", "register"} => ~pool.initialized /\ ~pool.shutdown
  /\ InCall => pool.initialized /\ Size >= 2
  /\ task[Caller].pc \in {"publish", "signal"} => pool.done = 0

\* The pool has no more workers than it waits for.
Enough ==
  /\ \A n \in ThreadCounts : created < Clamp(n)
  /\ pool.initialized => created < Size
  /\ task[Caller].pc = "idle" /\ ~pool.initialized /\ created > 0 => configs >= 1
  /\ At(Caller, "spawn") => created = spawn - 1 /\ spawn <= Size
  /\ At(Caller, "register") => created = spawn /\ spawn < Size
  /\ task[Caller].pc \in {"spawn", "register"} => \A n \in ThreadCounts : Size = Clamp(n)

\* Where the workers may be.
WorkersInv ==
  /\ \A w \in Workers : At(w, "none") <=> w > created
  /\ \A w \in Workers : task[w].pc \notin {"none", "start", "dead"} => task[w].tid = w
  /\ \A i \in Threads \ {0} : workerTask[i] \in {0, i}
  /\ task[Caller].tid = 0
  /\ ~pool.available => \A w \in Workers : task[w].pc \notin Busy
  /\ task[Caller].pc \in {"spawn", "register"} \/ (pool.shutdown /\ pool.initialized)
       => \A w \in Workers : task[w].pc \notin Busy \cup {"drain"}

\* The workers of F are those that have counted themselves done in this call.
Counted(F) == pool.done = Cardinality(F) /\ \A w \in F : At(w, "drain")

Span(t) == FixedRange(t)[1]..(FixedRange(t)[2] - 1)

\* The tasks that have executed their share of this call.
Past(F) == {t \in Tasks : \/ t \in F
                          \/ task[t].pc \in {"add", "done"}
                          \/ t = Caller /\ task[t].pc \in {"waitItems", "waitWorkers"}}

Fixed(F) ==
  /\ \A t \in Tasks : ~At(t, "take")
  /\ \A t \in Tasks : task[t].pc \in {"run", "add"} => <<task[t].lo, task[t].hi>> = FixedRange(t)
  /\ \A i \in Items : hits[i] = IF \E t \in Past(F) : i \in Span(t) THEN 1 ELSE 0

Claimed ==
  /\ task[Caller].pc \in {"waitItems", "waitWorkers"} => work.next >= work.total
  /\ \A t \in Tasks : task[t].pc \in {"run", "add"} => task[t].hi <= work.next /\ task[t].hi <= work.total
  /\ \A t, u \in Tasks : t # u /\ At(t, "run") /\ At(u, "run")
       => task[t].hi <= task[u].lo \/ task[u].hi <= task[t].lo
  /\ \A i \in Items : hits[i] = IF i < work.total /\ i < work.next
                                   /\ (\A t \in Tasks : At(t, "run") => i \notin Mine(t))
                                THEN 1 ELSE 0

AllHit == \A i \in Items : hits[i] = IF i < work.total THEN 1 ELSE 0

Share(F) == IF work.chunk = -1 THEN Fixed(F) ELSE Claimed

CallInv ==
  /\ InCall /\ task[Caller].pc \notin {"clear", "forget"}
       => \E F \in SUBSET Workers : Counted(F) /\ Share(F)
  /\ At(Caller, "clear") => \A w \in Workers : At(w, "none") \/ At(w, "drain")
  /\ task[Caller].pc \in {"clear", "forget"} => AllHit

CallersPlace == task[Caller].pc \in MainPcs \cup WorkPcs /\ \A w \in Workers : task[w].pc \in WorkerPcs \cup WorkPcs

PoolInv == PoolTypes /\ CallersPlace /\ Flags /\ Enough /\ WorkersInv /\ CallInv

-----------------------------------------------------------------------------
(* The ranges of deterministic mode.                                       *)

TaskRec == [pc : MainPcs \cup WorkerPcs \cup WorkPcs, tid : Threads, lo : Items, hi : Items]

\* The first item of thread t among n.
Low(total, n, t) ==
  t * (total \div n) + (IF t < total % n THEN t ELSE total % n)

LEMMA Sizes ==
  /\ PARALLEL_MAX_THREADS \in Nat \ {0} /\ MAX_WORKERS \in Nat /\ MAX_TOTAL \in Nat
  /\ 0..MAX_TOTAL \subseteq Items /\ 0 \in Items /\ Items \subseteq Nat
  /\ 0 \in Threads /\ Threads \subseteq Nat
  /\ \A t \in Threads : t < PARALLEL_MAX_THREADS
  /\ Caller \in Tasks /\ Workers \subseteq Tasks /\ Caller \notin Workers /\ Workers \subseteq Nat
  /\ \A t \in Tasks : t = Caller \/ t \in Workers
<1>1. PARALLEL_MAX_THREADS \in Nat \ {0} /\ MAX_WORKERS \in Nat /\ MAX_TOTAL \in Nat
  BY PoolAssumption
<1> DEFINE k == (PARALLEL_MAX_THREADS - 1) * (MAX_TOTAL + 1)
<1>2. PARALLEL_MAX_THREADS * (MAX_TOTAL + 1) = k + (MAX_TOTAL + 1) /\ k \in Nat
  BY <1>1
<1> HIDE DEF k
<1>3. 0..MAX_TOTAL \subseteq Items /\ 0 \in Items /\ Items \subseteq Nat
  BY <1>1, <1>2 DEF Items
<1> QED BY <1>1, <1>3 DEF Threads, Workers, Tasks, Caller

\* Division, and its remainder.
LEMMA Shares ==
  ASSUME NEW total \in Nat, NEW n \in Nat \ {0}
  PROVE  /\ total \div n \in Nat /\ total % n \in 0..(n - 1)
         /\ total = n * (total \div n) + (total % n)
OBVIOUS

LEMMA LowStarts ==
  ASSUME NEW total \in Nat, NEW n \in Nat \ {0}
  PROVE  Low(total, n, 0) = 0 /\ Low(total, n, n) = total
<1> DEFINE q == total \div n
           r == total % n
<1>1. q \in Nat /\ r \in 0..(n - 1) /\ total = n * q + r
  BY Shares
<1>2. Low(total, n, 0) = 0 * q + (IF 0 < r THEN 0 ELSE r) /\ Low(total, n, n) = n * q + (IF n < r THEN n ELSE r)
  BY DEF Low
<1> HIDE DEF q, r
<1>3. 0 * q = 0 /\ n * q \in Nat
  BY <1>1
<1> QED BY <1>1, <1>2, <1>3

LEMMA LowSteps ==
  ASSUME NEW total \in Nat, NEW n \in Nat \ {0}, NEW t \in Nat
  PROVE  /\ Low(total, n, t) \in Nat
         /\ Low(total, n, t + 1) = (Low(total, n, t) + (total \div n)) + (IF t < total % n THEN 1 ELSE 0)
<1> DEFINE q == total \div n
           r == total % n
<1>1. q \in Nat /\ r \in Nat
  BY Shares
<1>2. /\ Low(total, n, t) = t * q + (IF t < r THEN t ELSE r)
      /\ Low(total, n, t + 1) = (t + 1) * q + (IF t + 1 < r THEN t + 1 ELSE r)
  BY DEF Low
<1> HIDE DEF q, r
<1>3. (t + 1) * q = t * q + q /\ t * q \in Nat
  BY <1>1
<1>4. Low(total, n, t + 1) = (Low(total, n, t) + q) + (IF t < r THEN 1 ELSE 0)
  BY <1>1, <1>2, <1>3
<1> QED BY <1>1, <1>2, <1>3, <1>4 DEF q, r

LEMMA LowNat == \A total \in Nat, n \in Nat \ {0}, t \in Nat : Low(total, n, t) \in Nat
BY LowSteps

LEMMA LowGrows ==
  ASSUME NEW total \in Nat, NEW n \in Nat \ {0}, NEW t \in Nat, NEW u \in Nat, t <= u
  PROVE  Low(total, n, t) <= Low(total, n, u)
<1> DEFINE q == total \div n
           r == total % n
<1>1. q \in Nat /\ r \in Nat
  BY Shares
<1>2. /\ Low(total, n, t) = t * q + (IF t < r THEN t ELSE r)
      /\ Low(total, n, u) = u * q + (IF u < r THEN u ELSE r)
  BY DEF Low
<1> HIDE DEF q, r
<1>3. u * q = t * q + (u - t) * q /\ (u - t) * q \in Nat /\ t * q \in Nat
  BY <1>1
<1> QED BY <1>1, <1>2, <1>3

\* The range of thread t.
SpanOf(total, n, t) == Low(total, n, t)..(Low(total, n, t + 1) - 1)

\* No item is in two ranges.
LEMMA SpansApart ==
  ASSUME NEW total \in Nat, NEW n \in Nat \ {0}, NEW t \in Nat, NEW u \in Nat, t # u
  PROVE  SpanOf(total, n, t) \cap SpanOf(total, n, u) = {}
<1>1. CASE t < u
  <2>1. Low(total, n, t + 1) <= Low(total, n, u)
    BY <1>1, LowGrows
  <2>2. /\ Low(total, n, t + 1) \in Nat /\ Low(total, n, u) \in Nat
        /\ Low(total, n, t) \in Nat /\ Low(total, n, u + 1) \in Nat
    <3>1. t + 1 \in Nat /\ u + 1 \in Nat
      OBVIOUS
    <3> QED BY <3>1, LowNat
  <2> QED BY <2>1, <2>2 DEF SpanOf
<1>2. CASE u < t
  <2>1. Low(total, n, u + 1) <= Low(total, n, t)
    BY <1>2, LowGrows
  <2>2. /\ Low(total, n, t + 1) \in Nat /\ Low(total, n, u) \in Nat
        /\ Low(total, n, t) \in Nat /\ Low(total, n, u + 1) \in Nat
    <3>1. t + 1 \in Nat /\ u + 1 \in Nat
      OBVIOUS
    <3> QED BY <3>1, LowNat
  <2> QED BY <2>1, <2>2 DEF SpanOf
<1> QED BY <1>1, <1>2

\* The ranges hold the items of the work, and no other.
LEMMA SpansCover ==
  ASSUME NEW total \in Nat, NEW n \in Nat \ {0}, NEW i \in Nat
  PROVE  i < total <=> \E t \in 0..(n - 1) : i \in SpanOf(total, n, t)
<1>1. ASSUME i < total PROVE \E t \in 0..(n - 1) : i \in SpanOf(total, n, t)
  <2> DEFINE S == {t \in 0..n : Low(total, n, t) > i}
             m == Min(S)
  <2>1. n \in S /\ S \in SUBSET Nat
    BY <1>1, LowStarts
  <2>2. m \in S /\ \A y \in S : m <= y
    BY <2>1, MinOfNaturals
  <2> HIDE DEF m
  <2>3. m \in 0..n /\ Low(total, n, m) > i
    BY <2>2
  <2>4. m # 0
    BY <2>3, LowStarts
  <2>5. (m - 1) \in 0..(n - 1) /\ (m - 1) + 1 = m /\ (m - 1) \in 0..n /\ (m - 1) \in Nat
    BY <2>3, <2>4
  <2>6. (m - 1) \notin S
    BY <2>2, <2>5
  <2>7. Low(total, n, m - 1) \in Nat /\ Low(total, n, m) \in Nat
    <3>1. m \in Nat
      BY <2>3
    <3> QED BY <2>5, <3>1, LowNat
  <2>8. Low(total, n, m - 1) <= i
    BY <2>5, <2>6, <2>7
  <2>9. i \in SpanOf(total, n, m - 1)
    BY <2>3, <2>5, <2>7, <2>8 DEF SpanOf
  <2> QED BY <2>5, <2>9
<1>2. ASSUME NEW t \in 0..(n - 1), i \in SpanOf(total, n, t) PROVE i < total
  <2>1. Low(total, n, t + 1) <= Low(total, n, n)
    BY LowGrows
  <2>2. Low(total, n, t + 1) \in Nat /\ Low(total, n, t) \in Nat /\ Low(total, n, n) = total
    <3>1. t \in Nat /\ t + 1 \in Nat
      OBVIOUS
    <3> QED BY <3>1, LowNat, LowStarts
  <2> QED BY <1>2, <2>1, <2>2 DEF SpanOf
<1> QED BY <1>1, <1>2

\* The same of the range that a thread computes.
LEMMA FixedRangeIs ==
  ASSUME NEW t \in Nat, work.total \in Nat, Size \in Nat \ {0}
  PROVE  /\ FixedRange(t) = <<Low(work.total, Size, t), Low(work.total, Size, t + 1)>>
         /\ Span(t) = SpanOf(work.total, Size, t)
<1> DEFINE n == work.total
           s == Size
<1>1. /\ FixedRange(t) = <<Low(n, s, t), (Low(n, s, t) + (n \div s)) + (IF t < n % s THEN 1 ELSE 0)>>
  BY DEF FixedRange, Low, Size
<1>2. Low(n, s, t + 1) = (Low(n, s, t) + (n \div s)) + (IF t < n % s THEN 1 ELSE 0)
  BY LowSteps
<1>3. FixedRange(t) = <<Low(n, s, t), Low(n, s, t + 1)>>
  BY <1>1, <1>2
<1> HIDE DEF n, s
<1> QED BY <1>3 DEF Span, SpanOf, n, s

LEMMA SomeWorkers ==
  ASSUME NEW F \in SUBSET Workers
  PROVE  IsFiniteSet(F) /\ Cardinality(F) \in Nat /\ Cardinality(F) <= MAX_WORKERS
<1>1. 1 \in Int /\ MAX_WORKERS \in Int /\ MAX_WORKERS \in Nat
  BY Sizes
<1>2. IsFiniteSet(Workers) /\ Cardinality(Workers) = MAX_WORKERS
  BY <1>1, FS_Interval DEF Workers
<1> QED BY <1>2, FS_Subset, FS_CardinalityType

-----------------------------------------------------------------------------
(* Steps that only move a task.                                            *)

\* Task t goes to p, and nothing else of the tasks changes.
Moves(t, p) ==
  /\ task' \in [Tasks -> TaskRec] /\ task'[t].pc = p
  /\ task'[t].tid = task[t].tid /\ task'[t].lo = task[t].lo /\ task'[t].hi = task[t].hi
  /\ \A u \in Tasks \ {t} : task'[u] = task[u]

LEMMA GoesTo ==
  ASSUME PoolTypes, NEW t \in Tasks, NEW p \in MainPcs \cup WorkerPcs \cup WorkPcs, Goes(t, p)
  PROVE  Moves(t, p)
<1>1. task \in [Tasks -> TaskRec] /\ task' = [task EXCEPT ![t].pc = p]
  BY DEF PoolTypes, Goes, TaskRec
<1>2. task'[t] = [task[t] EXCEPT !.pc = p] /\ task[t] \in TaskRec
  BY <1>1
<1>3. task'[t] \in TaskRec /\ task'[t].pc = p /\ task'[t].tid = task[t].tid
      /\ task'[t].lo = task[t].lo /\ task'[t].hi = task[t].hi
  BY <1>2 DEF TaskRec
<1>4. \A u \in Tasks \ {t} : task'[u] = task[u]
  BY <1>1
<1>5. task' \in [Tasks -> TaskRec]
  BY <1>1, <1>2, <1>3
<1> QED BY <1>3, <1>4, <1>5 DEF Moves

\* The parts of the state that only configurations change.
Fixtures == <<workerTask, deterministic, spawn, created, calls, configs>>

\* The call's accounts in the two modes, when no task takes or executes items.
LEMMA FixedKept ==
  ASSUME NEW F, NEW G, Fixed(F), hits' = hits, work'.total = work.total,
         pool'.numThreads = pool.numThreads, Past(G)' = Past(F),
         \A t \in Tasks : task'[t].pc # "take",
         \A t \in Tasks : task'[t].pc \in {"run", "add"} => <<task'[t].lo, task'[t].hi>> = FixedRange(t)
  PROVE  Fixed(G)'
<1>1. \A t : FixedRange(t)' = FixedRange(t) /\ Span(t)' = Span(t)
  BY DEF FixedRange, Span
<1>2. \A i \in Items : hits'[i] = IF \E t \in Past(G)' : i \in Span(t)' THEN 1 ELSE 0
  <2> SUFFICES ASSUME NEW i \in Items
               PROVE  hits'[i] = IF \E t \in Past(G)' : i \in Span(t)' THEN 1 ELSE 0
    OBVIOUS
  <2>1. (\E t \in Past(G)' : i \in Span(t)') <=> (\E t \in Past(F) : i \in Span(t))
    BY <1>1
  <2> QED BY <2>1 DEF Fixed
<1> QED BY <1>1, <1>2 DEF Fixed, At

LEMMA ClaimedKept ==
  ASSUME Claimed, hits' = hits, work'.total = work.total, work'.next = work.next,
         \A t \in Tasks : task'[t].pc = "run" <=> task[t].pc = "run",
         \A t \in Tasks : task'[t].pc \in {"run", "add"} => task'[t] = task[t],
         task'[Caller].pc \in {"waitItems", "waitWorkers"}
           => task[Caller].pc \in {"waitItems", "waitWorkers"}
  PROVE  Claimed'
<1>1. \A t \in Tasks : (At(t, "run") <=> At(t, "run")') /\ (At(t, "run") => Mine(t)' = Mine(t))
  BY DEF At, Mine
<1>2. \A i \in Items : hits'[i] = IF i < work'.total /\ i < work'.next
                                      /\ (\A t \in Tasks : At(t, "run")' => i \notin Mine(t)')
                                   THEN 1 ELSE 0
  <2> SUFFICES ASSUME NEW i \in Items
               PROVE  hits'[i] = IF i < work.total /\ i < work.next
                                    /\ (\A t \in Tasks : At(t, "run")' => i \notin Mine(t)')
                                 THEN 1 ELSE 0
    OBVIOUS
  <2>1. (\A t \in Tasks : At(t, "run")' => i \notin Mine(t)') <=> (\A t \in Tasks : At(t, "run") => i \notin Mine(t))
    BY <1>1
  <2> QED BY <2>1 DEF Claimed
<1>3. task'[Caller].pc \in {"waitItems", "waitWorkers"} => work'.next >= work'.total
  BY DEF Claimed
<1>4. \A t \in Tasks : task'[t].pc \in {"run", "add"} => task'[t].hi <= work'.next /\ task'[t].hi <= work'.total
  BY DEF Claimed
<1>5. \A t, u \in Tasks : t # u /\ At(t, "run")' /\ At(u, "run")'
        => task'[t].hi <= task'[u].lo \/ task'[u].hi <= task'[t].lo
  BY DEF Claimed, At
<1> QED BY <1>2, <1>3, <1>4, <1>5 DEF Claimed

LEMMA SameShare ==
  ASSUME NEW F, Share(F), work' = work, hits' = hits, pool'.numThreads = pool.numThreads,
         \A t \in Tasks : \/ task'[t] = task[t]
                          \/ /\ task[t].pc \notin {"take", "run", "add", "done", "waitItems", "waitWorkers"}
                             /\ task'[t].pc \notin {"take", "run", "add", "done", "waitItems", "waitWorkers"}
                          \/ task[t].pc = "waitItems" /\ task'[t].pc = "waitWorkers"
  PROVE  Share(F)'
<1>1. \A t \in Tasks : /\ task'[t].pc = "take" <=> task[t].pc = "take"
                       /\ task'[t].pc \in {"run", "add"} => task'[t] = task[t]
                       /\ task'[t].pc = "run" <=> task[t].pc = "run"
                       /\ task'[t].pc \in {"add", "done"} <=> task[t].pc \in {"add", "done"}
                       /\ task'[t].pc \in {"waitItems", "waitWorkers"} <=> task[t].pc \in {"waitItems", "waitWorkers"}
  OBVIOUS
<1>2. CASE work.chunk = -1
  <2>1. Fixed(F)
    BY <1>2 DEF Share
  <2>2. Past(F)' = Past(F)
    BY <1>1 DEF Past
  <2>3. Fixed(F)'
    BY <1>1, <2>1, <2>2, FixedKept DEF Fixed, At
  <2> QED BY <1>2, <2>3 DEF Share
<1>3. CASE work.chunk # -1
  <2>1. Claimed'
    BY <1>1, <1>3, Sizes, ClaimedKept DEF Share
  <2> QED BY <1>3, <2>1 DEF Share
<1> QED BY <1>2, <1>3

-----------------------------------------------------------------------------
(* A worker that looks for work.                                           *)

Waits(w) ==
  /\ pool' = pool /\ work' = work /\ hits' = hits /\ Fixtures' = Fixtures
  /\ task' \in [Tasks -> TaskRec] /\ \A u \in Tasks \ {w} : task'[u] = task[u]
  /\ task[w].pc \in {"start", "top", "idle", "awake", "fetch", "drain"}
  /\ task'[w].pc \in {"dead", "top", "idle", "awake", "fetch", "begin"}
  /\ task'[w].pc # "dead" => task'[w].tid = w
  /\ task'[w].pc = "fetch" => pool.available /\ ~pool.shutdown
  /\ task'[w].pc = "begin" => task[w].pc = "fetch"
  /\ task[w].pc = "drain" => ~pool.available \/ pool.shutdown

LEMMA WaitsWhen ==
  ASSUME PoolInv, NEW w \in Workers,
         Start(w) \/ Top(w) \/ Wake(w) \/ Check(w) \/ FetchWork(w) \/ Drain(w)
  PROVE  Waits(w)
<1>0. /\ PoolTypes /\ WorkersInv /\ w \in Tasks
  BY Sizes DEF PoolInv
<1>1. pool' = pool /\ work' = work /\ hits' = hits /\ Fixtures' = Fixtures
  BY DEF Start, Top, Wake, Check, FetchWork, Drain, config, Fixtures
<1>2. \A p : p \in {"dead", "top", "idle", "awake", "fetch", "begin"} => p \in MainPcs \cup WorkerPcs \cup WorkPcs
  BY DEF MainPcs, WorkerPcs, WorkPcs
<1>3. CASE Start(w)
  <2>1. CASE Goes(w, "dead")
    <3>1. Moves(w, "dead")
      BY <1>0, <1>2, <2>1, GoesTo
    <3> QED BY <1>1, <1>3, <3>1 DEF Moves, Waits, Start, At
  <2>2. CASE ~Goes(w, "dead")
    <3>1. PICK i \in Threads \ {0} : workerTask[i] = w /\ task' = [task EXCEPT ![w].tid = i, ![w].pc = "top"]
      BY <1>3, <2>2 DEF Start
    <3>2. i = w
      BY <1>0, <3>1, Sizes DEF WorkersInv, Caller
    <3>3. task \in [Tasks -> TaskRec]
      BY <1>0 DEF PoolTypes, TaskRec
    <3>4. task'[w] = [[task[w] EXCEPT !.tid = w] EXCEPT !.pc = "top"] /\ \A u \in Tasks \ {w} : task'[u] = task[u]
      BY <1>0, <3>1, <3>2, <3>3
    <3>5. w \in Threads
      BY <3>1, <3>2
    <3>6. task'[w] \in TaskRec /\ task'[w].pc = "top" /\ task'[w].tid = w
      <4>1. PICK o : o = task[w]
        OBVIOUS
      <4>2. o \in TaskRec /\ task'[w] = [[o EXCEPT !.tid = w] EXCEPT !.pc = "top"]
        BY <1>0, <3>3, <3>4, <4>1
      <4>3. "top" \in MainPcs \cup WorkerPcs \cup WorkPcs
        BY <1>2
      <4> QED BY <3>5, <4>2, <4>3 DEF TaskRec
    <3>7. task' \in [Tasks -> TaskRec]
      BY <1>0, <3>1, <3>3, <3>4, <3>6
    <3>8. task[w].pc = "start"
      BY <1>3 DEF Start, At
    <3> QED BY <1>1, <3>4, <3>6, <3>7, <3>8 DEF Waits
  <2> QED BY <2>1, <2>2
<1>4. CASE Top(w) \/ Wake(w) \/ Check(w) \/ FetchWork(w) \/ Drain(w)
  <2>1. PICK p \in {"dead", "top", "idle", "awake", "fetch", "begin"} :
          /\ Goes(w, p) /\ task[w].pc \in {"top", "idle", "awake", "fetch", "drain"}
          /\ p = "fetch" => pool.available /\ ~pool.shutdown
          /\ p = "begin" => task[w].pc = "fetch"
          /\ task[w].pc = "drain" => ~pool.available \/ pool.shutdown
    <3>1. CASE Top(w)
      BY <3>1 DEF Top, At
    <3>2. CASE Wake(w)
      BY <3>2 DEF Wake, At
    <3>3. CASE Check(w)
      BY <3>3 DEF Check, At
    <3>4. CASE FetchWork(w)
      BY <3>4 DEF FetchWork, At
    <3>5. CASE Drain(w)
      BY <3>5 DEF Drain, At
    <3> QED BY <1>4, <3>1, <3>2, <3>3, <3>4, <3>5
  <2>2. Moves(w, p)
    BY <1>0, <1>2, <2>1, GoesTo
  <2>3. task[w].tid = w
    BY <1>0, <2>1 DEF WorkersInv
  <2> QED BY <1>1, <2>1, <2>2, <2>3 DEF Moves, Waits
<1> QED BY <1>3, <1>4

LEMMA WaitsInv ==
  ASSUME PoolInv, NEW w \in Workers, Waits(w)
  PROVE  PoolInv'
<1>0. /\ PoolTypes /\ CallersPlace /\ Flags /\ Enough /\ WorkersInv /\ CallInv /\ w \in Tasks
      /\ w # Caller /\ Caller \in Tasks
  BY Sizes DEF PoolInv
<1>1. /\ pool' = pool /\ work' = work /\ hits' = hits /\ Fixtures' = Fixtures
      /\ task' \in [Tasks -> TaskRec] /\ task'[Caller] = task[Caller]
      /\ \A u \in Tasks \ {w} : task'[u] = task[u]
  BY <1>0 DEF Waits
<1>2. PoolTypes'
  BY <1>0, <1>1 DEF PoolTypes, Fixtures, TaskRec
<1>3. CallersPlace'
  BY <1>0, <1>1, Sizes DEF CallersPlace, Waits, WorkerPcs, WorkPcs
<1>4. Flags'
  BY <1>0, <1>1 DEF Flags, InCall, At, Size
<1>5. Enough'
  BY <1>0, <1>1 DEF Enough, Fixtures, At, Size, Clamp
<1>6. WorkersInv'
  <2>1. \A u \in Workers : At(u, "none")' <=> u > created'
    BY <1>0, <1>1, Sizes DEF WorkersInv, Waits, At, Fixtures
  <2>2. \A u \in Workers : task'[u].pc \notin {"none", "start", "dead"} => task'[u].tid = u
    BY <1>0, <1>1, Sizes DEF WorkersInv, Waits
  <2>3. (\A i \in Threads \ {0} : workerTask'[i] \in {0, i}) /\ task'[Caller].tid = 0
    BY <1>0, <1>1 DEF WorkersInv, Fixtures
  <2>4. ~pool'.available => \A u \in Workers : task'[u].pc \notin Busy
    BY <1>0, <1>1, Sizes DEF WorkersInv, Waits, Busy, WorkPcs
  <2>5. task'[Caller].pc \in {"spawn", "register"} \/ (pool'.shutdown /\ pool'.initialized)
          => \A u \in Workers : task'[u].pc \notin Busy \cup {"drain"}
    <3>1. task[Caller].pc \in {"spawn", "register"} => ~pool.available
      BY <1>0 DEF Flags, WorkPcs
    <3> QED BY <1>0, <1>1, <3>1, Sizes DEF WorkersInv, Waits, Busy, WorkPcs
  <2> QED BY <2>1, <2>2, <2>3, <2>4, <2>5 DEF WorkersInv
<1>7. CallInv'
  <2>1. ASSUME InCall', task'[Caller].pc \notin {"clear", "forget"}
        PROVE  (\E F \in SUBSET Workers : Counted(F) /\ Share(F))'
    <3>1. InCall /\ task[Caller].pc \notin {"clear", "forget"}
      BY <1>1, <2>1 DEF InCall
    <3>2. PICK F \in SUBSET Workers : Counted(F) /\ Share(F)
      BY <1>0, <3>1 DEF CallInv
    <3>3. w \notin F
      <4> SUFFICES ASSUME w \in F PROVE FALSE
        OBVIOUS
      <4>1. task[w].pc = "drain"
        BY <3>2 DEF Counted, At
      <4>2. ~(pool.shutdown /\ pool.initialized)
        BY <1>0, <4>1 DEF WorkersInv
      <4>3. pool.initialized
        BY <1>0, <3>1 DEF Flags
      <4>4. ~pool.available
        BY <4>1, <4>2, <4>3 DEF Waits
      <4>5. task[Caller].pc \in {"publish", "signal"}
        BY <1>0, <3>1, <4>4 DEF Flags, CallersPlace, InCall, MainPcs, WorkPcs
      <4>6. pool.done = 0
        BY <1>0, <4>5 DEF Flags
      <4>7. IsFiniteSet(F) /\ Cardinality(F) = 0
        BY <3>2, <4>6, SomeWorkers DEF Counted
      <4> QED BY <4>7, FS_EmptySet
    <3>4. Counted(F)'
      BY <1>1, <3>2, <3>3, Sizes DEF Counted, At
    <3>5. Share(F)'
      BY <1>1, <3>2, SameShare DEF Waits
    <3> QED BY <3>4, <3>5
  <2>2. At(Caller, "clear")' => \A u \in Workers : At(u, "none")' \/ At(u, "drain")'
    <3> SUFFICES ASSUME At(Caller, "clear")' PROVE FALSE
      OBVIOUS
    <3>1. task[Caller].pc = "clear" /\ InCall
      BY <1>1 DEF At, InCall
    <3>2. task[w].pc = "drain" /\ pool.available /\ pool.initialized
      BY <1>0, <3>1 DEF CallInv, Waits, Flags, At
    <3> QED BY <1>0, <3>2 DEF Waits, WorkersInv
  <2>3. task'[Caller].pc \in {"clear", "forget"} => AllHit'
    BY <1>0, <1>1 DEF CallInv, AllHit
  <2> QED BY <2>1, <2>2, <2>3 DEF CallInv
<1> QED BY <1>2, <1>3, <1>4, <1>5, <1>6, <1>7 DEF PoolInv

-----------------------------------------------------------------------------
(* The work, and a worker that has done its share.                         *)

\* A task at work, while the caller waits for it or works too.
LEMMA AtWork ==
  ASSUME PoolInv, NEW t \in Tasks, task[t].pc \in Busy
  PROVE  /\ pool.available /\ InCall /\ pool.initialized /\ Size >= 2
         /\ task[Caller].pc \in {"waitItems", "waitWorkers"} \cup WorkPcs
         /\ task[t].tid = t /\ t < Size /\ t \in Nat
         /\ \E F \in SUBSET Workers : Counted(F) /\ Share(F)
<1>0. /\ PoolTypes /\ CallersPlace /\ Flags /\ Enough /\ WorkersInv /\ CallInv
  BY DEF PoolInv
<1>1. pool.available
  <2>1. CASE t \in Workers
    BY <1>0, <2>1 DEF WorkersInv
  <2>2. CASE t = Caller
    BY <1>0, <2>2 DEF Flags, CallersPlace, Busy, MainPcs, WorkPcs
  <2> QED BY <2>1, <2>2, Sizes
<1>2. task[Caller].pc # "clear"
  <2> SUFFICES ASSUME task[Caller].pc = "clear" PROVE FALSE
    OBVIOUS
  <2>1. t \in Workers
    BY Sizes DEF Busy, WorkPcs
  <2> QED BY <1>0, <2>1 DEF CallInv, At, Busy, WorkPcs
<1>3. InCall /\ pool.initialized /\ Size >= 2 /\ task[Caller].pc \in {"waitItems", "waitWorkers"} \cup WorkPcs
  BY <1>0, <1>1, <1>2 DEF Flags, InCall, WorkPcs
<1>4. \E F \in SUBSET Workers : Counted(F) /\ Share(F)
  BY <1>0, <1>3 DEF CallInv, WorkPcs
<1>5. task[t].tid = t /\ t < Size /\ t \in Nat
  <2>1. CASE t \in Workers
    <3>1. ~(t > created) /\ task[t].tid = t
      BY <1>0, <2>1 DEF WorkersInv, At, Busy, WorkPcs
    <3>2. created < Size /\ created \in Nat /\ Size \in Nat /\ t \in Nat
      BY <1>0, <1>3, <2>1, Sizes DEF Enough, PoolTypes, Size
    <3> QED BY <3>1, <3>2
  <2>2. CASE t = Caller
    BY <1>0, <1>3, <2>2 DEF WorkersInv, Caller, PoolTypes, Size
  <2> QED BY <2>1, <2>2, Sizes
<1> QED BY <1>1, <1>3, <1>4, <1>5

\* What a step of a task at work leaves alone.
Works(t) ==
  /\ pool' = pool /\ Fixtures' = Fixtures
  /\ task' \in [Tasks -> TaskRec] /\ \A u \in Tasks \ {t} : task'[u] = task[u]
  /\ task[t].pc \in WorkPcs /\ task'[t].tid = task[t].tid
  /\ task'[t].pc \in (WorkPcs \ {"begin"}) \cup {IF t = Caller THEN "waitItems" ELSE "done"}
  /\ work' \in [total : 0..MAX_TOTAL, chunk : {-1} \cup (Nat \ {0}), next : Nat, completed : Nat]
  /\ work'.total = work.total /\ work'.chunk = work.chunk
  /\ hits' \in [Items -> Nat]
  /\ \A F \in SUBSET Workers : Counted(F) /\ Share(F) => Share(F)'

LEMMA WorksInv ==
  ASSUME PoolInv, NEW t \in Tasks, Works(t)
  PROVE  PoolInv'
<1>0. /\ PoolTypes /\ CallersPlace /\ Flags /\ Enough /\ WorkersInv /\ CallInv /\ Caller \in Tasks
  BY Sizes DEF PoolInv
<1>1. /\ pool' = pool /\ Fixtures' = Fixtures
      /\ \A u \in Tasks \ {t} : task'[u] = task[u]
      /\ task[t].pc \in WorkPcs
      /\ task'[t].pc \in (WorkPcs \ {"begin"}) \cup {IF t = Caller THEN "waitItems" ELSE "done"}
  BY DEF Works
<1>2. /\ pool.available /\ InCall /\ pool.initialized
      /\ task[Caller].pc \in {"waitItems", "waitWorkers"} \cup WorkPcs
      /\ \E F \in SUBSET Workers : Counted(F) /\ Share(F)
  BY <1>1, AtWork DEF Busy
<1>3. task'[Caller].pc \in {"waitItems", "waitWorkers"} \cup WorkPcs
  BY <1>0, <1>1, <1>2 DEF WorkPcs
<1>4. PoolTypes'
  BY <1>0, <1>1 DEF PoolTypes, Fixtures, TaskRec, Works
<1>5. CallersPlace'
  BY <1>0, <1>1, <1>3, Sizes DEF CallersPlace, MainPcs, WorkerPcs, WorkPcs
<1>6. Flags'
  BY <1>0, <1>1, <1>2, <1>3 DEF Flags, InCall, At, Size, WorkPcs
<1>7. Enough'
  BY <1>0, <1>1, <1>2, <1>3 DEF Enough, Fixtures, At, Size, Clamp, WorkPcs
<1>8. WorkersInv'
  <2>1. \A u \in Workers : At(u, "none")' <=> u > created'
    BY <1>0, <1>1, Sizes DEF WorkersInv, At, Fixtures, WorkPcs
  <2>2. \A u \in Workers : task'[u].pc \notin {"none", "start", "dead"} => task'[u].tid = u
    BY <1>0, <1>1, Sizes DEF WorkersInv, Works, WorkPcs
  <2>3. (\A i \in Threads \ {0} : workerTask'[i] \in {0, i}) /\ task'[Caller].tid = 0
    BY <1>0, <1>1 DEF WorkersInv, Fixtures, Works
  <2>4. ~(task'[Caller].pc \in {"spawn", "register"})
    BY <1>3 DEF WorkPcs
  <2>5. pool.shutdown /\ pool.initialized => \A u \in Workers : task'[u].pc \notin Busy \cup {"drain"}
    <3> SUFFICES ASSUME pool.shutdown, pool.initialized, NEW u \in Workers
                 PROVE  task'[u].pc \notin Busy \cup {"drain"}
      OBVIOUS
    <3>1. task[u].pc \notin Busy \cup {"drain"}
      BY <1>0 DEF WorkersInv
    <3>2. u # t
      BY <1>1, <3>1 DEF Busy
    <3> QED BY <1>1, <3>1, <3>2, Sizes
  <2> QED BY <1>1, <1>2, <2>1, <2>2, <2>3, <2>4, <2>5 DEF WorkersInv
<1>9. CallInv'
  <2>1. PICK F \in SUBSET Workers : Counted(F) /\ Share(F)
    BY <1>2
  <2>2. Share(F)'
    BY <2>1 DEF Works
  <2>3. t \notin F
    BY <1>1, <2>1 DEF Counted, At, WorkPcs
  <2>4. Counted(F)'
    BY <1>1, <2>1, <2>3, Sizes DEF Counted, At
  <2>5. task'[Caller].pc \notin {"clear", "forget"}
    BY <1>3 DEF WorkPcs
  <2> QED BY <2>2, <2>4, <2>5 DEF CallInv, At
<1> QED BY <1>4, <1>5, <1>6, <1>7, <1>8, <1>9 DEF PoolInv

\* The ranges in deterministic mode are within the work.
LEMMA RangeInWork ==
  ASSUME PoolTypes, NEW t \in Nat, t < Size
  PROVE  /\ Size \in Nat \ {0} /\ work.total \in Nat /\ work.total \in 0..MAX_TOTAL
         /\ FixedRange(t) = <<Low(work.total, Size, t), Low(work.total, Size, t + 1)>>
         /\ Span(t) = SpanOf(work.total, Size, t)
         /\ FixedRange(t)[1] \in Items /\ FixedRange(t)[2] \in Items
         /\ FixedRange(t)[1] <= FixedRange(t)[2] /\ FixedRange(t)[2] <= work.total
<1>1. Size \in Nat \ {0} /\ work.total \in Nat /\ work.total \in 0..MAX_TOTAL
  BY DEF PoolTypes, Size
<1>2. /\ FixedRange(t) = <<Low(work.total, Size, t), Low(work.total, Size, t + 1)>>
      /\ Span(t) = SpanOf(work.total, Size, t)
  BY <1>1, FixedRangeIs
<1>3. /\ Low(work.total, Size, t) \in Nat /\ Low(work.total, Size, t + 1) \in Nat
      /\ Low(work.total, Size, t) <= Low(work.total, Size, t + 1)
      /\ Low(work.total, Size, t + 1) <= Low(work.total, Size, Size)
      /\ Low(work.total, Size, Size) = work.total
  <2>1. t + 1 \in Nat /\ t <= t + 1 /\ t + 1 <= Size
    BY <1>1
  <2> QED BY <1>1, <2>1, LowNat, LowGrows, LowStarts
<1> DEFINE a == Low(work.total, Size, t)
           b == Low(work.total, Size, t + 1)
<1>4. a \in 0..MAX_TOTAL /\ b \in 0..MAX_TOTAL
  BY <1>1, <1>3, Sizes
<1>5. a \in Items /\ b \in Items
  BY <1>4, Sizes
<1> QED BY <1>1, <1>2, <1>3, <1>5

\* Task t goes to p with the items from a up to b.
Holds(t, p, a, b) ==
  /\ task' \in [Tasks -> TaskRec]
  /\ task'[t].pc = p /\ task'[t].tid = task[t].tid /\ task'[t].lo = a /\ task'[t].hi = b
  /\ \A u \in Tasks \ {t} : task'[u] = task[u]

LEMMA HoldsWhen ==
  ASSUME PoolTypes, NEW t \in Tasks, NEW p \in MainPcs \cup WorkerPcs \cup WorkPcs,
         NEW a \in Items, NEW b \in Items,
         \/ task' = [task EXCEPT ![t].lo = a, ![t].hi = b, ![t].pc = p]
         \/ task' = [task EXCEPT ![t].pc = p, ![t].lo = a, ![t].hi = b]
  PROVE  Holds(t, p, a, b)
<1>1. task \in [Tasks -> TaskRec] /\ task[t] \in TaskRec
  BY DEF PoolTypes, TaskRec
<1>2. CASE task' = [task EXCEPT ![t].lo = a, ![t].hi = b, ![t].pc = p]
  <2> DEFINE x == [[[task[t] EXCEPT !.lo = a] EXCEPT !.hi = b] EXCEPT !.pc = p]
  <2>1. task'[t] = x /\ \A u \in Tasks \ {t} : task'[u] = task[u]
    BY <1>1, <1>2
  <2>2. x \in TaskRec /\ x.pc = p /\ x.tid = task[t].tid /\ x.lo = a /\ x.hi = b
    BY <1>1 DEF TaskRec
  <2> HIDE DEF x
  <2>3. task' \in [Tasks -> TaskRec]
    BY <1>1, <1>2, <2>1, <2>2
  <2> QED BY <2>1, <2>2, <2>3 DEF Holds
<1>3. CASE task' = [task EXCEPT ![t].pc = p, ![t].lo = a, ![t].hi = b]
  <2> DEFINE x == [[[task[t] EXCEPT !.pc = p] EXCEPT !.lo = a] EXCEPT !.hi = b]
  <2>1. task'[t] = x /\ \A u \in Tasks \ {t} : task'[u] = task[u]
    BY <1>1, <1>3
  <2>2. x \in TaskRec /\ x.pc = p /\ x.tid = task[t].tid /\ x.lo = a /\ x.hi = b
    BY <1>1 DEF TaskRec
  <2> HIDE DEF x
  <2>3. task' \in [Tasks -> TaskRec]
    BY <1>1, <1>3, <2>1, <2>2
  <2> QED BY <2>1, <2>2, <2>3 DEF Holds
<1> QED BY <1>2, <1>3

LEMMA BeginWorks ==
  ASSUME PoolInv, NEW t \in Tasks, Begin(t)
  PROVE  Works(t)
<1>0. PoolTypes /\ task \in [Tasks -> TaskRec]
  BY DEF PoolInv, PoolTypes, TaskRec
<1>1. /\ pool' = pool /\ Fixtures' = Fixtures /\ work' = work /\ hits' = hits
      /\ task[t].pc = "begin"
  BY DEF Begin, config, Fixtures, At
<1>2. task[t].tid = t /\ t < Size /\ t \in Nat
  BY <1>1, AtWork DEF Busy, WorkPcs
<1>3. PICK p \in {"run", "take"}, a \in Items, b \in Items :
        /\ p = "run" <=> work.chunk = -1
        /\ work.chunk = -1 => <<a, b>> = FixedRange(t)
        /\ Holds(t, p, a, b)
  <2>1. CASE work.chunk = -1
    <3> DEFINE r == FixedRange(t)
    <3>1. r[1] \in Items /\ r[2] \in Items /\ <<r[1], r[2]>> = r
      BY <1>0, <1>2, RangeInWork
    <3>2. task' = [task EXCEPT ![t].lo = r[1], ![t].hi = r[2], ![t].pc = "run"]
      BY <1>2, <2>1 DEF Begin
    <3> HIDE DEF r
    <3>3. Holds(t, "run", r[1], r[2])
      BY <1>0, <3>1, <3>2, HoldsWhen DEF WorkPcs
    <3> QED BY <2>1, <3>1, <3>3 DEF r
  <2>2. CASE work.chunk # -1
    <3>1. Goes(t, "take")
      BY <2>2 DEF Begin, Goes
    <3>2. Moves(t, "take")
      BY <1>0, <3>1, GoesTo DEF WorkPcs
    <3>3. task[t].lo \in Items /\ task[t].hi \in Items
      BY <1>0 DEF TaskRec
    <3> QED BY <2>2, <3>2, <3>3 DEF Holds, Moves
  <2> QED BY <2>1, <2>2
<1>4. /\ task'[t].pc = p /\ task'[t].tid = t /\ task'[t].lo = a /\ task'[t].hi = b
      /\ task' \in [Tasks -> TaskRec] /\ \A u \in Tasks \ {t} : task'[u] = task[u]
  BY <1>2, <1>3 DEF Holds
<1>7. ASSUME NEW F \in SUBSET Workers, Counted(F), Share(F) PROVE Share(F)'
  <2>1. t \notin F
    BY <1>1, <1>7 DEF Counted, At
  <2>2. CASE work.chunk = -1
    <3>1. Fixed(F)
      BY <1>7, <2>2 DEF Share
    <3>2. Past(F)' = Past(F)
      BY <1>1, <1>3, <1>4, <2>1 DEF Past
    <3>3. \A u \in Tasks : task'[u].pc # "take"
      BY <1>3, <1>4, <2>2, <3>1 DEF Fixed, At
    <3>4. \A u \in Tasks : task'[u].pc \in {"run", "add"} => <<task'[u].lo, task'[u].hi>> = FixedRange(u)
      BY <1>3, <1>4, <2>2, <3>1 DEF Fixed
    <3>5. Fixed(F)'
      BY <1>1, <3>1, <3>2, <3>3, <3>4, FixedKept
    <3> QED BY <1>1, <2>2, <3>5 DEF Share
  <2>3. CASE work.chunk # -1
    <3>1. p = "take" /\ Claimed
      BY <1>3, <1>7, <2>3 DEF Share
    <3>2. Claimed'
      BY <1>1, <1>4, <3>1, Sizes, ClaimedKept
    <3> QED BY <1>1, <2>3, <3>2 DEF Share
  <2> QED BY <2>2, <2>3
<1>8. p \in WorkPcs \ {"begin"}
  BY DEF WorkPcs
<1> QED BY <1>0, <1>1, <1>2, <1>4, <1>7, <1>8 DEF Works, PoolTypes, WorkPcs

LEMMA TakeWorks ==
  ASSUME PoolInv, NEW t \in Tasks, Take(t)
  PROVE  Works(t)
<1>0. PoolTypes /\ task \in [Tasks -> TaskRec]
  BY DEF PoolInv, PoolTypes, TaskRec
<1>1. /\ pool' = pool /\ Fixtures' = Fixtures /\ hits' = hits
      /\ task[t].pc = "take" /\ work' = [work EXCEPT !.next = @ + work.chunk]
  BY DEF Take, config, Fixtures, At
<1>2. task[t].tid = t /\ \E F \in SUBSET Workers : Counted(F) /\ Share(F)
  BY <1>1, AtWork DEF Busy, WorkPcs
<1>3. work.chunk # -1
  BY <1>1, <1>2 DEF Share, Fixed, At
<1>4. /\ work.chunk \in Nat \ {0} /\ work.next \in Nat /\ work.total \in 0..MAX_TOTAL
      /\ work' \in [total : 0..MAX_TOTAL, chunk : {-1} \cup (Nat \ {0}), next : Nat, completed : Nat]
      /\ work'.next = work.next + work.chunk /\ work'.total = work.total /\ work'.chunk = work.chunk
      /\ work'.next \in Nat /\ work.total \in Nat
  BY <1>0, <1>1, <1>3, Sizes DEF PoolTypes
<1>5. CASE work.next >= work.total
  <2> DEFINE q == AfterWork(t)
  <2>1. q = (IF t = Caller THEN "waitItems" ELSE "done") /\ Goes(t, q)
    BY <1>5 DEF Take, AfterWork, Goes
  <2> HIDE DEF q
  <2>2. Moves(t, q)
    <3>1. q \in MainPcs \cup WorkerPcs \cup WorkPcs
      BY <2>1 DEF MainPcs, WorkerPcs
    <3> QED BY <1>0, <2>1, <3>1, GoesTo
  <2>3. ASSUME NEW F \in SUBSET Workers, Counted(F), Share(F) PROVE Share(F)'
    <3>1. Claimed
      BY <1>3, <2>3 DEF Share
    <3>2. \A u \in Tasks : /\ task'[u].pc = "run" <=> task[u].pc = "run"
                           /\ task'[u].pc \in {"run", "add"} => task'[u] = task[u]
      BY <1>1, <2>1, <2>2 DEF Moves
    <3>3. \A u \in Tasks : (At(u, "run") <=> At(u, "run")') /\ (At(u, "run") => Mine(u)' = Mine(u))
      BY <3>2 DEF At, Mine
    <3>4. \A i \in Items : i < work.total => i < work.next /\ i < work'.next
      BY <1>4, <1>5, Sizes
    <3>5. \A i \in Items : hits'[i] = IF i < work'.total /\ i < work'.next
                                          /\ (\A u \in Tasks : At(u, "run")' => i \notin Mine(u)')
                                       THEN 1 ELSE 0
      <4> SUFFICES ASSUME NEW i \in Items
                   PROVE  hits'[i] = IF i < work.total /\ i < work'.next
                                        /\ (\A u \in Tasks : At(u, "run")' => i \notin Mine(u)')
                                     THEN 1 ELSE 0
        BY <1>4
      <4>1. (\A u \in Tasks : At(u, "run")' => i \notin Mine(u)') <=> (\A u \in Tasks : At(u, "run") => i \notin Mine(u))
        BY <3>3
      <4> QED BY <1>1, <3>1, <3>4, <4>1 DEF Claimed
    <3>6. work'.next >= work'.total
      BY <1>4, <1>5
    <3>7. \A u \in Tasks : task'[u].pc \in {"run", "add"} => task'[u].hi <= work'.next /\ task'[u].hi <= work'.total
      <4> SUFFICES ASSUME NEW u \in Tasks, task'[u].pc \in {"run", "add"}
                   PROVE  task'[u].hi <= work'.next /\ task'[u].hi <= work'.total
        OBVIOUS
      <4>1. task[u].hi <= work.next /\ task[u].hi <= work.total /\ task'[u] = task[u]
        BY <3>1, <3>2 DEF Claimed
      <4>2. task[u].hi \in Nat
        BY <1>0, Sizes DEF TaskRec
      <4> QED BY <1>4, <4>1, <4>2
    <3>8. \A u, v \in Tasks : u # v /\ At(u, "run")' /\ At(v, "run")'
            => task'[u].hi <= task'[v].lo \/ task'[v].hi <= task'[u].lo
      BY <3>1, <3>2 DEF Claimed, At
    <3>9. Claimed'
      BY <3>5, <3>6, <3>7, <3>8 DEF Claimed
    <3> QED BY <1>3, <1>4, <3>9 DEF Share
  <2> QED BY <1>0, <1>1, <1>4, <2>1, <2>2, <2>3 DEF Works, Moves, PoolTypes, WorkPcs
<1>6. CASE work.next < work.total
  <2> DEFINE e == IF work'.next > work.total THEN work.total ELSE work'.next
  <2>1. task' = [task EXCEPT ![t].pc = "run", ![t].lo = work.next, ![t].hi = e]
    BY <1>4, <1>6 DEF Take
  <2>2. /\ e \in 0..MAX_TOTAL /\ work.next \in 0..MAX_TOTAL /\ work.next <= e
        /\ e <= work'.next /\ e <= work.total
        /\ \A i \in Nat : i < work.total => (i < work'.next <=> i < e)
    BY <1>4, <1>6, Sizes
  <2> HIDE DEF e
  <2>3. e \in Items /\ work.next \in Items
    BY <2>2, Sizes
  <2>4. Holds(t, "run", work.next, e)
    BY <1>0, <2>1, <2>3, HoldsWhen DEF WorkPcs
  <2>5. /\ task'[t].pc = "run" /\ task'[t].tid = t /\ task'[t].lo = work.next /\ task'[t].hi = e
        /\ task' \in [Tasks -> TaskRec] /\ \A u \in Tasks \ {t} : task'[u] = task[u]
    BY <1>2, <2>4 DEF Holds
  <2>6. ASSUME NEW F \in SUBSET Workers, Counted(F), Share(F) PROVE Share(F)'
    <3>1. Claimed
      BY <1>3, <2>6 DEF Share
    <3>2. \A u \in Tasks \ {t} : (At(u, "run") <=> At(u, "run")') /\ (At(u, "run") => Mine(u)' = Mine(u))
      BY <2>5 DEF At, Mine
    <3>3. ~At(t, "run") /\ At(t, "run")' /\ Mine(t)' = work.next..(e - 1)
      BY <1>1, <2>5 DEF At, Mine
    <3>4. \A u \in Tasks : task[u].pc \in {"run", "add"} => /\ task[u].hi <= work.next /\ task[u].hi <= work.total
                                                              /\ task[u].hi \in Nat /\ task[u].lo \in Nat
      BY <1>0, <3>1, Sizes DEF Claimed, TaskRec
    <3>5. \A i \in Items : hits'[i] = IF i < work'.total /\ i < work'.next
                                          /\ (\A u \in Tasks : At(u, "run")' => i \notin Mine(u)')
                                       THEN 1 ELSE 0
      <4> SUFFICES ASSUME NEW i \in Items
                   PROVE  hits'[i] = IF i < work.total /\ i < work'.next
                                        /\ (\A u \in Tasks : At(u, "run")' => i \notin Mine(u)')
                                     THEN 1 ELSE 0
        BY <1>4
      <4>0. i \in Nat
        BY Sizes
      <4>1. (\A u \in Tasks : At(u, "run")' => i \notin Mine(u)')
              <=> (\A u \in Tasks : At(u, "run") => i \notin Mine(u)) /\ i \notin Mine(t)'
        BY <3>2, <3>3
      <4>2. i < work.total => (i \in Mine(t)' <=> work.next <= i /\ i < work'.next)
        BY <1>4, <2>2, <3>3, <4>0
      <4>3. hits[i] = IF i < work.total /\ i < work.next /\ (\A u \in Tasks : At(u, "run") => i \notin Mine(u))
                      THEN 1 ELSE 0
        BY <3>1 DEF Claimed
      <4>4. i < work.next => i < work'.next
        BY <1>4, <4>0
      <4> QED BY <1>1, <1>4, <4>0, <4>1, <4>2, <4>3, <4>4
    <3>6. task'[Caller].pc \in {"waitItems", "waitWorkers"} => work'.next >= work'.total
      <4>1. CASE t = Caller
        BY <2>5, <4>1
      <4>2. CASE t # Caller
        BY <1>4, <1>6, <2>5, <3>1, <4>2, Sizes DEF Claimed
      <4> QED BY <4>1, <4>2
    <3>7. \A u \in Tasks : task'[u].pc \in {"run", "add"} => task'[u].hi <= work'.next /\ task'[u].hi <= work'.total
      <4> SUFFICES ASSUME NEW u \in Tasks, task'[u].pc \in {"run", "add"}
                   PROVE  task'[u].hi <= work'.next /\ task'[u].hi <= work'.total
        OBVIOUS
      <4>1. CASE u = t
        BY <1>4, <2>2, <2>5, <4>1
      <4>2. CASE u # t
        <5>1. task'[u] = task[u]
          BY <2>5, <4>2
        <5> QED BY <1>4, <3>4, <5>1
      <4> QED BY <4>1, <4>2
    <3>8. \A u, v \in Tasks : u # v /\ At(u, "run")' /\ At(v, "run")'
            => task'[u].hi <= task'[v].lo \/ task'[v].hi <= task'[u].lo
      <4> SUFFICES ASSUME NEW u \in Tasks, NEW v \in Tasks, u # v, At(u, "run")', At(v, "run")'
                   PROVE  task'[u].hi <= task'[v].lo \/ task'[v].hi <= task'[u].lo
        OBVIOUS
      <4>1. CASE u = t
        <5>1. task'[v] = task[v] /\ task[v].pc = "run" /\ task'[u].lo = work.next
          BY <2>5, <4>1 DEF At
        <5> QED BY <3>4, <5>1
      <4>2. CASE v = t
        <5>1. task'[u] = task[u] /\ task[u].pc = "run" /\ task'[v].lo = work.next
          BY <2>5, <4>2 DEF At
        <5> QED BY <3>4, <5>1
      <4>3. CASE u # t /\ v # t
        BY <2>5, <3>1, <4>3 DEF Claimed, At
      <4> QED BY <4>1, <4>2, <4>3
    <3>9. Claimed'
      BY <3>5, <3>6, <3>7, <3>8 DEF Claimed
    <3> QED BY <1>3, <1>4, <3>9 DEF Share
  <2> QED BY <1>0, <1>1, <1>2, <1>4, <2>5, <2>6 DEF Works, PoolTypes, WorkPcs
<1> QED BY <1>4, <1>5, <1>6

LEMMA RunWorks ==
  ASSUME PoolInv, NEW t \in Tasks, Run(t)
  PROVE  Works(t)
<1>0. PoolTypes /\ task \in [Tasks -> TaskRec]
  BY DEF PoolInv, PoolTypes, TaskRec
<1>1. /\ pool' = pool /\ Fixtures' = Fixtures /\ work' = work
      /\ task[t].pc = "run" /\ Goes(t, "add")
      /\ hits' = [i \in Items |-> IF i \in Mine(t) THEN hits[i] + 1 ELSE hits[i]]
  BY DEF Run, config, Fixtures, At
<1>2. /\ task[t].tid = t /\ t < Size /\ t \in Nat
  BY <1>1, AtWork DEF Busy, WorkPcs
<1>3. Moves(t, "add")
  BY <1>0, <1>1, GoesTo DEF WorkPcs
<1>4. /\ task'[t].pc = "add" /\ task'[t].tid = task[t].tid
      /\ task'[t].lo = task[t].lo /\ task'[t].hi = task[t].hi
      /\ task' \in [Tasks -> TaskRec] /\ \A u \in Tasks \ {t} : task'[u] = task[u]
  BY <1>3 DEF Moves
<1>5. hits \in [Items -> Nat] /\ hits' \in [Items -> Nat]
      /\ \A i \in Items : hits'[i] = IF i \in Mine(t) THEN hits[i] + 1 ELSE hits[i]
  BY <1>0, <1>1 DEF PoolTypes
<1>6. ASSUME NEW F \in SUBSET Workers, Counted(F), Share(F) PROVE Share(F)'
  <2>1. t \notin F
    BY <1>1, <1>6 DEF Counted, At
  <2>2. CASE work.chunk = -1
    <3>1. Fixed(F)
      BY <1>6, <2>2 DEF Share
    <3>2. Past(F)' = Past(F) \cup {t} /\ t \notin Past(F)
      BY <1>1, <1>4, <2>1 DEF Past
    <3>3. Mine(t) = Span(t)
      <4>1. <<task[t].lo, task[t].hi>> = FixedRange(t)
        BY <1>1, <3>1 DEF Fixed
      <4>2. task[t].lo = FixedRange(t)[1] /\ task[t].hi = FixedRange(t)[2]
        BY <1>0, <1>2, <4>1, RangeInWork
      <4> QED BY <4>2 DEF Mine, Span
    <3>4. \A u \in Past(F) : Span(u) \cap Span(t) = {}
      <4> SUFFICES ASSUME NEW u \in Past(F) PROVE Span(u) \cap Span(t) = {}
        OBVIOUS
      <4>1. u \in Nat /\ u # t
        BY <3>2, Sizes DEF Past, Caller
      <4>2. Size \in Nat \ {0} /\ work.total \in Nat
        BY <1>0, <1>2, RangeInWork
      <4>3. Span(u) = SpanOf(work.total, Size, u) /\ Span(t) = SpanOf(work.total, Size, t)
        BY <1>2, <4>1, <4>2, FixedRangeIs
      <4> QED BY <1>2, <4>1, <4>2, <4>3, SpansApart
    <3>5. \A u : FixedRange(u)' = FixedRange(u) /\ Span(u)' = Span(u)
      BY <1>1 DEF FixedRange, Span
    <3>6. \A i \in Items : hits'[i] = IF \E u \in Past(F)' : i \in Span(u)' THEN 1 ELSE 0
      <4> SUFFICES ASSUME NEW i \in Items
                   PROVE  hits'[i] = IF \E u \in Past(F)' : i \in Span(u)' THEN 1 ELSE 0
        OBVIOUS
      <4>1. (\E u \in Past(F)' : i \in Span(u)') <=> i \in Span(t) \/ \E u \in Past(F) : i \in Span(u)
        BY <3>2, <3>5
      <4>2. hits[i] = IF \E u \in Past(F) : i \in Span(u) THEN 1 ELSE 0
        BY <3>1 DEF Fixed
      <4>3. i \in Span(t) => ~\E u \in Past(F) : i \in Span(u)
        BY <3>4
      <4>4. hits'[i] = IF i \in Span(t) THEN hits[i] + 1 ELSE hits[i]
        BY <1>5, <3>3
      <4> QED BY <4>1, <4>2, <4>3, <4>4
    <3>7. \A u \in Tasks : task'[u].pc # "take"
      BY <1>4, <3>1 DEF Fixed, At
    <3>8. \A u \in Tasks : task'[u].pc \in {"run", "add"} => <<task'[u].lo, task'[u].hi>> = FixedRange(u)'
      <4> SUFFICES ASSUME NEW u \in Tasks, task'[u].pc \in {"run", "add"}
                   PROVE  <<task'[u].lo, task'[u].hi>> = FixedRange(u)'
        OBVIOUS
      <4>1. task[u].pc \in {"run", "add"} /\ task'[u].lo = task[u].lo /\ task'[u].hi = task[u].hi
        BY <1>1, <1>4
      <4> QED BY <3>1, <3>5, <4>1 DEF Fixed
    <3>9. Fixed(F)'
      BY <3>6, <3>7, <3>8 DEF Fixed, At
    <3> QED BY <1>1, <2>2, <3>9 DEF Share
  <2>3. CASE work.chunk # -1
    <3>1. Claimed
      BY <1>6, <2>3 DEF Share
    <3>2. \A u \in Tasks \ {t} : (At(u, "run") <=> At(u, "run")') /\ (At(u, "run") => Mine(u)' = Mine(u))
      BY <1>4 DEF At, Mine
    <3>3. At(t, "run") /\ ~At(t, "run")'
      BY <1>1, <1>4 DEF At
    <3>4. \A u \in Tasks : /\ task[u].hi \in Nat /\ task[u].lo \in Nat
      BY <1>0, Sizes DEF TaskRec
    <3>5. \A u \in Tasks \ {t} : At(u, "run") => Mine(u) \cap Mine(t) = {}
      BY <3>1, <3>3, <3>4 DEF Claimed, Mine
    <3>6. task[t].hi <= work.next /\ task[t].hi <= work.total /\ work.next \in Nat /\ work.total \in Nat
      BY <1>0, <1>1, <3>1 DEF Claimed, PoolTypes
    <3>7. \A i \in Items : hits'[i] = IF i < work'.total /\ i < work'.next
                                          /\ (\A u \in Tasks : At(u, "run")' => i \notin Mine(u)')
                                       THEN 1 ELSE 0
      <4> SUFFICES ASSUME NEW i \in Items
                   PROVE  hits'[i] = IF i < work.total /\ i < work.next
                                        /\ (\A u \in Tasks : At(u, "run")' => i \notin Mine(u)')
                                     THEN 1 ELSE 0
        BY <1>1
      <4>1. (\A u \in Tasks : At(u, "run") => i \notin Mine(u))
              <=> (\A u \in Tasks : At(u, "run")' => i \notin Mine(u)') /\ i \notin Mine(t)
        BY <3>2, <3>3
      <4>2. i \in Mine(t) => \A u \in Tasks : At(u, "run")' => i \notin Mine(u)'
        BY <3>2, <3>3, <3>5
      <4>3. hits[i] = IF i < work.total /\ i < work.next /\ (\A u \in Tasks : At(u, "run") => i \notin Mine(u))
                      THEN 1 ELSE 0
        BY <3>1 DEF Claimed
      <4>4. i \in Mine(t) => i < work.next /\ i < work.total
        BY <3>4, <3>6 DEF Mine
      <4> QED BY <1>5, <4>1, <4>2, <4>3, <4>4
    <3>8. task'[Caller].pc \in {"waitItems", "waitWorkers"} => work'.next >= work'.total
      BY <1>1, <1>4, <3>1, Sizes DEF Claimed
    <3>9. \A u \in Tasks : task'[u].pc \in {"run", "add"} => task'[u].hi <= work'.next /\ task'[u].hi <= work'.total
      BY <1>1, <1>4, <3>1 DEF Claimed
    <3>10. \A u, v \in Tasks : u # v /\ At(u, "run")' /\ At(v, "run")'
            => task'[u].hi <= task'[v].lo \/ task'[v].hi <= task'[u].lo
      BY <1>4, <3>1 DEF Claimed, At
    <3>11. Claimed'
      BY <3>7, <3>8, <3>9, <3>10 DEF Claimed
    <3> QED BY <1>1, <2>3, <3>11 DEF Share
  <2> QED BY <2>2, <2>3
<1> QED BY <1>0, <1>1, <1>4, <1>5, <1>6 DEF Works, PoolTypes, WorkPcs

LEMMA AddWorks ==
  ASSUME PoolInv, NEW t \in Tasks, Add(t)
  PROVE  Works(t)
<1> DEFINE p == IF work.chunk = -1 THEN AfterWork(t) ELSE "take"
           c == Cardinality(Mine(t))
<1>0. PoolTypes /\ task \in [Tasks -> TaskRec]
  BY DEF PoolInv, PoolTypes, TaskRec
<1>1. /\ pool' = pool /\ Fixtures' = Fixtures /\ hits' = hits /\ task[t].pc = "add"
      /\ work' = [work EXCEPT !.completed = @ + c]
      /\ task' = [task EXCEPT ![t].pc = p, ![t].lo = 0, ![t].hi = 0]
  BY DEF Add, config, Fixtures, At
<1>2. c \in Nat
  <2>1. task[t].lo \in Int /\ task[t].hi - 1 \in Int
    <3>1. task[t].lo \in Nat /\ task[t].hi \in Nat
      BY <1>0, Sizes DEF TaskRec
    <3> QED BY <3>1
  <2>2. IsFiniteSet(task[t].lo..(task[t].hi - 1))
    BY <2>1, FS_Interval
  <2> QED BY <2>2, FS_CardinalityType DEF Mine
<1>3. p = (IF work.chunk = -1 THEN IF t = Caller THEN "waitItems" ELSE "done" ELSE "take")
  BY DEF AfterWork
<1> HIDE DEF p, c
<1>4. Holds(t, p, 0, 0)
  <2>1. p \in MainPcs \cup WorkerPcs \cup WorkPcs
    BY <1>3 DEF MainPcs, WorkerPcs, WorkPcs
  <2> QED BY <1>0, <1>1, <2>1, HoldsWhen, Sizes
<1>5. /\ task'[t].pc = p /\ task'[t].tid = task[t].tid
      /\ task' \in [Tasks -> TaskRec] /\ \A u \in Tasks \ {t} : task'[u] = task[u]
  BY <1>4 DEF Holds
<1>6. /\ work' \in [total : 0..MAX_TOTAL, chunk : {-1} \cup (Nat \ {0}), next : Nat, completed : Nat]
      /\ work'.next = work.next /\ work'.total = work.total /\ work'.chunk = work.chunk
  BY <1>0, <1>1, <1>2 DEF PoolTypes
<1>7. ASSUME NEW F \in SUBSET Workers, Counted(F), Share(F) PROVE Share(F)'
  <2>1. CASE work.chunk = -1
    <3>1. Fixed(F)
      BY <1>7, <2>1 DEF Share
    <3>2. Past(F)' = Past(F)
      <4> SUFFICES ASSUME NEW u \in Tasks PROVE u \in Past(F)' <=> u \in Past(F)
        BY DEF Past
      <4>1. CASE u = t
        BY <1>1, <1>3, <1>5, <2>1, <4>1 DEF Past
      <4>2. CASE u # t
        BY <1>5, <4>2 DEF Past
      <4> QED BY <4>1, <4>2
    <3>3. \A u \in Tasks : task'[u].pc # "take"
      BY <1>3, <1>5, <2>1, <3>1 DEF Fixed, At
    <3>4. \A u \in Tasks : task'[u].pc \in {"run", "add"} => <<task'[u].lo, task'[u].hi>> = FixedRange(u)
      BY <1>3, <1>5, <2>1, <3>1 DEF Fixed
    <3>5. Fixed(F)'
      BY <1>1, <1>6, <3>1, <3>2, <3>3, <3>4, FixedKept
    <3> QED BY <1>6, <2>1, <3>5 DEF Share
  <2>2. CASE work.chunk # -1
    <3>1. p = "take" /\ Claimed
      BY <1>3, <1>7, <2>2 DEF Share
    <3>2. Claimed'
      BY <1>1, <1>5, <1>6, <3>1, Sizes, ClaimedKept
    <3> QED BY <1>6, <2>2, <3>2 DEF Share
  <2> QED BY <2>1, <2>2
<1>8. p \in (WorkPcs \ {"begin"}) \cup {IF t = Caller THEN "waitItems" ELSE "done"} /\ task[t].pc \in WorkPcs
  BY <1>1, <1>3 DEF WorkPcs
<1> QED BY <1>0, <1>1, <1>5, <1>6, <1>7, <1>8 DEF Works, PoolTypes

\* The steps on a share of the work, by the caller or by a worker.
LEMMA WorkingInv ==
  ASSUME PoolInv, NEW t \in Tasks, Working(t)
  PROVE  PoolInv'
BY BeginWorks, TakeWorks, RunWorks, AddWorks, WorksInv DEF Working

\* A worker counts itself done.
LEMMA FinishInv ==
  ASSUME PoolInv, NEW w \in Workers, Finish(w)
  PROVE  PoolInv'
<1>0. /\ PoolTypes /\ CallersPlace /\ Flags /\ Enough /\ WorkersInv /\ CallInv /\ Caller \in Tasks
      /\ w \in Tasks /\ w # Caller
  BY Sizes DEF PoolInv
<1>1. /\ pool' = [pool EXCEPT !.done = @ + 1] /\ Fixtures' = Fixtures /\ hits' = hits /\ work' = work
      /\ task[w].pc = "done" /\ Goes(w, "drain")
  BY DEF Finish, config, Fixtures, At
<1>2. /\ pool.available /\ InCall /\ pool.initialized
      /\ task[Caller].pc \in {"waitItems", "waitWorkers"} \cup WorkPcs
      /\ \E F \in SUBSET Workers : Counted(F) /\ Share(F)
  BY <1>0, <1>1, AtWork DEF Busy
<1>3. /\ task'[w].pc = "drain" /\ task'[w].tid = task[w].tid /\ task' \in [Tasks -> TaskRec]
      /\ \A u \in Tasks \ {w} : task'[u] = task[u]
  <2>1. Moves(w, "drain")
    BY <1>0, <1>1, GoesTo DEF WorkerPcs
  <2> QED BY <2>1 DEF Moves
<1>4. PICK F \in SUBSET Workers : Counted(F) /\ Share(F)
  BY <1>2
<1> DEFINE G == F \cup {w}
<1>5. w \notin F /\ G \in SUBSET Workers
  BY <1>1, <1>4 DEF Counted, At
<1>6. Cardinality(G) = Cardinality(F) + 1 /\ Cardinality(G) \in Nat /\ Cardinality(G) <= MAX_WORKERS
  <2>1. IsFiniteSet(F)
    BY SomeWorkers
  <2> QED BY <1>5, <2>1, SomeWorkers, FS_AddElement
<1>7. /\ pool'.done = pool.done + 1 /\ pool'.initialized = pool.initialized
      /\ pool'.shutdown = pool.shutdown /\ pool'.numThreads = pool.numThreads
      /\ pool'.hasWork = pool.hasWork /\ pool'.available = pool.available
      /\ pool' \in [initialized : BOOLEAN, shutdown : BOOLEAN, numThreads : 0..PARALLEL_MAX_THREADS,
                    hasWork : BOOLEAN, available : BOOLEAN, done : 0..MAX_WORKERS]
      /\ pool'.done = Cardinality(G)
  <2>1. pool.done + 1 = Cardinality(G)
    BY <1>4, <1>6 DEF Counted
  <2>2. pool.done + 1 \in 0..MAX_WORKERS
    BY <1>6, <2>1, Sizes
  <2> HIDE DEF G
  <2> QED BY <1>0, <1>1, <2>1, <2>2 DEF PoolTypes
<1>8. task'[Caller] = task[Caller]
  BY <1>0, <1>3
<1>9. PoolTypes'
  BY <1>0, <1>1, <1>3, <1>7 DEF PoolTypes, Fixtures, TaskRec
<1>10. CallersPlace'
  BY <1>0, <1>3, <1>8, Sizes DEF CallersPlace, WorkerPcs
<1>11. Flags'
  BY <1>0, <1>2, <1>7, <1>8 DEF Flags, InCall, At, Size, WorkPcs
<1>12. Enough'
  BY <1>0, <1>1, <1>2, <1>7, <1>8 DEF Enough, Fixtures, At, Size, Clamp, WorkPcs
<1>13. WorkersInv'
  <2>1. \A u \in Workers : At(u, "none")' <=> u > created'
    BY <1>0, <1>1, <1>3, Sizes DEF WorkersInv, At, Fixtures
  <2>2. \A u \in Workers : task'[u].pc \notin {"none", "start", "dead"} => task'[u].tid = u
    BY <1>0, <1>1, <1>3, Sizes DEF WorkersInv
  <2>3. (\A i \in Threads \ {0} : workerTask'[i] \in {0, i}) /\ task'[Caller].tid = 0
    BY <1>0, <1>1, <1>8 DEF WorkersInv, Fixtures
  <2>4. ~(task'[Caller].pc \in {"spawn", "register"})
    BY <1>2, <1>8 DEF WorkPcs
  <2>5. ~(pool.shutdown /\ pool.initialized)
    BY <1>0, <1>1 DEF WorkersInv, Busy
  <2> QED BY <1>2, <1>7, <2>1, <2>2, <2>3, <2>4, <2>5 DEF WorkersInv
<1>14. CallInv'
  <2>1. Counted(G)'
    BY <1>3, <1>4, <1>5, <1>7, Sizes DEF Counted, At
  <2>2. Share(G)'
    <3>1. CASE work.chunk = -1
      <4>1. Fixed(F)
        BY <1>4, <3>1 DEF Share
      <4>2. Past(G)' = Past(F)
        <5> SUFFICES ASSUME NEW u \in Tasks PROVE u \in Past(G)' <=> u \in Past(F)
          BY DEF Past
        <5>1. CASE u = w
          BY <1>1, <5>1 DEF Past
        <5>2. CASE u # w
          BY <1>3, <5>2 DEF Past
        <5> QED BY <5>1, <5>2
      <4> HIDE DEF G
      <4>3. \A u \in Tasks : task'[u].pc # "take"
        BY <1>3, <4>1 DEF Fixed, At
      <4>4. \A u \in Tasks : task'[u].pc \in {"run", "add"} => <<task'[u].lo, task'[u].hi>> = FixedRange(u)
        BY <1>3, <4>1 DEF Fixed
      <4>5. Fixed(G)'
        BY <1>1, <1>7, <4>1, <4>2, <4>3, <4>4, FixedKept
      <4> QED BY <1>1, <3>1, <4>5 DEF Share
    <3>2. CASE work.chunk # -1
      <4>1. Claimed
        BY <1>4, <3>2 DEF Share
      <4>2. Claimed'
        BY <1>1, <1>3, <1>8, <4>1, ClaimedKept
      <4> QED BY <1>1, <3>2, <4>2 DEF Share
    <3> QED BY <3>1, <3>2
  <2>3. task'[Caller].pc \notin {"clear", "forget"}
    BY <1>2, <1>8 DEF WorkPcs
  <2> QED BY <1>5, <2>1, <2>2, <2>3 DEF CallInv, At
<1> QED BY <1>9, <1>10, <1>11, <1>12, <1>13, <1>14 DEF PoolInv

-----------------------------------------------------------------------------
(* The caller, from publishing its work to returning.                      *)

PoolRec == [initialized : BOOLEAN, shutdown : BOOLEAN, numThreads : 0..PARALLEL_MAX_THREADS,
            hasWork : BOOLEAN, available : BOOLEAN, done : 0..MAX_WORKERS]

CallerGoes(q) ==
  /\ Moves(Caller, q) /\ work' = work /\ hits' = hits /\ Fixtures' = Fixtures
  /\ pool' \in PoolRec /\ pool'.initialized = pool.initialized /\ pool'.shutdown = pool.shutdown
  /\ pool'.numThreads = pool.numThreads /\ pool'.done = pool.done

LEMMA CallerGoesInv ==
  ASSUME PoolInv, NEW q \in (MainPcs \cup WorkPcs) \ {"spawn", "register"}, CallerGoes(q), InCall,
         pool'.hasWork <=> q \notin {"idle", "publish"},
         pool'.available <=> q \in {"waitItems", "waitWorkers", "clear"} \cup WorkPcs,
         q \in {"publish", "signal"} => pool.done = 0,
         ~pool'.available => \A w \in Workers : task[w].pc \notin Busy,
         CallInv'
  PROVE  PoolInv'
<1>0. /\ PoolTypes /\ CallersPlace /\ Flags /\ Enough /\ WorkersInv /\ Caller \in Tasks /\ Caller \notin Workers
  BY Sizes DEF PoolInv
<1>1. /\ task'[Caller].pc = q /\ task'[Caller].tid = task[Caller].tid /\ task' \in [Tasks -> TaskRec]
      /\ \A u \in Tasks \ {Caller} : task'[u] = task[u]
      /\ work' = work /\ hits' = hits /\ Fixtures' = Fixtures /\ pool' \in PoolRec
      /\ pool'.initialized = pool.initialized /\ pool'.shutdown = pool.shutdown
      /\ pool'.numThreads = pool.numThreads /\ pool'.done = pool.done
  BY DEF CallerGoes, Moves
<1>2. PoolTypes'
  BY <1>0, <1>1 DEF PoolTypes, Fixtures, TaskRec, PoolRec
<1>3. CallersPlace'
  BY <1>0, <1>1, Sizes DEF CallersPlace
<1>4. Flags'
  BY <1>0, <1>1 DEF Flags, InCall, At, Size, WorkPcs
<1>5. Enough'
  BY <1>0, <1>1 DEF Enough, Fixtures, At, Size, Clamp, Flags
<1>6. WorkersInv'
  <2>1. \A u \in Workers : task'[u] = task[u]
    BY <1>0, <1>1, Sizes
  <2>2. pool.shutdown /\ pool.initialized => \A u \in Workers : task'[u].pc \notin Busy \cup {"drain"}
    BY <1>0, <2>1 DEF WorkersInv
  <2>3. \A u \in Workers : At(u, "none")' <=> u > created'
    BY <1>0, <1>1, <2>1 DEF WorkersInv, At, Fixtures
  <2>4. (\A i \in Threads \ {0} : workerTask'[i] \in {0, i}) /\ task'[Caller].tid = 0
    BY <1>0, <1>1 DEF WorkersInv, Fixtures
  <2>5. \A u \in Workers : task'[u].pc \notin {"none", "start", "dead"} => task'[u].tid = u
    BY <1>0, <2>1 DEF WorkersInv
  <2> QED BY <1>1, <2>1, <2>2, <2>3, <2>4, <2>5 DEF WorkersInv
<1> QED BY <1>2, <1>3, <1>4, <1>5, <1>6 DEF PoolInv

LEMMA CallerInCall ==
  ASSUME PoolInv, Publish \/ Signal \/ WaitItems
  PROVE  PoolInv'
<1>0. /\ PoolTypes /\ CallersPlace /\ Flags /\ Enough /\ WorkersInv /\ CallInv /\ Caller \in Tasks /\ Caller \notin Workers
      /\ pool \in PoolRec
  BY Sizes DEF PoolInv, PoolTypes, PoolRec
<1>1. PICK q \in {"signal", "begin", "waitWorkers"} :
        /\ Goes(Caller, q) /\ work' = work /\ hits' = hits /\ Fixtures' = Fixtures
        /\ q = "signal" => task[Caller].pc = "publish" /\ pool' = [pool EXCEPT !.hasWork = TRUE]
        /\ q = "begin" => task[Caller].pc = "signal" /\ pool' = [pool EXCEPT !.available = TRUE]
        /\ q = "waitWorkers" => task[Caller].pc = "waitItems" /\ pool' = pool
  <2>1. CASE Publish
    BY <2>1 DEF Publish, config, Fixtures, At
  <2>2. CASE Signal
    BY <2>2 DEF Signal, config, Fixtures, At
  <2>3. CASE WaitItems
    BY <2>3 DEF WaitItems, config, Fixtures, At
  <2> QED BY <2>1, <2>2, <2>3
<1>2. InCall /\ task[Caller].pc \notin {"clear", "forget"}
  BY <1>1 DEF InCall
<1>3. CallerGoes(q)
  <2>1. Moves(Caller, q)
    BY <1>0, <1>1, GoesTo DEF MainPcs, WorkPcs
  <2> QED BY <1>0, <1>1, <2>1 DEF CallerGoes, PoolRec
<1>4. PICK F \in SUBSET Workers : Counted(F) /\ Share(F)
  BY <1>0, <1>2 DEF CallInv
<1>5. /\ \A u \in Tasks \ {Caller} : task'[u] = task[u]
      /\ task'[Caller].pc = q /\ pool'.done = pool.done /\ pool'.numThreads = pool.numThreads
  BY <1>3 DEF CallerGoes, Moves
<1>6. Counted(F)'
  BY <1>4, <1>5, Sizes DEF Counted, At
<1>7. Share(F)'
  <2>1. \A t \in Tasks : \/ task'[t] = task[t]
                         \/ /\ task[t].pc \notin {"take", "run", "add", "done", "waitItems", "waitWorkers"}
                            /\ task'[t].pc \notin {"take", "run", "add", "done", "waitItems", "waitWorkers"}
                         \/ task[t].pc = "waitItems" /\ task'[t].pc = "waitWorkers"
    BY <1>1, <1>5
  <2> QED BY <1>1, <1>4, <1>5, <2>1, SameShare
<1>8. CallInv'
  BY <1>5, <1>6, <1>7 DEF CallInv, At
<1>9. q \in (MainPcs \cup WorkPcs) \ {"spawn", "register"}
  BY DEF MainPcs, WorkPcs
<1>10. /\ pool'.hasWork <=> q \notin {"idle", "publish"}
       /\ pool'.available <=> q \in {"waitItems", "waitWorkers", "clear"} \cup WorkPcs
       /\ q \in {"publish", "signal"} => pool.done = 0
  BY <1>0, <1>1, <1>2 DEF Flags, PoolRec, WorkPcs, At
<1>11. ~pool'.available => \A w \in Workers : task[w].pc \notin Busy
  <2>1. ~pool'.available => ~pool.available
    BY <1>0, <1>1 DEF PoolRec
  <2> QED BY <1>0, <2>1 DEF WorkersInv
<1> QED BY <1>2, <1>3, <1>8, <1>9, <1>10, <1>11, CallerGoesInv

\* The caller sees as many workers done as it has: all of them have done their
\* share in this call.
LEMMA AllDone ==
  ASSUME PoolInv, WaitWorkers
  PROVE  /\ AllHit
         /\ \A w \in Workers : At(w, "none") \/ At(w, "drain")
<1>0. /\ PoolTypes /\ CallersPlace /\ Flags /\ Enough /\ WorkersInv /\ CallInv /\ Caller \in Tasks
      /\ task[Caller].pc = "waitWorkers" /\ pool.done >= Size - 1 /\ InCall
  BY Sizes DEF PoolInv, WaitWorkers, WorkersDone, Size, InCall, At
<1>1. PICK F \in SUBSET Workers : Counted(F) /\ Share(F)
  BY <1>0 DEF CallInv
<1>2. /\ created \in Nat /\ created < Size /\ Size \in Nat /\ pool.done \in Nat /\ Size >= 2
      /\ created <= MAX_WORKERS
  BY <1>0 DEF Enough, Flags, PoolTypes, Size
<1>3. F \subseteq 1..created
  <2> SUFFICES ASSUME NEW w \in F PROVE w \in 1..created
    OBVIOUS
  <2>1. ~(w > created)
    BY <1>0, <1>1 DEF Counted, At, WorkersInv
  <2> QED BY <1>2, <2>1, Sizes DEF Workers
<1>4. Cardinality(F) >= Size - 1 /\ Cardinality(F) \in Nat
  BY <1>0, <1>1, SomeWorkers DEF Counted
<1>5. /\ IsFiniteSet(1..created) /\ Cardinality(1..created) = created
  <2>1. 1 \in Int /\ created \in Int
    BY <1>2
  <2> QED BY <1>2, <2>1, FS_Interval
<1>6. Cardinality(F) <= created /\ (Cardinality(F) = created => F = 1..created)
  BY <1>3, <1>5, FS_Subset
<1>7. F = 1..created /\ created = Size - 1
  BY <1>2, <1>4, <1>6
<1>8. \A w \in Workers : At(w, "none") \/ At(w, "drain")
  <2> SUFFICES ASSUME NEW w \in Workers PROVE At(w, "none") \/ At(w, "drain")
    OBVIOUS
  <2>1. w > created \/ w \in F
    BY <1>2, <1>7, Sizes DEF Workers
  <2> QED BY <1>0, <1>1, <2>1 DEF WorkersInv, Counted
<1>9. \A t \in Tasks : ~At(t, "run")
  BY <1>0, <1>8, Sizes DEF At
<1>10. AllHit
  <2>1. CASE work.chunk = -1
    <3>1. Fixed(F)
      BY <1>1, <2>1 DEF Share
    <3>2. Past(F) = 0..(Size - 1)
      <4>1. ASSUME NEW t \in Past(F) PROVE t \in 0..(Size - 1)
        <5>1. t = Caller \/ t \in 1..created
          <6>1. t \in Tasks /\ (t \in F \/ task[t].pc \in {"add", "done"} \/ t = Caller)
            BY <4>1 DEF Past
          <6> QED BY <1>7, <1>8, <6>1, Sizes DEF At
        <5> QED BY <1>2, <1>7, <5>1 DEF Caller
      <4>2. ASSUME NEW t \in 0..(Size - 1) PROVE t \in Past(F)
        <5>1. t = Caller \/ t \in F
          BY <1>2, <1>7 DEF Caller
        <5> QED BY <1>0, <5>1, Sizes DEF Past
      <4> QED BY <4>1, <4>2
    <3>3. work.total \in Nat /\ Size \in Nat \ {0}
      BY <1>0, <1>2 DEF PoolTypes
    <3> SUFFICES ASSUME NEW i \in Items PROVE hits[i] = IF i < work.total THEN 1 ELSE 0
      BY DEF AllHit
    <3>4. \A t \in 0..(Size - 1) : Span(t) = SpanOf(work.total, Size, t)
      BY <3>3, FixedRangeIs
    <3>5. i < work.total <=> \E t \in 0..(Size - 1) : i \in SpanOf(work.total, Size, t)
      BY <3>3, Sizes, SpansCover
    <3>6. (\E t \in Past(F) : i \in Span(t)) <=> (\E t \in 0..(Size - 1) : i \in SpanOf(work.total, Size, t))
      BY <3>2, <3>4
    <3> QED BY <3>1, <3>5, <3>6 DEF Fixed
  <2>2. CASE work.chunk # -1
    <3>1. Claimed
      BY <1>1, <2>2 DEF Share
    <3>2. work.next >= work.total /\ work.next \in Nat /\ work.total \in Nat
      BY <1>0, <3>1 DEF Claimed, PoolTypes
    <3> SUFFICES ASSUME NEW i \in Items PROVE hits[i] = IF i < work.total THEN 1 ELSE 0
      BY DEF AllHit
    <3>3. i < work.total => i < work.next
      BY <3>2, Sizes
    <3> QED BY <1>9, <3>1, <3>3 DEF Claimed
  <2> QED BY <2>1, <2>2
<1> QED BY <1>8, <1>10

LEMMA CallerLeaves ==
  ASSUME PoolInv, WaitWorkers \/ Clear \/ Forget
  PROVE  PoolInv'
<1>0. /\ PoolTypes /\ CallersPlace /\ Flags /\ Enough /\ WorkersInv /\ CallInv /\ Caller \in Tasks /\ Caller \notin Workers
      /\ pool \in PoolRec
  BY Sizes DEF PoolInv, PoolTypes, PoolRec
<1>1. PICK q \in {"clear", "forget", "idle"} :
        /\ Goes(Caller, q) /\ work' = work /\ hits' = hits /\ Fixtures' = Fixtures
        /\ q = "clear" => task[Caller].pc = "waitWorkers" /\ pool' = pool /\ WaitWorkers
        /\ q = "forget" => task[Caller].pc = "clear" /\ pool' = [pool EXCEPT !.available = FALSE]
        /\ q = "idle" => task[Caller].pc = "forget" /\ pool' = [pool EXCEPT !.hasWork = FALSE]
  <2>1. CASE WaitWorkers
    BY <2>1 DEF WaitWorkers, config, Fixtures, At
  <2>2. CASE Clear
    BY <2>2 DEF Clear, config, Fixtures, At
  <2>3. CASE Forget
    BY <2>3 DEF Forget, config, Fixtures, At
  <2> QED BY <2>1, <2>2, <2>3
<1>2. InCall
  BY <1>1 DEF InCall
<1>3. CallerGoes(q)
  <2>1. Moves(Caller, q)
    BY <1>0, <1>1, GoesTo DEF MainPcs, WorkPcs
  <2> QED BY <1>0, <1>1, <2>1 DEF CallerGoes, PoolRec
<1>5. /\ \A u \in Tasks \ {Caller} : task'[u] = task[u]
      /\ task'[Caller].pc = q /\ pool'.done = pool.done /\ pool'.numThreads = pool.numThreads
  BY <1>3 DEF CallerGoes, Moves
<1>6. q \in {"clear", "forget"} => AllHit
  BY <1>0, <1>1, AllDone DEF CallInv, At
<1>7. q = "clear" => \A w \in Workers : At(w, "none") \/ At(w, "drain")
  BY <1>1, AllDone
<1>8. CallInv'
  <2>1. task'[Caller].pc \in {"clear", "forget"} => AllHit'
    BY <1>1, <1>5, <1>6 DEF AllHit
  <2>2. At(Caller, "clear")' => \A w \in Workers : At(w, "none")' \/ At(w, "drain")'
    BY <1>0, <1>5, <1>7, Sizes DEF At
  <2>3. ~(InCall' /\ task'[Caller].pc \notin {"clear", "forget"})
    BY <1>5 DEF InCall
  <2> QED BY <2>1, <2>2, <2>3 DEF CallInv
<1>9. q \in (MainPcs \cup WorkPcs) \ {"spawn", "register"}
  BY DEF MainPcs, WorkPcs
<1>10. /\ pool'.hasWork <=> q \notin {"idle", "publish"}
       /\ pool'.available <=> q \in {"waitItems", "waitWorkers", "clear"} \cup WorkPcs
       /\ q \in {"publish", "signal"} => pool.done = 0
  BY <1>0, <1>1, <1>2 DEF Flags, PoolRec, WorkPcs, At
<1>11. ~pool'.available => \A w \in Workers : task[w].pc \notin Busy
  <2>1. q = "forget" => \A w \in Workers : At(w, "none") \/ At(w, "drain")
    BY <1>0, <1>1 DEF CallInv, At
  <2>2. q = "idle" => ~pool.available
    BY <1>0, <1>1 DEF Flags, WorkPcs
  <2>3. q = "clear" => pool'.available
    BY <1>10
  <2> QED BY <1>0, <2>1, <2>2, <2>3 DEF WorkersInv, Busy, WorkPcs, At
<1> QED BY <1>2, <1>3, <1>8, <1>9, <1>10, <1>11, CallerGoesInv

-----------------------------------------------------------------------------
(* Between calls: creating and configuring the pool, and starting a call.  *)

LEMMA ClampRange ==
  ASSUME NEW n \in ThreadCounts
  PROVE  Clamp(n) \in 1..PARALLEL_MAX_THREADS
<1>1. n \in Int /\ PARALLEL_MAX_THREADS \in Nat \ {0}
  BY PoolAssumption
<1> QED BY <1>1 DEF Clamp

\* The state between two calls of parallel_for, whatever is being configured.
LEMMA Outside ==
  ASSUME PoolInv, ~InCall
  PROVE  /\ ~pool.hasWork /\ ~pool.available
         /\ \A w \in Workers : task[w].pc \notin Busy
         /\ task[Caller].pc \in {"idle", "spawn", "register"}
<1>1. task[Caller].pc \in {"idle", "spawn", "register"}
  BY DEF InCall
<1>2. ~pool.hasWork /\ ~pool.available
  BY <1>1 DEF PoolInv, Flags, WorkPcs
<1> QED BY <1>1, <1>2 DEF PoolInv, WorkersInv

\* Configuring a pool moves no task.
LEMMA ConfigureInv ==
  ASSUME Steady, PoolInv, Configure
  PROVE  PoolInv'
<1>0. /\ PoolTypes /\ CallersPlace /\ Flags /\ Enough /\ WorkersInv /\ CallInv /\ Caller \in Tasks /\ Caller \notin Workers
      /\ pool \in PoolRec /\ task[Caller].pc = "idle" /\ configs \in Nat /\ created \in Nat
      /\ PARALLEL_MAX_THREADS \in Nat \ {0} /\ MAX_WORKERS \in Nat
  BY Sizes DEF PoolInv, PoolTypes, PoolRec, Configure, At
<1>1. /\ ~pool.hasWork /\ ~pool.available /\ ~InCall
      /\ \A w \in Workers : task[w].pc \notin Busy
  BY <1>0, Outside DEF InCall
<1>2. /\ configs' = IF created = 0 /\ ~pool.initialized THEN configs ELSE configs + 1
      /\ configs' <= 1 /\ configs' \in Nat /\ configs' >= configs
  <2>1. configs' = IF created = 0 /\ ~pool.initialized THEN configs ELSE configs + 1
    BY DEF Configure
  <2>2. configs' <= MAX_CONFIGS /\ MAX_CONFIGS <= 1 /\ MAX_CONFIGS \in Nat
    BY PoolAssumption DEF Configure, Steady
  <2> QED BY <1>0, <2>1, <2>2
<1>3. ASSUME NEW n \in ThreadCounts, parallel_init(n) PROVE PoolInv'
  <2>1. /\ ~pool.initialized /\ spawn' = 1 /\ Goes(Caller, "spawn")
        /\ pool' = [pool EXCEPT !.numThreads = Clamp(n), !.shutdown = FALSE, !.hasWork = FALSE,
                                !.available = FALSE, !.done = 0]
        /\ workerTask' = workerTask /\ deterministic' = deterministic /\ work' = work /\ hits' = hits
        /\ created' = created /\ calls' = calls
    BY <1>3 DEF parallel_init
  <2>2. created = 0
    BY <1>0, <1>2, <2>1 DEF Enough
  <2>3. Clamp(n) \in 1..PARALLEL_MAX_THREADS
    BY ClampRange
  <2>4. /\ pool'.numThreads = Clamp(n) /\ ~pool'.shutdown /\ ~pool'.hasWork /\ ~pool'.available
        /\ pool'.done = 0 /\ ~pool'.initialized /\ pool' \in PoolRec
    <3> DEFINE c == Clamp(n)
    <3>1. c \in 0..PARALLEL_MAX_THREADS /\ 0 \in 0..MAX_WORKERS
      BY <1>0, <2>3
    <3>2. pool' = [pool EXCEPT !.numThreads = c, !.shutdown = FALSE, !.hasWork = FALSE,
                               !.available = FALSE, !.done = 0]
      BY <2>1
    <3> HIDE DEF c
    <3>3. /\ pool'.numThreads = c /\ ~pool'.shutdown /\ ~pool'.hasWork /\ ~pool'.available
          /\ pool'.done = 0 /\ ~pool'.initialized
      BY <1>0, <2>1, <3>2 DEF PoolRec
    <3>4. pool' \in PoolRec
      BY <1>0, <3>1, <3>2 DEF PoolRec
    <3> QED BY <3>3, <3>4 DEF c
  <2>5. Moves(Caller, "spawn")
    BY <1>0, <2>1, GoesTo DEF MainPcs
  <2>6. /\ task' \in [Tasks -> TaskRec] /\ task'[Caller].pc = "spawn" /\ task'[Caller].tid = task[Caller].tid
        /\ \A w \in Workers : task'[w] = task[w]
    BY <1>0, <2>5, Sizes DEF Moves
  <2>7. \A w \in Workers : task[w].pc = "none"
    <3>1. \A w \in Workers : w > created
      BY <2>2 DEF Workers
    <3> QED BY <1>0, <3>1 DEF WorkersInv, At
  <2>8. PoolTypes'
    BY <1>0, <1>2, <2>1, <2>4, <2>6 DEF PoolTypes, PoolRec, TaskRec
  <2>9. CallersPlace'
    BY <1>0, <2>6 DEF CallersPlace, MainPcs
  <2>10. Flags'
    BY <2>4, <2>6 DEF Flags, InCall, At, WorkPcs
  <2>11. Enough'
    <3>1. \A m \in ThreadCounts : Clamp(m) = Clamp(n)
      BY DEF Steady
    <3>2. \A m \in ThreadCounts : 0 < Clamp(m)
      BY <2>3, <3>1
    <3> QED BY <2>1, <2>2, <2>3, <2>4, <2>6, <3>1, <3>2 DEF Enough, Size, At, Clamp
  <2>12. WorkersInv'
    BY <1>0, <2>1, <2>4, <2>6, <2>7 DEF WorkersInv, At, Busy, WorkPcs
  <2>13. CallInv'
    BY <2>6 DEF CallInv, InCall, At
  <2> QED BY <2>8, <2>9, <2>10, <2>11, <2>12, <2>13 DEF PoolInv
<1>4. ASSUME pool' \in PoolRec, task' = task, workerTask' = workerTask, work' = work, spawn' = spawn,
             hits' = hits, created' = created, calls' = calls, deterministic' \in BOOLEAN,
             pool'.hasWork = pool.hasWork, pool'.available = pool.available,
             pool'.initialized => created < pool'.numThreads,
             ~pool'.initialized => ~pool.initialized \/ configs' >= 1,
             pool'.initialized /\ pool'.shutdown => pool.initialized /\ pool.shutdown
      PROVE  PoolInv'
  <2>1. PoolTypes'
    BY <1>0, <1>2, <1>4 DEF PoolTypes, PoolRec
  <2>2. CallersPlace'
    BY <1>0, <1>4 DEF CallersPlace
  <2>3. Flags'
    BY <1>0, <1>1, <1>4 DEF Flags, InCall, At, WorkPcs
  <2>4. Enough'
    BY <1>0, <1>2, <1>4 DEF Enough, Size, At, Clamp
  <2>5. WorkersInv'
    BY <1>0, <1>1, <1>4 DEF WorkersInv, At
  <2>6. CallInv'
    BY <1>0, <1>4 DEF CallInv, InCall, At
  <2> QED BY <2>1, <2>2, <2>3, <2>4, <2>5, <2>6 DEF PoolInv
<1>5. ASSUME NEW n \in ThreadCounts, parallel_set_num_threads(n), ~parallel_init(n) PROVE PoolInv'
  <2>1. /\ pool.initialized /\ pool' = [pool EXCEPT !.numThreads = Clamp(n)]
        /\ UNCHANGED <<workerTask, deterministic, work, task, spawn, hits, created, calls>>
    BY <1>5 DEF parallel_set_num_threads
  <2>2. Clamp(n) \in 0..PARALLEL_MAX_THREADS /\ created < Clamp(n)
    BY <1>0, ClampRange DEF Enough
  <2>3. pool' \in PoolRec /\ pool'.numThreads = Clamp(n) /\ pool'.hasWork = pool.hasWork
        /\ pool'.available = pool.available /\ pool'.initialized = pool.initialized
        /\ pool'.shutdown = pool.shutdown
    BY <1>0, <2>1, <2>2 DEF PoolRec
  <2> QED BY <1>0, <1>4, <2>1, <2>2, <2>3 DEF PoolTypes
<1>6. CASE parallel_shutdown
  <2>1. /\ pool.initialized /\ pool' = [pool EXCEPT !.shutdown = TRUE, !.initialized = FALSE]
        /\ UNCHANGED <<workerTask, deterministic, work, task, spawn, hits, created, calls>>
    BY <1>6 DEF parallel_shutdown
  <2>2. pool' \in PoolRec /\ pool'.hasWork = pool.hasWork
        /\ pool'.available = pool.available /\ ~pool'.initialized
    BY <1>0, <2>1 DEF PoolRec
  <2>3. configs' >= 1
    BY <1>0, <1>2, <2>1
  <2> QED BY <1>0, <1>4, <2>1, <2>2, <2>3 DEF PoolTypes
<1>7. ASSUME NEW b \in Modes, parallel_set_deterministic(b) PROVE PoolInv'
  <2>1. /\ deterministic' = b /\ b \in BOOLEAN
        /\ UNCHANGED <<pool, workerTask, work, task, spawn, hits, created, calls>>
    BY <1>7, PoolAssumption DEF parallel_set_deterministic
  <2> QED BY <1>0, <1>4, <2>1 DEF Enough, Size
<1> QED BY <1>3, <1>5, <1>6, <1>7 DEF Configure

LEMMA SpawnInv ==
  ASSUME PoolInv, Spawn
  PROVE  PoolInv'
<1>0. /\ PoolTypes /\ CallersPlace /\ Flags /\ Enough /\ WorkersInv /\ CallInv /\ Caller \in Tasks /\ Caller \notin Workers
      /\ pool \in PoolRec /\ task \in [Tasks -> TaskRec] /\ task[Caller].pc = "spawn" /\ created \in Nat
      /\ spawn \in Nat /\ Size \in Nat /\ MAX_WORKERS \in Nat /\ spawn < Size
  BY Sizes DEF PoolInv, PoolTypes, PoolRec, Spawn, At, TaskRec, Size
<1>1. /\ ~pool.hasWork /\ ~pool.available /\ ~InCall
      /\ \A w \in Workers : task[w].pc \notin Busy \cup {"drain"}
      /\ ~pool.initialized /\ ~pool.shutdown /\ created = spawn - 1
      /\ \A n \in ThreadCounts : Size = Clamp(n)
  BY <1>0, Outside DEF InCall, WorkersInv, Flags, Enough, At
<1>2. /\ workerTask' = workerTask /\ deterministic' = deterministic /\ work' = work /\ spawn' = spawn
      /\ hits' = hits /\ calls' = calls /\ configs' = configs
  BY DEF Spawn
<1>3. CASE created' = created + 1
  <2>1. /\ created < MAX_WORKERS
        /\ task' = [task EXCEPT ![created'].pc = "start", ![Caller].pc = "register"] /\ pool' = pool
    BY <1>0, <1>3 DEF Spawn
  <2> DEFINE w == created + 1
  <2>2. w \in Workers /\ w \in Tasks /\ w # Caller /\ w \in Nat /\ created' \in 0..MAX_WORKERS
    BY <1>0, <1>3, <2>1, Sizes DEF Workers
  <2>3. task[w].pc = "none"
    BY <1>0, <2>2 DEF WorkersInv, At
  <2>4. /\ task'[w] = [task[w] EXCEPT !.pc = "start"] /\ task'[Caller] = [task[Caller] EXCEPT !.pc = "register"]
        /\ \A u \in Tasks \ {w, Caller} : task'[u] = task[u]
        /\ DOMAIN task' = Tasks /\ task' = [u \in Tasks |-> task'[u]]
    BY <1>0, <1>3, <2>1, <2>2
  <2> HIDE DEF w
  <2>5. /\ task'[w] \in TaskRec /\ task'[w].pc = "start"
        /\ task'[Caller] \in TaskRec /\ task'[Caller].pc = "register" /\ task'[Caller].tid = task[Caller].tid
    BY <1>0, <2>2, <2>4 DEF TaskRec, WorkerPcs, MainPcs
  <2>6. task' \in [Tasks -> TaskRec]
    BY <1>0, <2>4, <2>5
  <2>7. PoolTypes'
    BY <1>0, <1>2, <2>1, <2>2, <2>6 DEF PoolTypes, TaskRec
  <2>8. CallersPlace'
    BY <1>0, <2>4, <2>5, Sizes DEF CallersPlace, MainPcs, WorkerPcs
  <2>9. Flags'
    BY <1>1, <2>1, <2>5 DEF Flags, InCall, At, WorkPcs
  <2>10. Enough'
    <3>1. created' = spawn /\ Size' = Size
      BY <1>0, <1>1, <1>3, <2>1 DEF Size
    <3>2. \A n \in ThreadCounts : Clamp(n)' = Clamp(n) /\ spawn < Clamp(n)
      BY <1>0, <1>1 DEF Clamp
    <3> QED BY <1>0, <1>1, <1>2, <2>1, <2>5, <3>1, <3>2 DEF Enough, At
  <2>11. WorkersInv'
    <3>1. \A u \in Workers : At(u, "none")' <=> u > created'
      <4> SUFFICES ASSUME NEW u \in Workers PROVE At(u, "none")' <=> u > created'
        OBVIOUS
      <4>1. CASE u = w
        BY <1>0, <1>3, <2>2, <2>5, <4>1 DEF At, w
      <4>2. CASE u # w
        <5>1. task'[u] = task[u] /\ u \in Nat /\ (u > created <=> u > created')
          BY <1>0, <1>3, <2>4, <4>2, Sizes DEF w
        <5> QED BY <1>0, <5>1 DEF WorkersInv, At
      <4> QED BY <4>1, <4>2
    <3>2. \A u \in Workers : task'[u].pc \notin {"none", "start", "dead"} => task'[u].tid = u
      <4> SUFFICES ASSUME NEW u \in Workers, task'[u].pc \notin {"none", "start", "dead"}
                   PROVE  task'[u].tid = u
        OBVIOUS
      <4>1. u # w
        BY <2>5
      <4>2. task'[u] = task[u]
        BY <2>4, <4>1, Sizes
      <4> QED BY <1>0, <4>2 DEF WorkersInv
    <3>3. \A u \in Workers : task'[u].pc \notin Busy \cup {"drain"}
      BY <1>0, <1>1, <2>4, <2>5, Sizes DEF Busy, WorkPcs
    <3> QED BY <1>0, <1>2, <2>5, <3>1, <3>2, <3>3 DEF WorkersInv
  <2>12. CallInv'
    BY <2>5 DEF CallInv, InCall, At
  <2> QED BY <2>7, <2>8, <2>9, <2>10, <2>11, <2>12 DEF PoolInv
<1>4. CASE created' # created + 1
  <2>1. /\ pool' = [pool EXCEPT !.shutdown = TRUE, !.numThreads = spawn, !.initialized = TRUE]
        /\ Goes(Caller, "idle") /\ created' = created
    BY <1>4 DEF Spawn
  <2>2. /\ spawn \in 0..PARALLEL_MAX_THREADS /\ created < spawn
    BY <1>0, <1>1 DEF PoolTypes
  <2>3. pool' \in PoolRec /\ pool'.numThreads = spawn /\ pool'.initialized /\ pool'.shutdown
        /\ ~pool'.hasWork /\ ~pool'.available
    BY <1>0, <1>1, <2>1, <2>2 DEF PoolRec
  <2>4. /\ task' \in [Tasks -> TaskRec] /\ task'[Caller].pc = "idle" /\ task'[Caller].tid = task[Caller].tid
        /\ \A w \in Workers : task'[w] = task[w]
    <3>1. Moves(Caller, "idle")
      BY <1>0, <2>1, GoesTo DEF MainPcs
    <3> QED BY <1>0, <3>1, Sizes DEF Moves
  <2>5. PoolTypes'
    BY <1>0, <1>2, <2>1, <2>3, <2>4 DEF PoolTypes, PoolRec, TaskRec
  <2>6. CallersPlace'
    BY <1>0, <2>4 DEF CallersPlace, MainPcs
  <2>7. Flags'
    BY <2>3, <2>4 DEF Flags, InCall, At, WorkPcs
  <2>8. Enough'
    BY <1>0, <1>2, <2>1, <2>2, <2>3, <2>4 DEF Enough, Size, At, Clamp
  <2>9. WorkersInv'
    BY <1>0, <1>1, <1>2, <2>1, <2>3, <2>4 DEF WorkersInv, At
  <2>10. CallInv'
    BY <2>4 DEF CallInv, InCall, At
  <2> QED BY <2>5, <2>6, <2>7, <2>8, <2>9, <2>10 DEF PoolInv
<1> QED BY <1>3, <1>4

LEMMA RegisterInv ==
  ASSUME PoolInv, Register \/ Spawned
  PROVE  PoolInv'
<1>0. /\ PoolTypes /\ CallersPlace /\ Flags /\ Enough /\ WorkersInv /\ CallInv /\ Caller \in Tasks /\ Caller \notin Workers
      /\ pool \in PoolRec /\ created \in Nat /\ spawn \in Nat /\ Size \in 0..PARALLEL_MAX_THREADS
      /\ spawn \in 1..PARALLEL_MAX_THREADS /\ PARALLEL_MAX_THREADS \in Nat
  BY Sizes DEF PoolInv, PoolTypes, PoolRec, Size
<1>1. /\ task[Caller].pc \in {"spawn", "register"} /\ ~pool.hasWork /\ ~pool.available
      /\ \A w \in Workers : task[w].pc \notin Busy \cup {"drain"}
      /\ ~pool.initialized /\ ~pool.shutdown
      /\ \A n \in ThreadCounts : Size = Clamp(n)
  <2>1. task[Caller].pc \in {"spawn", "register"}
    BY DEF Register, Spawned, At
  <2> QED BY <1>0, <2>1, Outside DEF InCall, WorkersInv, Flags, Enough
<1>2. /\ deterministic' = deterministic /\ work' = work
      /\ hits' = hits /\ calls' = calls /\ configs' = configs /\ created' = created
  BY DEF Register, Spawned, config
<1>3. CASE Register
  <2>1. /\ task[Caller].pc = "register" /\ workerTask' = [workerTask EXCEPT ![spawn] = created]
        /\ spawn' = spawn + 1 /\ Goes(Caller, "spawn") /\ pool' = pool
    BY <1>3 DEF Register, At
  <2>2. created = spawn /\ spawn < Size /\ spawn \in Threads /\ spawn' \in 1..PARALLEL_MAX_THREADS
    BY <1>0, <2>1 DEF Enough, At, Threads
  <2>3. /\ task' \in [Tasks -> TaskRec] /\ task'[Caller].pc = "spawn" /\ task'[Caller].tid = task[Caller].tid
        /\ \A w \in Workers : task'[w] = task[w]
    <3>1. Moves(Caller, "spawn")
      BY <1>0, <2>1, GoesTo DEF MainPcs
    <3> QED BY <1>0, <3>1, Sizes DEF Moves
  <2>4. workerTask' \in [Threads -> 0..MAX_WORKERS] /\ \A i \in Threads \ {0} : workerTask'[i] \in {0, i}
    BY <1>0, <2>1, <2>2 DEF PoolTypes, WorkersInv
  <2>5. PoolTypes'
    BY <1>0, <1>2, <2>1, <2>2, <2>3, <2>4 DEF PoolTypes, TaskRec
  <2>6. CallersPlace'
    BY <1>0, <2>3 DEF CallersPlace, MainPcs
  <2>7. Flags'
    BY <1>1, <2>1, <2>3 DEF Flags, InCall, At, WorkPcs
  <2>8. Enough'
    BY <1>0, <1>1, <1>2, <2>1, <2>2, <2>3 DEF Enough, Size, At, Clamp
  <2>9. WorkersInv'
    BY <1>0, <1>1, <1>2, <2>3, <2>4 DEF WorkersInv, At
  <2>10. CallInv'
    BY <2>3 DEF CallInv, InCall, At
  <2> QED BY <2>5, <2>6, <2>7, <2>8, <2>9, <2>10 DEF PoolInv
<1>4. CASE Spawned
  <2>1. /\ task[Caller].pc = "spawn" /\ workerTask' = workerTask /\ spawn' = spawn /\ Goes(Caller, "idle")
        /\ pool' = [pool EXCEPT !.initialized = TRUE] /\ spawn = Size
    BY <1>4 DEF Spawned, config, At, Size
  <2>2. /\ pool' \in PoolRec /\ pool'.initialized /\ ~pool'.shutdown /\ pool'.numThreads = pool.numThreads
        /\ ~pool'.hasWork /\ ~pool'.available
    BY <1>0, <1>1, <2>1 DEF PoolRec
  <2>3. created < Size
    BY <1>0, <2>1 DEF Enough, At
  <2>4. /\ task' \in [Tasks -> TaskRec] /\ task'[Caller].pc = "idle" /\ task'[Caller].tid = task[Caller].tid
        /\ \A w \in Workers : task'[w] = task[w]
    <3>1. Moves(Caller, "idle")
      BY <1>0, <2>1, GoesTo DEF MainPcs
    <3> QED BY <1>0, <3>1, Sizes DEF Moves
  <2>5. PoolTypes'
    BY <1>0, <1>2, <2>1, <2>2, <2>4 DEF PoolTypes, PoolRec, TaskRec
  <2>6. CallersPlace'
    BY <1>0, <2>4 DEF CallersPlace, MainPcs
  <2>7. Flags'
    BY <2>2, <2>4 DEF Flags, InCall, At, WorkPcs
  <2>8. Enough'
    BY <1>0, <1>2, <2>1, <2>2, <2>3, <2>4 DEF Enough, Size, At, Clamp
  <2>9. WorkersInv'
    BY <1>0, <1>1, <1>2, <2>1, <2>2, <2>4 DEF WorkersInv, At
  <2>10. CallInv'
    BY <2>4 DEF CallInv, InCall, At
  <2> QED BY <2>5, <2>6, <2>7, <2>8, <2>9, <2>10 DEF PoolInv
<1> QED BY <1>3, <1>4

\* Making the descriptor: no worker is near it.
LEMMA PrepareInv ==
  ASSUME PoolInv, NEW total \in Totals, NEW chunk \in Chunks, parallel_for(total, chunk)
  PROVE  PoolInv'
<1>0. /\ PoolTypes /\ CallersPlace /\ Flags /\ Enough /\ WorkersInv /\ CallInv /\ Caller \in Tasks /\ Caller \notin Workers
      /\ pool \in PoolRec /\ task[Caller].pc = "idle" /\ calls' = calls + 1 /\ calls \in Nat
      /\ total \in 0..MAX_TOTAL /\ chunk \in Int /\ MAX_TOTAL \in Nat /\ MAX_WORKERS \in Nat
  BY Sizes, PoolAssumption DEF PoolInv, PoolTypes, PoolRec, parallel_for, At
<1>1. /\ ~pool.hasWork /\ ~pool.available /\ ~InCall
      /\ \A w \in Workers : task[w].pc \notin Busy
  BY <1>0, Outside DEF InCall
<1>2. /\ workerTask' = workerTask /\ deterministic' = deterministic /\ spawn' = spawn
      /\ created' = created /\ configs' = configs
  BY DEF parallel_for
<1>3. CASE ~pool.initialized \/ pool.numThreads <= 1
  <2>1. /\ hits' = [i \in Items |-> IF i < total THEN 1 ELSE 0]
        /\ pool' = pool /\ work' = work /\ task' = task
    BY <1>3 DEF parallel_for, Sequential
  <2>2. hits' \in [Items -> Nat]
    BY <2>1
  <2>3. PoolTypes'
    BY <1>0, <1>2, <2>1, <2>2 DEF PoolTypes
  <2> QED BY <1>0, <1>2, <2>1, <2>3 DEF PoolInv, CallersPlace, Flags, Enough, WorkersInv, CallInv, InCall, At, Size, Clamp
<1>4. CASE ~(~pool.initialized \/ pool.numThreads <= 1)
  <2> DEFINE c == ChunkSize(total, chunk)
  <2>1. /\ work' = [total |-> total, chunk |-> c, next |-> 0, completed |-> 0]
        /\ hits' = [i \in Items |-> 0] /\ pool' = [pool EXCEPT !.done = 0] /\ Goes(Caller, "publish")
    BY <1>4 DEF parallel_for, Prepare
  <2>2. pool.initialized /\ pool.numThreads \in Nat \ {0} /\ pool.numThreads >= 2
    BY <1>0, <1>4 DEF PoolRec
  <2>3. c \in {-1} \cup (Nat \ {0})
    <3>1. total \in Nat /\ total \div pool.numThreads \in Nat
      <4> DEFINE n == pool.numThreads
      <4>1. n \in Nat \ {0} /\ total \in Nat
        BY <1>0, <2>2
      <4> HIDE DEF n
      <4>2. total \div n \in Nat
        BY <4>1, Shares
      <4> QED BY <4>1, <4>2 DEF n
    <3> QED BY <1>0, <3>1 DEF ChunkSize
  <2> HIDE DEF c
  <2>4. /\ work' \in [total : 0..MAX_TOTAL, chunk : {-1} \cup (Nat \ {0}), next : Nat, completed : Nat]
        /\ work'.next = 0 /\ work'.total = total
    BY <1>0, <2>1, <2>3
  <2>5. hits' \in [Items -> Nat] /\ \A i \in Items : hits'[i] = 0
    BY <2>1
  <2>6. /\ pool' \in PoolRec /\ pool'.done = 0 /\ pool'.numThreads = pool.numThreads
        /\ pool'.initialized = pool.initialized /\ pool'.shutdown = pool.shutdown
        /\ pool'.hasWork = pool.hasWork /\ pool'.available = pool.available
    <3>1. 0 \in 0..MAX_WORKERS
      BY <1>0
    <3> QED BY <1>0, <2>1, <3>1 DEF PoolRec
  <2>7. /\ task' \in [Tasks -> TaskRec] /\ task'[Caller].pc = "publish" /\ task'[Caller].tid = task[Caller].tid
        /\ \A w \in Workers : task'[w] = task[w]
    <3>1. Moves(Caller, "publish")
      BY <1>0, <2>1, GoesTo DEF MainPcs
    <3> QED BY <1>0, <3>1, Sizes DEF Moves
  <2>8. PoolTypes'
    <3>1. calls' \in Nat
      BY <1>0
    <3> QED BY <1>0, <1>2, <2>4, <2>5, <2>6, <2>7, <3>1 DEF PoolTypes, PoolRec, TaskRec
  <2>9. CallersPlace'
    BY <1>0, <2>7 DEF CallersPlace, MainPcs
  <2>10. Flags'
    BY <1>1, <2>2, <2>6, <2>7 DEF Flags, InCall, At, WorkPcs, Size
  <2>11. Enough'
    BY <1>0, <1>2, <2>2, <2>6, <2>7 DEF Enough, Size, At, Clamp
  <2>12. WorkersInv'
    BY <1>0, <1>1, <1>2, <2>6, <2>7 DEF WorkersInv, At
  <2>13. CallInv'
    <3> DEFINE E == {}
    <3>1. E \in SUBSET Workers /\ Cardinality(E) = 0 /\ \A w : w \notin E
      BY FS_EmptySet
    <3> HIDE DEF E
    <3>2. Counted(E)'
      BY <2>6, <3>1 DEF Counted
    <3>3. \A t \in Tasks : task'[t].pc \notin {"take", "run", "add", "done", "waitItems", "waitWorkers"}
      <4>1. \A w \in Workers : task[w].pc \in WorkerPcs \cup WorkPcs
        BY <1>0 DEF CallersPlace
      <4>2. \A w \in Workers : task'[w].pc \notin {"take", "run", "add", "done", "waitItems", "waitWorkers"}
        BY <1>1, <2>7, <4>1 DEF Busy, WorkPcs, WorkerPcs
      <4> QED BY <2>7, <4>2, Sizes
    <3>4. CASE work'.chunk = -1
      <4>1. \A t : t \notin Past(E)'
        BY <3>1, <3>3 DEF Past
      <4>2. Fixed(E)'
        BY <2>5, <3>3, <4>1 DEF Fixed, At
      <4>3. Share(E)'
        BY <3>4, <4>2 DEF Share
      <4> QED BY <2>7, <3>1, <3>2, <4>3 DEF CallInv, At
    <3>5. CASE work'.chunk # -1
      <4>1. \A i \in Items : ~(i < work'.next)
        BY <2>4, Sizes
      <4>2. Claimed'
        BY <2>5, <3>3, <4>1, Sizes DEF Claimed, At
      <4>3. Share(E)'
        BY <3>5, <4>2 DEF Share
      <4> QED BY <2>7, <3>1, <3>2, <4>3 DEF CallInv, At
    <3> QED BY <3>4, <3>5
  <2> QED BY <2>8, <2>9, <2>10, <2>11, <2>12, <2>13 DEF PoolInv
<1> QED BY <1>3, <1>4

-----------------------------------------------------------------------------
LEMMA PoolInitInv == PoolInit => PoolInv
<1> SUFFICES ASSUME PoolInit PROVE PoolInv
  OBVIOUS
<1>1. /\ pool = [initialized |-> FALSE, shutdown |-> FALSE, numThreads |-> 0,
                 hasWork |-> FALSE, available |-> FALSE, done |-> 0]
      /\ workerTask = [i \in Threads |-> 0] /\ deterministic = FALSE
      /\ work = [total |-> 0, chunk |-> 1, next |-> 0, completed |-> 0]
      /\ task = [t \in Tasks |-> [pc |-> IF t = Caller THEN "idle" ELSE "none",
                                  tid |-> 0, lo |-> 0, hi |-> 0]]
      /\ spawn = 1 /\ hits = [i \in Items |-> 0]
      /\ created = 0 /\ calls = 0 /\ configs = 0
  BY DEF PoolInit
<1>2. task \in [Tasks -> TaskRec]
  BY <1>1, Sizes DEF TaskRec, MainPcs, WorkerPcs
<1>3. \A t \in Tasks : task[t].tid = 0 /\ task[t].pc = IF t = Caller THEN "idle" ELSE "none"
  BY <1>1
<1>4. PoolTypes
  <2>1. pool \in [initialized : BOOLEAN, shutdown : BOOLEAN, numThreads : 0..PARALLEL_MAX_THREADS,
                  hasWork : BOOLEAN, available : BOOLEAN, done : 0..MAX_WORKERS]
    BY <1>1, Sizes
  <2>2. workerTask \in [Threads -> 0..MAX_WORKERS] /\ created \in 0..MAX_WORKERS
    BY <1>1, Sizes
  <2>3. work \in [total : 0..MAX_TOTAL, chunk : {-1} \cup (Nat \ {0}), next : Nat, completed : Nat]
    BY <1>1, Sizes
  <2>4. hits \in [Items -> Nat] /\ spawn \in 1..PARALLEL_MAX_THREADS
    BY <1>1, Sizes
  <2> QED BY <1>1, <1>2, <2>1, <2>2, <2>3, <2>4 DEF PoolTypes, TaskRec
<1>5. CallersPlace
  BY <1>3, Sizes DEF CallersPlace, MainPcs, WorkerPcs
<1>6. Flags
  BY <1>1, <1>3, Sizes DEF Flags, InCall, At, WorkPcs
<1>7. Enough
  <2>1. \A n \in ThreadCounts : created < Clamp(n)
    BY <1>1, ClampRange
  <2> QED BY <1>1, <1>3, <2>1, Sizes DEF Enough, At
<1>8. WorkersInv
  <2>1. \A w \in Workers : task[w].pc = "none" /\ w > created
    BY <1>1, <1>3, Sizes DEF Workers
  <2> QED BY <1>1, <1>3, <2>1, Sizes DEF WorkersInv, At, Busy, WorkPcs
<1>9. CallInv
  BY <1>3, Sizes DEF CallInv, InCall, At
<1> QED BY <1>4, <1>5, <1>6, <1>7, <1>8, <1>9 DEF PoolInv

LEMMA PoolStep ==
  ASSUME Steady, PoolInv, [PoolNext]_pool_vars
  PROVE  PoolInv'
<1>1. CASE Configure
  BY <1>1, ConfigureInv
<1>2. ASSUME NEW total \in Totals, NEW chunk \in Chunks, parallel_for(total, chunk) PROVE PoolInv'
  BY <1>2, PrepareInv
<1>3. CASE CallerStep
  <2>1. CASE Working(Caller)
    BY <2>1, WorkingInv, Sizes
  <2> QED BY <1>3, <2>1, SpawnInv, RegisterInv, CallerInCall, CallerLeaves DEF CallerStep
<1>4. ASSUME NEW w \in Workers, WorkerStep(w) PROVE PoolInv'
  <2>1. w \in Tasks
    BY Sizes
  <2>2. CASE Working(w)
    BY <2>1, <2>2, WorkingInv
  <2>3. CASE Finish(w)
    BY <2>3, FinishInv
  <2>4. CASE Start(w) \/ Top(w) \/ Wake(w) \/ Check(w) \/ FetchWork(w) \/ Drain(w)
    <3>1. Waits(w)
      BY <2>4, WaitsWhen
    <3> QED BY <3>1, WaitsInv
  <2> QED BY <1>4, <2>2, <2>3, <2>4 DEF WorkerStep
<1>5. CASE UNCHANGED pool_vars
  <2>1. /\ pool' = pool /\ work' = work /\ task' = task /\ hits' = hits /\ created' = created
        /\ spawn' = spawn /\ workerTask' = workerTask /\ deterministic' = deterministic
        /\ calls' = calls /\ configs' = configs
    BY <1>5 DEF pool_vars
  <2>2. ASSUME NEW F PROVE Counted(F)' <=> Counted(F)
    BY <2>1 DEF Counted, At
  <2>3. ASSUME NEW F PROVE Share(F)' <=> Share(F)
    BY <2>1 DEF Share, Fixed, Claimed, Past, Span, FixedRange, Mine, At
  <2>4. CallInv'
    BY <2>1, <2>2, <2>3 DEF PoolInv, CallInv, InCall, At, AllHit
  <2> QED BY <2>1, <2>4 DEF PoolInv, PoolTypes, CallersPlace, Flags, Enough, WorkersInv, InCall, At, Size, Clamp
<1> QED BY <1>1, <1>2, <1>3, <1>4, <1>5 DEF PoolNext

LEMMA PoolInvariant ==
  ASSUME Steady
  PROVE  PoolSpec => []PoolInv
<1>1. Steady
  OBVIOUS
<1>2. PoolInv /\ [PoolNext]_pool_vars => PoolInv'
  BY <1>1, PoolStep
<1> QED BY <1>2, PoolInitInv, PTL DEF PoolSpec

\* The types of the pool's state: the count of workers done and every range of
\* items stay within their bounds.
THEOREM PoolTypeCorrect ==
  ASSUME Steady
  PROVE  PoolSpec => []PoolTypeOK
<1>1. PoolInv => PoolTypeOK
  BY DEF PoolInv, PoolTypes, PoolTypeOK
<1> QED BY <1>1, PoolInvariant, PTL

\* No worker uses the descriptor after the caller has left parallel_for, for
\* any number of threads and items and any order of their steps, a failing
\* task_create included (parallel_inference.c:451): as long as the pool is set
\* up once and its size is not changed.
THEOREM NoStaleWorkSteady ==
  ASSUME Steady
  PROVE  PoolSpec => []NoStaleWork
<1>1. PoolInv => NoStaleWork
  <2> SUFFICES ASSUME PoolInv, NEW w \in Workers, task[w].pc \in WorkPcs PROVE InCall
    BY DEF NoStaleWork
  <2> QED BY Outside DEF Busy
<1> QED BY <1>1, PoolInvariant, PTL

\* A call on the pool executes every item exactly once, and no other, in both
\* modes (parallel_inference.c:446), under the same conditions.
THEOREM OnceEachSteady ==
  ASSUME Steady
  PROVE  PoolSpec => OnceEach
<1> DEFINE HitOnce == InCall /\ task'[Caller].pc = "idle" =>
                     \A i \in Items : hits'[i] = IF i < work.total THEN 1 ELSE 0
<1>1. ASSUME PoolInv, [PoolNext]_pool_vars PROVE [HitOnce]_pool_vars
  <2> SUFFICES ASSUME PoolNext, InCall, task'[Caller].pc = "idle"
               PROVE  \A i \in Items : hits'[i] = IF i < work.total THEN 1 ELSE 0
    BY <1>1
  <2>0. PoolTypes /\ CallInv /\ Caller \in Tasks /\ task \in [Tasks -> TaskRec]
    BY <1>1, Sizes DEF PoolInv, PoolTypes, TaskRec
  <2>1. CASE Forget
    BY <2>0, <2>1 DEF Forget, CallInv, AllHit, At
  <2>2. ASSUME Configure \/ Spawn \/ Register \/ Spawned
               \/ (\E total \in Totals, chunk \in Chunks : parallel_for(total, chunk))
        PROVE  FALSE
    BY <2>2 DEF Configure, Spawn, Register, Spawned, parallel_for, InCall, At
  <2>3. ASSUME Publish \/ Signal \/ WaitItems \/ WaitWorkers \/ Clear PROVE FALSE
    BY <2>0, <2>3 DEF Publish, Signal, WaitItems, WaitWorkers, Clear, Goes, TaskRec
  <2>4. ASSUME NEW t \in Tasks, Works(t) PROVE FALSE
    BY <2>0, <2>4 DEF Works, WorkPcs, InCall
  <2>5. ASSUME NEW t \in Tasks, Working(t) PROVE FALSE
    BY <1>1, <2>4, <2>5, BeginWorks, TakeWorks, RunWorks, AddWorks DEF Working
  <2>6. ASSUME NEW w \in Workers, Waits(w) PROVE FALSE
    BY <2>6, Sizes DEF Waits, InCall
  <2>7. ASSUME NEW w \in Workers, Finish(w) PROVE FALSE
    <3>1. Moves(w, "drain") /\ w \in Tasks
      BY <2>0, <2>7, GoesTo, Sizes DEF Finish, WorkerPcs
    <3> QED BY <3>1, Sizes DEF Moves, InCall
  <2>8. ASSUME NEW w \in Workers, WorkerStep(w) PROVE FALSE
    BY <1>1, <2>5, <2>6, <2>7, <2>8, WaitsWhen, Sizes DEF WorkerStep
  <2> QED BY <2>1, <2>2, <2>3, <2>5, <2>8, Sizes DEF PoolNext, CallerStep
<1>2. PoolInv /\ [PoolNext]_pool_vars => [HitOnce]_pool_vars
  BY <1>1
<1> QED BY <1>2, PoolInvariant, PTL DEF PoolSpec, OnceEach

-----------------------------------------------------------------------------
(* The four parts together.                                                *)

\* Each part behaves as it does alone.
LEMMA PartsAlone == Spec => RegistrySpec /\ KvSpec /\ PoolSpec /\ NvmeSpec
<1>1. Init => RegistryInit /\ KvInit /\ PoolInit /\ NvmeInit
  BY DEF Init
<1>2. [Next]_<<part, registry_vars, kv_vars, pool_vars, nvme_vars>>
        => /\ [RegistryNext]_registry_vars /\ [KvNext]_kv_vars
           /\ [PoolNext]_pool_vars /\ [NvmeNext]_nvme_vars
  BY DEF Next
<1> QED BY <1>1, <1>2, PTL DEF Spec, RegistrySpec, KvSpec, PoolSpec, NvmeSpec

\* Every field of the four services keeps its type, in a system that sets its
\* pool up once.
THEOREM ServicesTypeCorrect ==
  ASSUME Steady
  PROVE  Spec => []ServicesTypeOK
<1>1. RegistryTypeOK /\ KvTypeOK /\ PoolTypeOK /\ NvmeTypeOK => ServicesTypeOK
  BY DEF ServicesTypeOK
<1>2. PoolSpec => []PoolTypeOK
  BY PoolTypeCorrect
<1> QED BY <1>1, <1>2, PartsAlone, RegistryTypeCorrect, KvTypeCorrect, NvmeTypeCorrect, PTL
=============================================================================

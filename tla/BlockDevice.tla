----------------------------- MODULE BlockDevice -----------------------------
(***************************************************************************)
(* What a block driver promises its caller (block_ops_t, block.h:54-98):   *)
(* a synchronous request takes effect at most once, between call and       *)
(* return, and BLOCK_OK says that it did.  A failed request may have taken *)
(* effect or not.                                                          *)
(***************************************************************************)
CONSTANTS Sectors, Data

VARIABLES disk,   \* contents of the device
          op,     \* "none" between requests, else "read", "write" or "flush"
          sector, \* of the request
          data,   \* the caller's buffer
          done,   \* the request has taken effect
          ret     \* what the last request returned

vars == <<disk, op, sector, data, done, ret>>

Init == /\ disk \in [Sectors -> Data] /\ op = "none" /\ sector \in Sectors
        /\ data \in Data /\ done = FALSE /\ ret = "ok"

Call == /\ op = "none"
        /\ op' \in {"read", "write", "flush"}
        /\ sector' \in Sectors /\ data' \in Data
        /\ done' = FALSE /\ UNCHANGED <<disk, ret>>

Perform == /\ op # "none" /\ ~done
           /\ disk' = IF op = "write" THEN [disk EXCEPT ![sector] = data] ELSE disk
           /\ data' = IF op = "read" THEN disk[sector] ELSE data
           /\ done' = TRUE /\ UNCHANGED <<op, sector, ret>>

Return == /\ op # "none" /\ op' = "none"
          /\ ret' \in (IF done THEN {"ok", "error"} ELSE {"error"})
          /\ done' = FALSE /\ UNCHANGED <<disk, sector, data>>

Next == Call \/ Perform \/ Return
Spec == Init /\ [][Next]_vars
=============================================================================

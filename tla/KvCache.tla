------------------------------ MODULE KvCache ------------------------------
(***************************************************************************)
(* The key/value cache of the attention layers                             *)
(* (kernel/ai/kv_cache_enhanced.c): per layer an array of max_seq_len      *)
(* positions, filled by single stores and batches, cleared by a reset for  *)
(* the next generation, and cut by an eviction policy once the generation  *)
(* is longer than the array.                                               *)
(*                                                                         *)
(* A stored vector is the token it belongs to: its generation and its      *)
(* position in it.  Key and value are stored together.                     *)
(***************************************************************************)
EXTENDS Integers

CONSTANTS Layers,
          max_seq_len, window_size,  \* of kv_cache_config_t
          Policies,     \* eviction policies a cache may be created with
          FIXED,        \* fixed-point data: stores by kv_cache_store_fixed
          Batches,      \* sizes of the batches callers store
          BatchPolicies,  \* the policies under which callers store batches
          SEQUENTIAL,   \* callers store every layer's positions in order
          MAX_POS,      \* bound: positions of a generation
          MAX_RESETS    \* bound: generations after the first

ASSUME KvAssumption ==
  /\ max_seq_len \in Nat \ {0} /\ window_size \in Nat
  /\ Policies \subseteq {"none", "sliding", "ring", "attention"}
  /\ FIXED \in BOOLEAN /\ SEQUENTIAL \in BOOLEAN /\ Batches \subseteq Nat \ {0}
  /\ MAX_POS \in Nat /\ MAX_RESETS \in Nat

Cells == 0..(max_seq_len - 1)
Empty == <<-1, 0>>

VARIABLES eviction,  \* of kv_cache_config_t
          layer,     \* kv_layer_cache_t of every layer
          current, peak,  \* current_seq_len, peak_seq_len
          generation,     \* n_resets
          next,      \* of the callers: the layer's next position
          beyond     \* a store has written past the end of a layer's arrays

kv_vars == <<eviction, layer, current, peak, generation, next, beyond>>

Layer == [seqLen : Nat, startPos : Nat, cell : [Cells -> Int \X Nat]]

KvTypeOK ==
  /\ eviction \in Policies /\ layer \in [Layers -> Layer]
  /\ current \in Nat /\ peak \in Nat /\ generation \in 0..MAX_RESETS
  /\ next \in [Layers -> 0..(MAX_POS + 1)] /\ beyond \in BOOLEAN

KvInit ==
  /\ eviction \in Policies
  /\ layer = [l \in Layers |-> [seqLen |-> 0, startPos |-> 0, cell |-> [i \in Cells |-> Empty]]]
  /\ current = 0 /\ peak = 0 /\ generation = 0
  /\ next = [l \in Layers |-> 0] /\ beyond = FALSE

-----------------------------------------------------------------------------
Larger(a, b) == IF a > b THEN a ELSE b

\* How many positions of x the window does not hold.
Excess(x) == IF window_size # 0 /\ eviction # "none" /\ x.seqLen > window_size
             THEN x.seqLen - window_size ELSE 0

\* Mutant: the window keeps the oldest tokens.
ShiftedForgotten(x) == x.cell

\* The newest window_size vectors, moved to the front.
Shifted(x) == [i \in Cells |-> IF i < window_size /\ i + Excess(x) \in Cells
                               THEN x.cell[i + Excess(x)] ELSE x.cell[i]]

\* The "attention" policy evicts nothing yet.
kv_apply_eviction(x) ==
  IF Excess(x) = 0 THEN x
  ELSE CASE eviction = "sliding" ->
              [seqLen |-> window_size, startPos |-> x.startPos + Excess(x), cell |-> Shifted(x)]
         [] eviction = "ring" -> [x EXCEPT !.startPos = (@ + Excess(x)) % max_seq_len]
         [] OTHER -> x

\* Mutant: the arrays end at the last stored token.
StoredCut(x, at, n, first) ==
  [seqLen   |-> Larger(x.seqLen, at + n),
   startPos |-> x.startPos,
   cell     |-> [i \in 0..(at + n - 1) |-> IF i >= at THEN <<generation, first + (i - at)>>
                                           ELSE x.cell[i]]]

\* x with n tokens from position first on written at index at.
Stored(x, at, n, first) ==
  [seqLen   |-> Larger(x.seqLen, at + n),
   startPos |-> x.startPos,
   cell     |-> [i \in Cells |-> IF i \in at..(at + n - 1)
                                 THEN <<generation, first + (i - at)>> ELSE x.cell[i]]]

\* kv_cache_store_fixed leaves the lengths in the statistics alone.
Measured(len) ==
  /\ current' = IF FIXED THEN current ELSE Larger(current, len)
  /\ peak' = IF FIXED THEN peak ELSE Larger(peak, current')

Positions(l) == IF SEQUENTIAL THEN {next[l]} ELSE 0..MAX_POS

Advanced(l, position, n) == next' = [next EXCEPT ![l] = position + n]

\* Mutant: the first position past the end is not checked.
PastEndByOne(position, n) == position > max_seq_len - n + 1

PastEnd(position, n) == position > max_seq_len - n

Write(l, x, at, n, first) ==
  /\ layer' = [layer EXCEPT ![l] = Stored(x, at, n, first)]
  /\ beyond' = (beyond \/ at + n > max_seq_len)
  /\ Measured(Larger(x.seqLen, at + n))

\* kv_cache_store_f32 and kv_cache_store_fixed: past the end the policy makes
\* room and the token is appended; without a policy the store fails.
Store(l) == \E position \in Positions(l) :
  /\ position <= MAX_POS
  /\ ~(PastEnd(position, 1) /\ eviction = "none")
  /\ LET x  == IF PastEnd(position, 1) THEN kv_apply_eviction(layer[l]) ELSE layer[l]
         at == IF PastEnd(position, 1) THEN x.seqLen ELSE position
     IN Write(l, x, at, 1, position)
  /\ Advanced(l, position, 1) /\ UNCHANGED <<generation, eviction>>

\* kv_cache_store_batch_f32: the eviction does not move the start of the batch.
StoreBatch(l) == \E n \in Batches, position \in Positions(l) :
  /\ eviction \in BatchPolicies /\ ~FIXED /\ position + n <= MAX_POS + 1
  /\ ~(PastEnd(position, n) /\ eviction = "none")
  /\ LET x == IF PastEnd(position, n) THEN kv_apply_eviction(layer[l]) ELSE layer[l]
     IN Write(l, x, position, n, position)
  /\ Advanced(l, position, n) /\ UNCHANGED <<generation, eviction>>

\* The vectors stay in the arrays.
kv_cache_reset ==
  /\ generation < MAX_RESETS /\ generation' = generation + 1
  /\ layer' = [l \in Layers |-> [layer[l] EXCEPT !.seqLen = 0, !.startPos = 0]]
  /\ current' = 0 /\ next' = [l \in Layers |-> 0]
  /\ UNCHANGED <<eviction, peak, beyond>>

KvNext == kv_cache_reset \/ \E l \in Layers : Store(l) \/ StoreBatch(l)

KvSpec == KvInit /\ [][KvNext]_kv_vars

-----------------------------------------------------------------------------
(* Properties.                                                             *)

\* No store writes past the end of a layer's arrays, whose rows are
\* max_seq_len (kv_cache_enhanced.h:116).
InBounds == ~beyond /\ \A l \in Layers : layer[l].seqLen <= max_seq_len

\* The cache holds the newest tokens of this generation without a gap:
\* index i is the token at start_pos + i, and nothing is left of an earlier
\* generation, although a reset clears no array (kv_cache_enhanced.c:282).
WindowNewest == \A l \in Layers :
  /\ layer[l].startPos + layer[l].seqLen = next[l]
  /\ \A i \in 0..(layer[l].seqLen - 1) :
       layer[l].cell[i] = <<generation, layer[l].startPos + i>>
=============================================================================

---------------------------- MODULE ModelRegistry ----------------------------
(***************************************************************************)
(* The model registry (kernel/ai/model_registry.c): a table of slots that  *)
(* hold loaded models, one of which is active, with the memory they use.   *)
(*                                                                         *)
(* The shell calls it from one task and no call yields, so a call is one   *)
(* step; model_registry_shutdown, a loop of unloads, takes a step a slot   *)
(* at pc "shutdown".  The states LOADING and UNLOADING last only within a  *)
(* call.  Time stamps, names, capabilities and total_switches are left out.*)
(***************************************************************************)
EXTENDS Integers, FiniteSets, FiniteSetsExt

CONSTANTS MAX_MODELS,         \* number of slots (8)
          ModelSizes,         \* sizes of the files loaded
          WorkspaceSizes,     \* values kmalloc'ed memory may hold in memory_required
          DEFAULT_WORKSPACE,  \* workspace when memory_required is 0 (32 MB)
          MAX_LOADS,          \* bound: loads between two initialisations
          MAX_CACHES,         \* bound: embedding caches the heap can hold
          MAX_INFERENCES      \* bound: inferences recorded per model

ASSUME RegistryAssumption ==
  /\ MAX_MODELS \in Nat \ {0}
  /\ ModelSizes \subseteq Nat \ {0} /\ WorkspaceSizes \subseteq Nat
  /\ DEFAULT_WORKSPACE \in Nat \ {0}
  /\ MAX_LOADS \in Nat /\ MAX_CACHES \in Nat /\ MAX_INFERENCES \in Nat

Ids     == 0..(MAX_MODELS - 1)
Invalid == -1                 \* MODEL_ID_INVALID

VARIABLES initialized,
          state,       \* model_slot_t.state
          model,       \* size of the slot's model structure, 0 for NULL
          workspace,   \* workspace_size
          inferences,  \* inference_count
          active,      \* active_id
          loads, unloads, count, memory,  \* model_registry_stats_t
          blocks,      \* model structures and workspaces obtained from kmalloc
          caches,      \* embedding caches obtained from kmalloc
          booted,      \* kernel_main has called model_runtime_init
          cursor, pc   \* the loop of model_registry_shutdown

slotVars  == <<state, model, workspace, inferences, active>>
statVars  == <<loads, unloads, count, memory>>
heapVars  == <<blocks, caches>>
shellVars == <<booted, cursor, pc>>
registry_vars == <<initialized, slotVars, statVars, heapVars, shellVars>>

States == {"FREE", "READY", "ACTIVE"}
Loaded == {i \in Ids : state[i] # "FREE"}

RegistryTypeOK ==
  /\ initialized \in BOOLEAN /\ booted \in BOOLEAN
  /\ state \in [Ids -> States]
  /\ model \in [Ids -> Nat] /\ workspace \in [Ids -> Nat]
  /\ inferences \in [Ids -> 0..MAX_INFERENCES]
  /\ active \in Ids \cup {Invalid}
  /\ loads \in 0..MAX_LOADS /\ unloads \in 0..MAX_LOADS /\ count \in 0..MAX_MODELS
  /\ memory \in Nat /\ blocks \in Nat /\ caches \in 0..MAX_CACHES
  /\ cursor \in 0..MAX_MODELS /\ pc \in {"idle", "shutdown"}

RegistryInit ==
  /\ initialized = FALSE /\ booted = FALSE
  /\ state = [i \in Ids |-> "FREE"]
  /\ model = [i \in Ids |-> 0] /\ workspace = [i \in Ids |-> 0]
  /\ inferences = [i \in Ids |-> 0]
  /\ active = Invalid
  /\ loads = 0 /\ unloads = 0 /\ count = 0 /\ memory = 0
  /\ blocks = 0 /\ caches = 0
  /\ cursor = 0 /\ pc = "idle"

-----------------------------------------------------------------------------
\* The boot code's call, which the header says initialises the registry.
model_runtime_init ==
  /\ ~booted /\ booted' = TRUE
  /\ UNCHANGED <<initialized, slotVars, statVars, heapVars, cursor, pc>>

model_registry_init ==
  /\ pc = "idle" /\ ~initialized
  /\ initialized' = TRUE
  /\ state' = [i \in Ids |-> "FREE"]
  /\ model' = [i \in Ids |-> 0] /\ workspace' = [i \in Ids |-> 0]
  /\ inferences' = [i \in Ids |-> 0]
  /\ active' = Invalid
  /\ loads' = 0 /\ unloads' = 0 /\ count' = 0 /\ memory' = 0
  /\ UNCHANGED <<heapVars, shellVars>>

\* Mutant: the model that was active is not made READY.
ActivatedKeepsPrevious(st, prev, id) == [st EXCEPT ![id] = "ACTIVE"]

\* The states of the slots once "id" has become active in place of "prev".
Activated(st, prev, id) ==
  [i \in Ids |-> IF i = id THEN "ACTIVE" ELSE IF i = prev THEN "READY" ELSE st[i]]

model_registry_switch(id) ==
  /\ pc = "idle" /\ initialized
  /\ state[id] # "FREE" /\ active # id
  /\ state' = Activated(state, active, id)
  /\ active' = id
  /\ UNCHANGED <<initialized, model, workspace, inferences, statVars, heapVars, shellVars>>

-----------------------------------------------------------------------------
find_free_slot == Min(Ids \ Loaded)

WorkspaceSize(required) == IF required = 0 THEN DEFAULT_WORKSPACE ELSE required

\* load_gguf_model makes an embedding cache if the heap allows; the formats
\* it has only placeholders for make none.
EmbeddingCache == caches' \in {caches, caches + 1} /\ caches' <= MAX_CACHES

\* Mutant: the model structure is not given back.
LoadNoWorkspaceLeaks ==
  /\ pc = "idle" /\ initialized /\ Loaded # Ids
  /\ EmbeddingCache
  /\ blocks' = blocks + 1
  /\ UNCHANGED <<initialized, slotVars, statVars, shellVars>>

\* load_model_from_memory succeeds, the workspace cannot be allocated, and
\* kfree gives the model structure back.
LoadNoWorkspace ==
  /\ pc = "idle" /\ initialized /\ Loaded # Ids
  /\ EmbeddingCache
  /\ UNCHANGED <<initialized, slotVars, statVars, blocks, shellVars>>

\* The first loaded model becomes active.  memory_required is never set by
\* the loader, so the workspace has whatever size the heap block held.
LoadModel(size, required) ==
  /\ pc = "idle" /\ initialized /\ Loaded # Ids /\ loads < MAX_LOADS
  /\ LET id    == find_free_slot
         space == WorkspaceSize(required)
     IN /\ model' = [model EXCEPT ![id] = size]
        /\ workspace' = [workspace EXCEPT ![id] = space]
        /\ inferences' = [inferences EXCEPT ![id] = 0]
        /\ memory' = memory + size + space
        /\ IF count + 1 = 1
           THEN state' = Activated(state, active, id) /\ active' = id
           ELSE state' = [state EXCEPT ![id] = "READY"] /\ UNCHANGED active
  /\ loads' = loads + 1 /\ count' = count + 1 /\ UNCHANGED unloads
  /\ EmbeddingCache /\ blocks' = blocks + 2
  /\ UNCHANGED <<initialized, shellVars>>

\* The failures that leave no trace (no slot, an unreadable file, no memory
\* for the model structure) are stutters.
model_registry_load ==
  \/ LoadNoWorkspace
  \/ \E size \in ModelSizes, required \in WorkspaceSizes : LoadModel(size, required)

-----------------------------------------------------------------------------
\* Mutant: unloading the active model makes no other one active.
AlternatesNone(id) == {}

\* The slot that takes over from "id": the first other one that is READY.
Alternates(id) == {i \in Ids \ {id} : state[i] = "READY"}

\* Mutant: the model's own size is forgotten.
FreedWorkspaceOnly(id) == workspace[id]

Freed(id) == workspace[id] + model[id]

\* model_registry_unload of a loaded slot.
Unload(id) ==
  /\ IF active = id
     THEN IF Alternates(id) # {}
          THEN LET alt == Min(Alternates(id)) IN
                 /\ active' = alt
                 /\ state' = [Activated(state, id, alt) EXCEPT ![id] = "FREE"]
          ELSE active' = Invalid /\ state' = [state EXCEPT ![id] = "FREE"]
     ELSE UNCHANGED active /\ state' = [state EXCEPT ![id] = "FREE"]
  /\ blocks' = blocks - 2
  /\ memory' = memory - Freed(id)
  /\ model' = [model EXCEPT ![id] = 0]
  /\ workspace' = [workspace EXCEPT ![id] = 0]
  /\ inferences' = [inferences EXCEPT ![id] = 0]
  /\ unloads' = unloads + 1 /\ count' = count - 1
  /\ UNCHANGED <<loads, caches>>

model_registry_unload(id) ==
  /\ pc = "idle" /\ initialized /\ id \in Loaded
  /\ Unload(id)
  /\ UNCHANGED <<initialized, shellVars>>

ShutdownStart ==
  /\ pc = "idle" /\ initialized
  /\ pc' = "shutdown" /\ cursor' = 0
  /\ UNCHANGED <<initialized, slotVars, statVars, heapVars, booted>>

\* Mutant: free slots are unloaded too.
ShutdownSlotUnchecked ==
  /\ pc = "shutdown" /\ cursor < MAX_MODELS
  /\ Unload(cursor)
  /\ cursor' = cursor + 1
  /\ UNCHANGED <<initialized, booted, pc>>

\* One turn of the loop of model_registry_shutdown.
ShutdownSlot ==
  /\ pc = "shutdown" /\ cursor < MAX_MODELS
  /\ IF cursor \in Loaded THEN Unload(cursor) ELSE UNCHANGED <<slotVars, statVars, heapVars>>
  /\ cursor' = cursor + 1
  /\ UNCHANGED <<initialized, booted, pc>>

ShutdownEnd ==
  /\ pc = "shutdown" /\ cursor = MAX_MODELS
  /\ initialized' = FALSE /\ active' = Invalid
  /\ pc' = "idle" /\ cursor' = 0
  /\ UNCHANGED <<state, model, workspace, inferences, statVars, heapVars, booted>>

model_registry_record_inference ==
  /\ pc = "idle" /\ initialized /\ active # Invalid
  /\ inferences[active] < MAX_INFERENCES
  /\ inferences' = [inferences EXCEPT ![active] = @ + 1]
  /\ UNCHANGED <<initialized, state, model, workspace, active, statVars, heapVars, shellVars>>

RegistryNext ==
  \/ model_runtime_init \/ model_registry_init
  \/ model_registry_load
  \/ \E id \in Ids : model_registry_unload(id) \/ model_registry_switch(id)
  \/ ShutdownStart \/ ShutdownSlot \/ ShutdownEnd
  \/ model_registry_record_inference

RegistrySpec == RegistryInit /\ [][RegistryNext]_registry_vars

-----------------------------------------------------------------------------
(* Properties.                                                             *)

\* active_id names the one slot in state ACTIVE, through switches, unloads of
\* the active model and shutdowns; and whenever a model is loaded one is
\* active: the first load activates it, an unload hands over to another one.
ActiveSlot ==
  /\ \A i \in Ids : state[i] = "ACTIVE" <=> i = active
  /\ Loaded # {} => active \in Loaded

\* The number of loaded models agrees with the slots, and exactly the loaded
\* slots hold heap blocks, a structure and a workspace each: no failed load and
\* no re-initialisation loses one.
SlotsCounted ==
  /\ count = Cardinality(Loaded) /\ loads - unloads = count
  /\ blocks = 2 * Cardinality(Loaded)
  /\ \A i \in Ids : model[i] # 0 <=> i \in Loaded

\* The statistics agree with the slots, the memory in use too, whatever sizes
\* the workspaces happened to get.
Accounting ==
  /\ SlotsCounted
  /\ memory = MapThenSumSet(LAMBDA i : model[i] + workspace[i], Loaded)
=============================================================================

---------------------------- MODULE ModelProofs ----------------------------
(***************************************************************************)
(* Proofs about the model registry and the KV cache.                       *)
(*                                                                         *)
(* ModelRegistry, for any number of slots and models: one model is active  *)
(* whenever one is loaded, and the counters and heap blocks agree with the *)
(* slots.  The two need each other: a load activates its model because the *)
(* counter says that it is the first.                                      *)
(*                                                                         *)
(* KvCache, for any number of layers and any sizes: types hold for every   *)
(* configuration; that stores stay inside the arrays, and that the arrays  *)
(* hold the newest tokens, is proved for the configurations the code       *)
(* handles (SafeConfig): no policy, or a sliding window smaller than the   *)
(* arrays that is filled by single stores.                                 *)
(***************************************************************************)
EXTENDS ModelRegistry, KvCache, QueueTheorems, FiniteSetTheorems

(* The model registry.                                                     *)

SlotsType ==
  /\ initialized \in BOOLEAN
  /\ state \in [Ids -> States] /\ model \in [Ids -> Nat] /\ active \in Ids \cup {Invalid}
  /\ loads \in Int /\ unloads \in Int /\ count \in Int /\ blocks \in Int
  /\ cursor \in 0..MAX_MODELS /\ pc \in {"idle", "shutdown"}

\* A shutdown has left no model behind its cursor, so the registry that it
\* leaves uninitialised is empty.
ShutdownInv ==
  /\ pc = "shutdown" => /\ initialized
                        /\ \A i \in Ids : i < cursor => state[i] = "FREE"
  /\ ~initialized => Loaded = {}

RegistryInv == SlotsType /\ ActiveSlot /\ SlotsCounted /\ ShutdownInv

-----------------------------------------------------------------------------
LEMMA Slots ==
  /\ MAX_MODELS \in Nat \ {0} /\ Ids \subseteq Nat /\ IsFiniteSet(Ids) /\ Invalid \notin Ids
  /\ \A i \in Ids : i < MAX_MODELS
<1>1. IsFiniteSet(Ids)
  BY RegistryAssumption, FS_Interval DEF Ids
<1> QED BY <1>1, RegistryAssumption DEF Ids, Invalid

LEMMA LoadedFinite ==
  /\ Loaded \subseteq Ids /\ IsFiniteSet(Loaded) /\ Cardinality(Loaded) \in Nat
  /\ Cardinality(Loaded) = 0 <=> Loaded = {}
<1>1. Loaded \subseteq Ids
  BY DEF Loaded
<1> QED BY <1>1, Slots, FS_Subset, FS_CardinalityType, FS_EmptySet

\* One more slot is loaded, or one less.
LEMMA OneMore ==
  ASSUME NEW i \in Ids \ Loaded, Loaded' = Loaded \cup {i}
  PROVE  Cardinality(Loaded') = Cardinality(Loaded) + 1
BY LoadedFinite, FS_AddElement

LEMMA OneLess ==
  ASSUME NEW i \in Loaded, Loaded' = Loaded \ {i}
  PROVE  Cardinality(Loaded') = Cardinality(Loaded) - 1
BY LoadedFinite, FS_RemoveElement

LEMMA FreeSlotFound ==
  ASSUME Loaded # Ids
  PROVE  find_free_slot \in Ids \ Loaded
BY Slots, LoadedFinite, MinOfNaturals DEF find_free_slot

\* The states after a model has become active: one is.
LEMMA ActivatedSlots ==
  ASSUME NEW st \in [Ids -> States], NEW prev, NEW id \in Ids
  PROVE  LET r == Activated(st, prev, id) IN
         /\ r \in [Ids -> States] /\ r[id] = "ACTIVE"
         /\ \A i \in Ids \ {id} : r[i] = IF i = prev THEN "READY" ELSE st[i]
BY DEF Activated, States

-----------------------------------------------------------------------------
(* Unloading, by a call or in the loop of a shutdown.                      *)

LEMMA UnloadInv ==
  ASSUME RegistryInv, NEW id \in Loaded, Unload(id)
  PROVE  /\ state' \in [Ids -> States] /\ model' \in [Ids -> Nat]
         /\ active' \in Ids \cup {Invalid}
         /\ loads' \in Int /\ unloads' \in Int /\ count' \in Int /\ blocks' \in Int
         /\ ActiveSlot' /\ SlotsCounted' /\ state'[id] = "FREE"
         /\ \A i \in Ids : state[i] = "FREE" => state'[i] = "FREE"
         /\ Loaded' = Loaded \ {id}
<1>0. SlotsType /\ ActiveSlot /\ SlotsCounted /\ id \in Ids /\ state[id] # "FREE"
  BY DEF RegistryInv, Loaded
<1>1. /\ state' \in [Ids -> States] /\ active' \in Ids \cup {Invalid} /\ state'[id] = "FREE"
      /\ \A i \in Ids \ {id} : state'[i] = "FREE" <=> state[i] = "FREE"
      /\ ActiveSlot'
  <2>1. CASE active = id /\ Alternates(id) # {}
    <3> DEFINE alt == Min(Alternates(id))
               st  == Activated(state, id, alt)
    <3>1. alt \in Alternates(id)
      <4>1. Alternates(id) \in SUBSET Nat
        BY Slots DEF Alternates
      <4> QED BY <2>1, <4>1, MinOfNaturals
    <3>2. alt \in Ids /\ alt # id /\ state[alt] = "READY"
      BY <3>1 DEF Alternates
    <3>3. active' = alt /\ state' = [st EXCEPT ![id] = "FREE"]
      BY <2>1 DEF Unload
    <3> HIDE DEF alt
    <3>4. /\ st \in [Ids -> States] /\ st[alt] = "ACTIVE"
          /\ \A i \in Ids \ {alt} : st[i] = IF i = id THEN "READY" ELSE state[i]
      BY <1>0, <3>2, ActivatedSlots DEF SlotsType
    <3> HIDE DEF st
    <3>5. /\ state' \in [Ids -> States] /\ state'[id] = "FREE" /\ state'[alt] = "ACTIVE"
          /\ \A i \in Ids \ {id, alt} : state'[i] = state[i]
      BY <1>0, <3>2, <3>3, <3>4 DEF States
    <3>6. ActiveSlot'
      BY <1>0, <2>1, <3>2, <3>3, <3>5 DEF ActiveSlot, Loaded
    <3> QED BY <1>0, <3>2, <3>3, <3>5, <3>6
  <2>2. CASE active = id /\ Alternates(id) = {}
    <3>1. active' = Invalid /\ state' = [state EXCEPT ![id] = "FREE"]
      BY <2>2 DEF Unload
    <3>2. \A i \in Ids \ {id} : state[i] = "FREE"
      BY <1>0, <2>2 DEF Alternates, ActiveSlot, SlotsType, States
    <3>3. /\ state' \in [Ids -> States] /\ state'[id] = "FREE"
          /\ \A i \in Ids \ {id} : state'[i] = state[i]
      BY <1>0, <3>1 DEF SlotsType, States
    <3>4. Loaded' = {}
      BY <3>2, <3>3 DEF Loaded
    <3>5. ActiveSlot'
      BY <3>1, <3>2, <3>3, <3>4, Slots DEF ActiveSlot
    <3> QED BY <3>1, <3>3, <3>5
  <2>3. CASE active # id
    <3>1. active' = active /\ state' = [state EXCEPT ![id] = "FREE"]
      BY <2>3 DEF Unload
    <3>2. /\ state' \in [Ids -> States] /\ state'[id] = "FREE"
          /\ \A i \in Ids \ {id} : state'[i] = state[i]
      BY <1>0, <3>1 DEF SlotsType, States
    <3>3. ActiveSlot'
      BY <1>0, <2>3, <3>1, <3>2 DEF ActiveSlot, Loaded
    <3> QED BY <1>0, <3>1, <3>2, <3>3 DEF SlotsType
  <2> QED BY <2>1, <2>2, <2>3
<1>2. Loaded' = Loaded \ {id}
  BY <1>1 DEF Loaded
<1>3. /\ blocks' = blocks - 2 /\ model' = [model EXCEPT ![id] = 0]
      /\ unloads' = unloads + 1 /\ count' = count - 1 /\ loads' = loads
  BY DEF Unload
<1>4. model' \in [Ids -> Nat] /\ \A i \in Ids : model'[i] # 0 <=> i \in Loaded'
  BY <1>0, <1>2, <1>3 DEF SlotsType, SlotsCounted
<1>5. Cardinality(Loaded') = Cardinality(Loaded) - 1 /\ Cardinality(Loaded) \in Nat
  BY <1>2, OneLess, LoadedFinite
<1>6. SlotsCounted'
  BY <1>0, <1>3, <1>4, <1>5 DEF SlotsCounted, SlotsType
<1> QED BY <1>0, <1>1, <1>2, <1>3, <1>4, <1>6 DEF SlotsType

-----------------------------------------------------------------------------
(* Loading.                                                                *)

LEMMA LoadInv ==
  ASSUME RegistryInv, NEW size \in ModelSizes, NEW required, LoadModel(size, required)
  PROVE  RegistryInv' /\ Loaded' = Loaded \cup {find_free_slot}
<1> DEFINE id == find_free_slot
<1>0. /\ SlotsType /\ ActiveSlot /\ SlotsCounted /\ ShutdownInv
      /\ pc = "idle" /\ initialized /\ Loaded # Ids /\ size \in Nat \ {0}
  BY RegistryAssumption DEF RegistryInv, LoadModel
<1>1. id \in Ids /\ id \notin Loaded /\ state[id] = "FREE"
  BY <1>0, FreeSlotFound DEF Loaded
<1>2. /\ model' = [model EXCEPT ![id] = size]
      /\ IF count + 1 = 1
         THEN state' = Activated(state, active, id) /\ active' = id
         ELSE state' = [state EXCEPT ![id] = "READY"] /\ active' = active
      /\ loads' = loads + 1 /\ count' = count + 1 /\ unloads' = unloads
      /\ blocks' = blocks + 2 /\ initialized' = initialized /\ cursor' = cursor /\ pc' = pc
  BY DEF LoadModel, shellVars
<1> HIDE DEF id
<1>3. count = Cardinality(Loaded) /\ count \in Nat /\ (count = 0 <=> Loaded = {})
  BY <1>0, LoadedFinite DEF SlotsCounted
<1>4. /\ state' \in [Ids -> States] /\ active' \in Ids \cup {Invalid} /\ state'[id] # "FREE"
      /\ \A i \in Ids \ {id} : state'[i] = "FREE" <=> state[i] = "FREE"
      /\ ActiveSlot'
  <2>1. CASE count = 0
    <3>1. /\ state' \in [Ids -> States] /\ active' = id /\ state'[id] = "ACTIVE"
          /\ \A i \in Ids \ {id} : state'[i] = IF i = active THEN "READY" ELSE state[i]
      BY <1>0, <1>1, <1>2, <2>1, ActivatedSlots DEF SlotsType
    <3>2. \A i \in Ids : state[i] = "FREE" /\ i # active
      BY <1>0, <1>3, <2>1 DEF ActiveSlot, Loaded
    <3>3. \A i \in Ids \ {id} : state'[i] = "FREE"
      BY <3>1, <3>2
    <3>4. ActiveSlot'
      BY <1>1, <3>1, <3>3 DEF ActiveSlot, Loaded
    <3> QED BY <1>1, <3>1, <3>2, <3>3, <3>4
  <2>2. CASE count # 0
    <3>1. state' = [state EXCEPT ![id] = "READY"] /\ active' = active
      BY <1>2, <1>3, <2>2
    <3>2. /\ state' \in [Ids -> States] /\ state'[id] = "READY"
          /\ \A i \in Ids \ {id} : state'[i] = state[i]
      BY <1>0, <1>1, <3>1 DEF SlotsType, States
    <3>3. active \in Loaded /\ active # id
      BY <1>0, <1>1, <1>3, <2>2 DEF ActiveSlot
    <3>4. ActiveSlot'
      BY <1>0, <1>1, <3>1, <3>2, <3>3 DEF ActiveSlot, Loaded
    <3> QED BY <1>0, <3>1, <3>2, <3>4 DEF SlotsType
  <2> QED BY <2>1, <2>2
<1>5. Loaded' = Loaded \cup {id}
  BY <1>1, <1>4 DEF Loaded
<1>6. Cardinality(Loaded') = Cardinality(Loaded) + 1
  BY <1>1, <1>5, OneMore
<1>7. model' \in [Ids -> Nat] /\ \A i \in Ids : model'[i] # 0 <=> i \in Loaded'
  BY <1>0, <1>1, <1>2, <1>5 DEF SlotsType, SlotsCounted
<1>8. SlotsCounted'
  BY <1>0, <1>2, <1>3, <1>6, <1>7 DEF SlotsCounted, SlotsType
<1>9. SlotsType' /\ ShutdownInv'
  BY <1>0, <1>2, <1>4, <1>7 DEF SlotsType, ShutdownInv
<1> QED BY <1>4, <1>5, <1>8, <1>9 DEF RegistryInv, id

-----------------------------------------------------------------------------
(* The invariant.                                                          *)

\* An empty table.
LEMMA EmptyTable ==
  ASSUME \A i \in Ids : state[i] = "FREE" /\ model[i] = 0, active = Invalid,
         loads = 0, unloads = 0, count = 0, blocks = 0
  PROVE  ActiveSlot /\ SlotsCounted /\ Loaded = {}
<1>1. Loaded = {} /\ Cardinality(Loaded) = 0
  BY FS_EmptySet DEF Loaded
<1> QED BY <1>1, Slots DEF ActiveSlot, SlotsCounted

LEMMA RegistryInitInv == RegistryInit => RegistryInv
<1> SUFFICES ASSUME RegistryInit PROVE RegistryInv
  OBVIOUS
<1>1. ActiveSlot /\ SlotsCounted /\ Loaded = {}
  BY EmptyTable DEF RegistryInit
<1>2. SlotsType
  <2>1. state \in [Ids -> States] /\ model \in [Ids -> Nat]
    BY DEF RegistryInit, States
  <2>2. cursor \in 0..MAX_MODELS
    BY Slots DEF RegistryInit
  <2>3. /\ initialized = FALSE /\ active = Invalid /\ pc = "idle"
        /\ loads = 0 /\ unloads = 0 /\ count = 0 /\ blocks = 0
    BY DEF RegistryInit
  <2>4. initialized \in BOOLEAN
    BY <2>3
  <2>5. active \in Ids \cup {Invalid} /\ pc \in {"idle", "shutdown"}
    BY <2>3
  <2>6. loads \in Int /\ unloads \in Int /\ count \in Int /\ blocks \in Int
    BY <2>3
  <2> QED BY <2>1, <2>2, <2>4, <2>5, <2>6 DEF SlotsType
<1> QED BY <1>1, <1>2 DEF RegistryInit, RegistryInv, ShutdownInv

\* Steps that leave the table and its counters alone.
LEMMA SameTable ==
  ASSUME RegistryInv, state' = state, model' = model, active' = active, loads' = loads,
         unloads' = unloads, count' = count, blocks' = blocks
  PROVE  /\ ActiveSlot' /\ SlotsCounted' /\ Loaded' = Loaded
         /\ state' \in [Ids -> States] /\ model' \in [Ids -> Nat] /\ active' \in Ids \cup {Invalid}
         /\ loads' \in Int /\ unloads' \in Int /\ count' \in Int /\ blocks' \in Int
<1>1. Loaded' = Loaded
  BY DEF Loaded
<1> QED BY <1>1 DEF RegistryInv, SlotsType, ActiveSlot, SlotsCounted

LEMMA RegistryStep ==
  ASSUME RegistryInv, [RegistryNext]_registry_vars
  PROVE  RegistryInv'
<1>0. SlotsType /\ ActiveSlot /\ SlotsCounted /\ ShutdownInv
  BY DEF RegistryInv
<1>1. CASE \/ model_runtime_init \/ LoadNoWorkspace \/ model_registry_record_inference
           \/ UNCHANGED registry_vars
  <2>1. /\ state' = state /\ model' = model /\ active' = active /\ loads' = loads
        /\ unloads' = unloads /\ count' = count /\ blocks' = blocks
        /\ initialized' = initialized /\ cursor' = cursor /\ pc' = pc
    BY <1>1 DEF model_runtime_init, LoadNoWorkspace, model_registry_record_inference,
                registry_vars, slotVars, statVars, heapVars, shellVars
  <2>2. /\ ActiveSlot' /\ SlotsCounted' /\ Loaded' = Loaded /\ SlotsType'
    BY <1>0, <2>1, SameTable DEF SlotsType
  <2> QED BY <1>0, <2>1, <2>2 DEF RegistryInv, ShutdownInv
<1>2. CASE model_registry_init
  <2>1. /\ ~initialized /\ initialized' = TRUE /\ pc = "idle" /\ pc' = pc /\ cursor' = cursor
        /\ state' = [i \in Ids |-> "FREE"] /\ model' = [i \in Ids |-> 0]
        /\ active' = Invalid /\ loads' = 0 /\ unloads' = 0 /\ count' = 0 /\ blocks' = blocks
    BY <1>2 DEF model_registry_init, heapVars, shellVars
  <2>2. blocks = 0
    BY <1>0, <2>1, LoadedFinite DEF ShutdownInv, SlotsCounted
  <2>3. Loaded' = {} /\ Cardinality(Loaded') = 0
    BY <2>1, FS_EmptySet DEF Loaded
  <2>4. ActiveSlot' /\ SlotsCounted'
    BY <2>1, <2>2, <2>3, Slots DEF ActiveSlot, SlotsCounted
  <2>5. SlotsType'
    BY <1>0, <2>1, <2>2 DEF SlotsType, States
  <2> QED BY <2>1, <2>4, <2>5 DEF RegistryInv, ShutdownInv
<1>3. ASSUME NEW size \in ModelSizes, NEW required \in WorkspaceSizes, LoadModel(size, required)
      PROVE  RegistryInv'
  BY <1>3, LoadInv
<1>4. ASSUME NEW id \in Ids, model_registry_unload(id) PROVE RegistryInv'
  <2>1. /\ id \in Loaded /\ Unload(id) /\ pc = "idle" /\ initialized
        /\ initialized' = initialized /\ cursor' = cursor /\ pc' = pc
    BY <1>4 DEF model_registry_unload, shellVars
  <2>2. /\ state' \in [Ids -> States] /\ model' \in [Ids -> Nat]
        /\ active' \in Ids \cup {Invalid}
        /\ loads' \in Int /\ unloads' \in Int /\ count' \in Int /\ blocks' \in Int
        /\ ActiveSlot' /\ SlotsCounted'
    BY <2>1, UnloadInv
  <2> QED BY <1>0, <2>1, <2>2 DEF RegistryInv, SlotsType, ShutdownInv
<1>5. ASSUME NEW id \in Ids, model_registry_switch(id) PROVE RegistryInv'
  <2>1. /\ pc = "idle" /\ initialized /\ state[id] # "FREE" /\ active # id
        /\ state' = Activated(state, active, id) /\ active' = id
        /\ model' = model /\ loads' = loads /\ unloads' = unloads /\ count' = count
        /\ blocks' = blocks /\ initialized' = initialized /\ cursor' = cursor /\ pc' = pc
    BY <1>5 DEF model_registry_switch, statVars, heapVars, shellVars
  <2>2. /\ state' \in [Ids -> States] /\ state'[id] = "ACTIVE"
        /\ \A i \in Ids \ {id} : state'[i] = IF i = active THEN "READY" ELSE state[i]
    BY <1>0, <2>1, ActivatedSlots DEF SlotsType
  <2>3. \A i \in Ids : (state'[i] = "FREE" <=> state[i] = "FREE")
    BY <1>0, <2>1, <2>2 DEF ActiveSlot
  <2>4. Loaded' = Loaded
    BY <2>3 DEF Loaded
  <2>5. ActiveSlot'
    BY <1>0, <2>1, <2>2, <2>4 DEF ActiveSlot, Loaded
  <2>6. SlotsCounted'
    BY <1>0, <2>1, <2>4 DEF SlotsCounted
  <2> QED BY <1>0, <2>1, <2>2, <2>5, <2>6 DEF RegistryInv, SlotsType, ShutdownInv
<1>6. CASE ShutdownStart
  <2>1. /\ state' = state /\ model' = model /\ active' = active /\ loads' = loads
        /\ unloads' = unloads /\ count' = count /\ blocks' = blocks
        /\ initialized /\ initialized' = initialized /\ cursor' = 0 /\ pc' = "shutdown"
    BY <1>6 DEF ShutdownStart, slotVars, statVars, heapVars
  <2>2. /\ ActiveSlot' /\ SlotsCounted' /\ SlotsType'
    BY <1>0, <2>1, SameTable, Slots DEF SlotsType
  <2>3. ShutdownInv'
    BY <2>1, Slots DEF ShutdownInv
  <2> QED BY <2>2, <2>3 DEF RegistryInv
<1>7. CASE ShutdownSlot
  <2>1. /\ pc = "shutdown" /\ cursor < MAX_MODELS /\ cursor' = cursor + 1
        /\ initialized' = initialized /\ pc' = pc /\ initialized
        /\ cursor \in Ids /\ cursor' \in 0..MAX_MODELS /\ cursor \in Nat
    BY <1>0, <1>7, Slots DEF ShutdownSlot, SlotsType, ShutdownInv, Ids
  <2>2. /\ state' \in [Ids -> States] /\ model' \in [Ids -> Nat]
        /\ active' \in Ids \cup {Invalid}
        /\ loads' \in Int /\ unloads' \in Int /\ count' \in Int /\ blocks' \in Int
        /\ ActiveSlot' /\ SlotsCounted' /\ state'[cursor] = "FREE"
        /\ \A i \in Ids : state[i] = "FREE" => state'[i] = "FREE"
    <3>1. CASE cursor \in Loaded
      BY <1>7, <3>1, UnloadInv DEF ShutdownSlot
    <3>2. CASE cursor \notin Loaded
      <4>1. /\ state' = state /\ model' = model /\ active' = active /\ loads' = loads
            /\ unloads' = unloads /\ count' = count /\ blocks' = blocks
        BY <1>7, <3>2 DEF ShutdownSlot, slotVars, statVars, heapVars
      <4>2. state[cursor] = "FREE"
        BY <2>1, <3>2 DEF Loaded
      <4> QED BY <4>1, <4>2, SameTable
    <3> QED BY <3>1, <3>2
  <2>3. \A i \in Ids : i < cursor' => state'[i] = "FREE"
    <3> SUFFICES ASSUME NEW i \in Ids, i < cursor' PROVE state'[i] = "FREE"
      OBVIOUS
    <3>1. i < cursor \/ i = cursor
      BY <2>1, Slots
    <3> QED BY <1>0, <2>1, <2>2, <3>1 DEF ShutdownInv
  <2>4. SlotsType'
    BY <1>0, <2>1, <2>2 DEF SlotsType
  <2>5. ShutdownInv'
    BY <2>1, <2>3 DEF ShutdownInv
  <2> QED BY <2>2, <2>4, <2>5 DEF RegistryInv
<1>8. CASE ShutdownEnd
  <2>1. /\ pc = "shutdown" /\ cursor = MAX_MODELS /\ initialized' = FALSE /\ active' = Invalid
        /\ pc' = "idle" /\ cursor' = 0 /\ state' = state /\ model' = model
        /\ loads' = loads /\ unloads' = unloads /\ count' = count /\ blocks' = blocks
    BY <1>8 DEF ShutdownEnd, statVars, heapVars
  <2>2. \A i \in Ids : state[i] = "FREE"
    BY <1>0, <2>1, Slots DEF ShutdownInv
  <2>3. Loaded = {} /\ Loaded' = {}
    BY <2>1, <2>2 DEF Loaded
  <2>4. ActiveSlot'
    BY <2>1, <2>2, <2>3, Slots DEF ActiveSlot
  <2>5. SlotsCounted'
    BY <1>0, <2>1, <2>3 DEF SlotsCounted
  <2>6. SlotsType'
    <3>1. cursor' \in 0..MAX_MODELS
      BY <2>1, Slots
    <3> QED BY <1>0, <2>1, <3>1 DEF SlotsType
  <2> QED BY <2>1, <2>3, <2>4, <2>5, <2>6 DEF RegistryInv, ShutdownInv
<1> QED BY <1>1, <1>2, <1>3, <1>4, <1>5, <1>6, <1>7, <1>8
        DEF RegistryNext, model_registry_load

THEOREM RegistryInvariant == RegistrySpec => []RegistryInv
<1> QED BY RegistryInitInv, RegistryStep, PTL DEF RegistrySpec

\* Whenever a model is loaded exactly one is active, and active_id names it,
\* through loads, switches, hand-overs and shutdowns (model_registry.c:281, 354).
THEOREM ActiveSlotAlways == RegistrySpec => []ActiveSlot
<1>1. RegistryInv => ActiveSlot
  BY DEF RegistryInv
<1> QED BY <1>1, RegistryInvariant, PTL

\* The counters of loaded models and of heap blocks agree with the slots,
\* whatever fails in a load (model_registry.c:247).
THEOREM SlotsCountedAlways == RegistrySpec => []SlotsCounted
<1>1. RegistryInv => SlotsCounted
  BY DEF RegistryInv
<1> QED BY <1>1, RegistryInvariant, PTL


-----------------------------------------------------------------------------
(* The memory in use, and the types of the rest.                           *)

\* What slot i holds: its model and its workspace.
Held == [i \in Ids |-> model[i] + workspace[i]]

MemoryInv ==
  /\ workspace \in [Ids -> Nat] /\ inferences \in [Ids -> 0..MAX_INFERENCES]
  /\ booted \in BOOLEAN /\ caches \in 0..MAX_CACHES
  /\ loads \in 0..MAX_LOADS /\ unloads \in Nat
  /\ memory = Total(Held, Loaded)

LEMMA HeldNat ==
  ASSUME model \in [Ids -> Nat], workspace \in [Ids -> Nat]
  PROVE  \A i \in Loaded : Held[i] \in Nat
BY LoadedFinite DEF Held

\* A slot that is emptied gives back what it held.
LEMMA UnloadMemory ==
  ASSUME RegistryInv, MemoryInv, NEW id \in Loaded, Unload(id)
  PROVE  /\ workspace' \in [Ids -> Nat] /\ inferences' \in [Ids -> 0..MAX_INFERENCES]
         /\ caches' \in 0..MAX_CACHES /\ loads' \in 0..MAX_LOADS /\ unloads' \in Nat
         /\ memory' = Total(Held', Loaded')
<1>0. /\ SlotsType /\ model \in [Ids -> Nat] /\ workspace \in [Ids -> Nat] /\ id \in Ids
      /\ 0 \in 0..MAX_INFERENCES /\ IsFiniteSet(Loaded) /\ Loaded \subseteq Ids
  BY RegistryAssumption, LoadedFinite DEF RegistryInv, SlotsType, MemoryInv
<1>1. /\ workspace' = [workspace EXCEPT ![id] = 0] /\ model' = [model EXCEPT ![id] = 0]
      /\ inferences' = [inferences EXCEPT ![id] = 0] /\ unloads' = unloads + 1
      /\ loads' = loads /\ caches' = caches /\ memory' = memory - Freed(id)
  BY DEF Unload
<1>4. Loaded' = Loaded \ {id}
  BY UnloadInv
<1>5. \A i \in Loaded \ {id} : Held'[i] = Held[i]
  BY <1>0, <1>1 DEF Held
<1>6. Held[id] = Freed(id)
  BY <1>0 DEF Held, Freed
<1> DEFINE L == Loaded \ {id}
           H == Held
           G == Held'
<1>7. IsFiniteSet(L) /\ L \subseteq Loaded
  BY <1>0, FS_Subset
<1>8. \A i \in Loaded : H[i] \in Nat
  BY <1>0, HeldNat
<1>9. \A i \in L : G[i] = H[i]
  BY <1>5
<1> HIDE DEF H, G
<1>10. Total(H, Loaded) = H[id] + Total(H, L)
  BY <1>0, <1>8, TotalTake
<1>11. Total(H, L) \in Nat
  BY <1>7, <1>8, TotalNat
<1>12. Total(G, L) = Total(H, L)
  BY <1>7, <1>9, TotalSame
<1>13. H[id] \in Nat
  BY <1>8
<1>14. memory = Total(H, Loaded) /\ memory' = memory - H[id]
  BY <1>1, <1>6 DEF MemoryInv, H
<1>15. memory' = Total(G, L)
  BY <1>10, <1>11, <1>12, <1>13, <1>14
<1> QED BY <1>0, <1>1, <1>4, <1>15 DEF MemoryInv, G

\* A load adds what the slot now holds.
LEMMA LoadMemory ==
  ASSUME RegistryInv, MemoryInv, NEW size \in ModelSizes, NEW required \in WorkspaceSizes,
         LoadModel(size, required)
  PROVE  MemoryInv'
<1> DEFINE id    == find_free_slot
           space == WorkspaceSize(required)
<1>0. /\ SlotsType /\ model \in [Ids -> Nat] /\ workspace \in [Ids -> Nat]
      /\ Loaded # Ids /\ size \in Nat /\ IsFiniteSet(Loaded) /\ Loaded \subseteq Ids
      /\ 0 \in 0..MAX_INFERENCES
  BY RegistryAssumption, LoadedFinite DEF RegistryInv, SlotsType, MemoryInv, LoadModel
<1>1. id \in Ids /\ id \notin Loaded
  BY <1>0, FreeSlotFound
<1>2. space \in Nat
  BY RegistryAssumption DEF WorkspaceSize
<1>3. /\ model' = [model EXCEPT ![id] = size] /\ workspace' = [workspace EXCEPT ![id] = space]
      /\ inferences' = [inferences EXCEPT ![id] = 0] /\ memory' = memory + size + space
      /\ loads' = loads + 1 /\ loads < MAX_LOADS /\ unloads' = unloads /\ EmbeddingCache
      /\ booted' = booted
  BY DEF LoadModel, shellVars
<1>4. Loaded' = Loaded \cup {id}
  BY LoadInv DEF id
<1> HIDE DEF id, space
<1>5. \A i \in Loaded : Held'[i] = Held[i]
  BY <1>0, <1>1, <1>3 DEF Held
<1>6. Held'[id] = size + space
  BY <1>0, <1>1, <1>2, <1>3 DEF Held
<1> DEFINE L == Loaded \cup {id}
           H == Held
           G == Held'
<1>7. IsFiniteSet(L) /\ L \ {id} = Loaded /\ id \in L
  BY <1>0, <1>1, FS_AddElement
<1>8. \A i \in Loaded : H[i] \in Nat
  BY <1>0, HeldNat
<1>9. \A i \in Loaded : G[i] = H[i]
  BY <1>5
<1>10. G[id] = size + space
  BY <1>6
<1> HIDE DEF H, G
<1>11. \A i \in L : G[i] \in Nat
  BY <1>0, <1>2, <1>8, <1>9, <1>10
<1> HIDE DEF L
<1>12. Total(G, L) = G[id] + Total(G, L \ {id})
  BY <1>7, <1>11, TotalTake
<1>13. Total(G, Loaded) = Total(H, Loaded)
  BY <1>0, <1>9, TotalSame
<1>14. Total(H, Loaded) \in Nat
  BY <1>0, <1>8, TotalNat
<1>15. memory = Total(H, Loaded)
  BY DEF MemoryInv, H
<1>16. memory' = Total(G, L)
  <2>1. Total(G, L \ {id}) = memory /\ memory \in Nat
    BY <1>7, <1>13, <1>14, <1>15
  <2>2. Total(G, L) = (size + space) + memory
    BY <1>10, <1>12, <2>1
  <2>3. memory' = (memory + size) + space
    BY <1>3
  <2> QED BY <1>0, <1>2, <2>1, <2>2, <2>3
<1>17. memory' = Total(Held', Loaded')
  BY <1>4, <1>16 DEF G, L
<1>18. workspace' \in [Ids -> Nat] /\ inferences' \in [Ids -> 0..MAX_INFERENCES]
  BY <1>0, <1>1, <1>2, <1>3 DEF MemoryInv
<1>19. caches' \in 0..MAX_CACHES
  BY <1>3, RegistryAssumption DEF EmbeddingCache, MemoryInv
<1>20. loads' \in 0..MAX_LOADS
  BY <1>3, RegistryAssumption DEF MemoryInv
<1> QED BY <1>3, <1>17, <1>18, <1>19, <1>20 DEF MemoryInv

LEMMA SameMemory ==
  ASSUME MemoryInv, Loaded' = Loaded, model' = model, workspace' = workspace,
         memory' = memory
  PROVE  memory' = Total(Held', Loaded')
BY DEF MemoryInv, Held

LEMMA MemoryStep ==
  ASSUME RegistryInv, MemoryInv, [RegistryNext]_registry_vars
  PROVE  MemoryInv'
<1>0. /\ SlotsType /\ ActiveSlot /\ MAX_INFERENCES \in Nat
      /\ workspace \in [Ids -> Nat] /\ inferences \in [Ids -> 0..MAX_INFERENCES]
      /\ booted \in BOOLEAN /\ caches \in 0..MAX_CACHES
      /\ loads \in 0..MAX_LOADS /\ unloads \in Nat
  BY RegistryAssumption DEF RegistryInv, MemoryInv
<1>1. CASE model_runtime_init \/ ShutdownStart \/ ShutdownEnd \/ UNCHANGED registry_vars
  <2>1. /\ state' = state /\ model' = model /\ workspace' = workspace /\ memory' = memory
        /\ inferences' = inferences /\ caches' = caches /\ loads' = loads /\ unloads' = unloads
        /\ (booted' = TRUE \/ booted' = booted)
    BY <1>1 DEF model_runtime_init, ShutdownStart, ShutdownEnd, registry_vars, slotVars,
                statVars, heapVars, shellVars
  <2>2. Loaded' = Loaded
    BY <2>1 DEF Loaded
  <2> QED BY <1>0, <2>1, <2>2, SameMemory DEF MemoryInv
<1>2. CASE LoadNoWorkspace
  <2>1. /\ state' = state /\ model' = model /\ workspace' = workspace /\ memory' = memory
        /\ inferences' = inferences /\ loads' = loads /\ unloads' = unloads /\ booted' = booted
        /\ EmbeddingCache
    BY <1>2 DEF LoadNoWorkspace, slotVars, statVars, shellVars
  <2>2. Loaded' = Loaded
    BY <2>1 DEF Loaded
  <2>3. caches' \in 0..MAX_CACHES
    BY <1>0, <2>1, RegistryAssumption DEF EmbeddingCache
  <2> QED BY <1>0, <2>1, <2>2, <2>3, SameMemory DEF MemoryInv
<1>3. CASE model_registry_record_inference
  <2>1. /\ state' = state /\ model' = model /\ workspace' = workspace /\ memory' = memory
        /\ inferences' = [inferences EXCEPT ![active] = @ + 1] /\ active # Invalid
        /\ inferences[active] < MAX_INFERENCES
        /\ caches' = caches /\ loads' = loads /\ unloads' = unloads /\ booted' = booted
    BY <1>3 DEF model_registry_record_inference, statVars, heapVars, shellVars
  <2>2. Loaded' = Loaded
    BY <2>1 DEF Loaded
  <2>3. active \in Ids
    BY <1>0, <2>1 DEF SlotsType
  <2>4. inferences[active] + 1 \in 0..MAX_INFERENCES
    BY <1>0, <2>1, <2>3
  <2>5. inferences' \in [Ids -> 0..MAX_INFERENCES]
    BY <1>0, <2>1, <2>4
  <2> QED BY <1>0, <2>1, <2>2, <2>5, SameMemory DEF MemoryInv
<1>4. CASE model_registry_init
  <2>1. /\ state' = [i \in Ids |-> "FREE"] /\ model' = [i \in Ids |-> 0]
        /\ workspace' = [i \in Ids |-> 0] /\ inferences' = [i \in Ids |-> 0]
        /\ loads' = 0 /\ unloads' = 0 /\ memory' = 0 /\ caches' = caches /\ booted' = booted
    BY <1>4 DEF model_registry_init, heapVars, shellVars
  <2>2. Loaded' = {}
    BY <2>1 DEF Loaded
  <2>3. memory' = Total(Held', Loaded')
    BY <2>1, <2>2, TotalEmpty
  <2>4. 0 \in 0..MAX_LOADS /\ 0 \in 0..MAX_INFERENCES
    BY RegistryAssumption
  <2>5. workspace' \in [Ids -> Nat] /\ inferences' \in [Ids -> 0..MAX_INFERENCES]
    BY <2>1, <2>4
  <2> QED BY <1>0, <2>1, <2>3, <2>4, <2>5 DEF MemoryInv
<1>5. ASSUME NEW size \in ModelSizes, NEW required \in WorkspaceSizes, LoadModel(size, required)
      PROVE  MemoryInv'
  BY <1>5, LoadMemory
<1>6. ASSUME NEW id \in Ids, model_registry_unload(id) PROVE MemoryInv'
  <2>1. id \in Loaded /\ Unload(id) /\ booted' = booted
    BY <1>6 DEF model_registry_unload, shellVars
  <2> QED BY <1>0, <2>1, UnloadMemory DEF MemoryInv
<1>7. ASSUME NEW id \in Ids, model_registry_switch(id) PROVE MemoryInv'
  <2>1. /\ state[id] # "FREE" /\ state' = Activated(state, active, id)
        /\ model' = model /\ workspace' = workspace /\ memory' = memory
        /\ inferences' = inferences /\ caches' = caches /\ loads' = loads /\ unloads' = unloads
        /\ booted' = booted
    BY <1>7 DEF model_registry_switch, statVars, heapVars, shellVars
  <2>2. /\ state'[id] = "ACTIVE"
        /\ \A i \in Ids \ {id} : state'[i] = IF i = active THEN "READY" ELSE state[i]
    BY <1>0, <2>1, ActivatedSlots DEF SlotsType
  <2>3. \A i \in Ids : (state'[i] = "FREE" <=> state[i] = "FREE")
    BY <1>0, <2>1, <2>2 DEF ActiveSlot
  <2>4. Loaded' = Loaded
    BY <2>3 DEF Loaded
  <2> QED BY <1>0, <2>1, <2>4, SameMemory DEF MemoryInv
<1>8. CASE ShutdownSlot
  <2>1. booted' = booted
    BY <1>8 DEF ShutdownSlot
  <2>2. CASE cursor \in Loaded
    <3>1. Unload(cursor)
      BY <1>8, <2>2 DEF ShutdownSlot
    <3> QED BY <1>0, <2>1, <2>2, <3>1, UnloadMemory DEF MemoryInv
  <2>3. CASE cursor \notin Loaded
    <3>1. /\ state' = state /\ model' = model /\ workspace' = workspace /\ memory' = memory
          /\ inferences' = inferences /\ caches' = caches /\ loads' = loads /\ unloads' = unloads
      BY <1>8, <2>3 DEF ShutdownSlot, slotVars, statVars, heapVars
    <3>2. Loaded' = Loaded
      BY <3>1 DEF Loaded
    <3> QED BY <1>0, <2>1, <3>1, <3>2, SameMemory DEF MemoryInv
  <2> QED BY <2>2, <2>3
<1> QED BY <1>1, <1>2, <1>3, <1>4, <1>5, <1>6, <1>7, <1>8 DEF RegistryNext, model_registry_load

LEMMA MemoryInit == RegistryInit => MemoryInv
<1> SUFFICES ASSUME RegistryInit PROVE MemoryInv
  OBVIOUS
<1>1. Loaded = {}
  BY DEF RegistryInit, Loaded
<1>2. memory = Total(Held, Loaded)
  BY <1>1, TotalEmpty DEF RegistryInit
<1>3. 0 \in 0..MAX_LOADS /\ 0 \in 0..MAX_INFERENCES /\ 0 \in 0..MAX_CACHES
  BY RegistryAssumption
<1>4. workspace \in [Ids -> Nat] /\ inferences \in [Ids -> 0..MAX_INFERENCES]
  BY <1>3 DEF RegistryInit
<1>5. booted = FALSE /\ caches = 0 /\ loads = 0 /\ unloads = 0
  BY DEF RegistryInit
<1> QED BY <1>2, <1>3, <1>4, <1>5 DEF MemoryInv

\* The sum that Accounting writes is the sum of what the slots hold.
LEMMA AccountingIsHeld ==
  MapThenSumSet(LAMBDA i : model[i] + workspace[i], Loaded) = Total(Held, Loaded)
<1> DEFINE R(g) == g = [s \in SUBSET Loaded |->
                     IF s = {} THEN 0
                     ELSE (model[First(s)] + workspace[First(s)]) + g[s \ {First(s)}]]
           c == CHOOSE g : R(g)
<1>0. IsFiniteSet(Loaded) /\ Loaded \subseteq Ids
  BY LoadedFinite
<1>1. MapThenSumSet(LAMBDA i : model[i] + workspace[i], Loaded) = c[Loaded]
  BY DEF MapThenSumSet, MapThenFoldSet, First
<1>2. \A s \in SUBSET Loaded : s # {} => Held[First(s)] = model[First(s)] + workspace[First(s)]
  BY <1>0, FirstIn DEF Held
<1>3. ASSUME NEW g PROVE R(g) <=> Sums(Held, Loaded, g)
  <2> DEFINE a == [s \in SUBSET Loaded |-> IF s = {} THEN 0
                    ELSE (model[First(s)] + workspace[First(s)]) + g[s \ {First(s)}]]
             b == [s \in SUBSET Loaded |-> IF s = {} THEN 0 ELSE Held[First(s)] + g[s \ {First(s)}]]
  <2>1. a = b
    BY <1>2
  <2>2. R(g) <=> g = a
    OBVIOUS
  <2>3. Sums(Held, Loaded, g) <=> g = b
    BY DEF Sums
  <2> HIDE DEF a, b, R
  <2> QED BY <2>1, <2>2, <2>3
<1>4. PICK g : Sums(Held, Loaded, g) /\ Total(Held, Loaded) = g[Loaded]
  BY <1>0, TotalIs
<1> HIDE DEF R
<1>5. R(c)
  BY <1>3, <1>4
<1>6. Sums(Held, Loaded, c)
  BY <1>3, <1>5
<1>7. c[Loaded] = g[Loaded]
  BY <1>0, <1>4, <1>6, SumsSame
<1> QED BY <1>1, <1>4, <1>7

THEOREM MemoryInvariant == RegistrySpec => []MemoryInv
<1> QED BY MemoryInit, MemoryStep, RegistryInvariant, PTL DEF RegistrySpec

\* The statistics agree with the slots, the memory in use is the sum of the
\* loaded models and their workspaces, whatever sizes these happened to get
\* (model_registry.c:293, 349).
THEOREM AccountingAlways == RegistrySpec => []Accounting
<1>1. RegistryInv /\ MemoryInv => Accounting
  <2> SUFFICES ASSUME RegistryInv, MemoryInv PROVE Accounting
    OBVIOUS
  <2>1. memory = Total(Held, Loaded)
    BY DEF MemoryInv
  <2>2. SlotsCounted
    BY DEF RegistryInv
  <2> QED BY <2>1, <2>2, AccountingIsHeld DEF Accounting
<1> QED BY <1>1, RegistryInvariant, MemoryInvariant, PTL

\* Type correctness of the registry: what is counted stays within the table,
\* and the memory in use never wraps below zero.
THEOREM RegistryTypeCorrect == RegistrySpec => []RegistryTypeOK
<1>1. RegistryInv /\ MemoryInv => RegistryTypeOK
  <2> SUFFICES ASSUME RegistryInv, MemoryInv PROVE RegistryTypeOK
    OBVIOUS
  <2>1. SlotsType /\ SlotsCounted
    BY DEF RegistryInv
  <2>2. IsFiniteSet(Loaded) /\ Cardinality(Loaded) \in Nat /\ Loaded \subseteq Ids
    BY LoadedFinite
  <2>3. Cardinality(Ids) = MAX_MODELS
    BY RegistryAssumption, FS_Interval DEF Ids
  <2>4. Cardinality(Loaded) <= Cardinality(Ids)
    BY <2>2, Slots, FS_Subset
  <2>5. count \in 0..MAX_MODELS /\ blocks \in Nat
    BY <2>1, <2>2, <2>3, <2>4, RegistryAssumption DEF SlotsCounted
  <2>6. unloads \in 0..MAX_LOADS
    BY <2>1, <2>5, RegistryAssumption DEF SlotsCounted, MemoryInv
  <2>7. memory \in Nat
    <3> DEFINE H == Held
    <3>1. \A i \in Loaded : H[i] \in Nat
      BY <2>1, HeldNat DEF SlotsType, MemoryInv
    <3>2. memory = Total(H, Loaded)
      BY DEF MemoryInv
    <3> HIDE DEF H
    <3> QED BY <2>2, <3>1, <3>2, TotalNat
  <2> QED BY <2>1, <2>5, <2>6, <2>7 DEF RegistryTypeOK, SlotsType, MemoryInv
<1> QED BY <1>1, RegistryInvariant, MemoryInvariant, PTL

-----------------------------------------------------------------------------
(* The KV cache.                                                           *)

SafePolicy(e) ==
  \/ e = "none"
  \/ e = "sliding" /\ window_size \in 1..(max_seq_len - 1) /\ e \notin BatchPolicies

SafeConfig == \A e \in Policies : SafePolicy(e)

\* Eviction keeps a layer's type.
LEMMA EvictionType ==
  ASSUME NEW x \in Layer
  PROVE  kv_apply_eviction(x) \in Layer
<1>1. max_seq_len \in Nat \ {0} /\ window_size \in Nat
  BY KvAssumption
<1>2. Excess(x) \in Nat
  BY <1>1 DEF Excess, Layer
<1>3. Shifted(x) \in [Cells -> Int \X Nat]
  BY <1>1, <1>2 DEF Shifted, Layer
<1>4. x.startPos + Excess(x) \in Nat /\ (x.startPos + Excess(x)) % max_seq_len \in Nat
  BY <1>1, <1>2 DEF Layer
<1>5. CASE Excess(x) = 0
  BY <1>5 DEF kv_apply_eviction
<1>6. CASE Excess(x) # 0 /\ eviction = "sliding"
  BY <1>1, <1>3, <1>4, <1>6 DEF kv_apply_eviction, Layer
<1>7. CASE Excess(x) # 0 /\ eviction = "ring"
  BY <1>1, <1>4, <1>7 DEF kv_apply_eviction, Layer
<1>8. CASE Excess(x) # 0 /\ eviction \notin {"sliding", "ring"}
  BY <1>8 DEF kv_apply_eviction
<1> QED BY <1>5, <1>6, <1>7, <1>8

\* What a safe configuration's eviction leaves: room for one more token, the
\* same tokens at the end, and a start moved by what was dropped.
LEMMA EvictionSafe ==
  ASSUME SafePolicy(eviction), eviction # "none", NEW x \in Layer, x.seqLen <= max_seq_len
  PROVE  LET y == kv_apply_eviction(x) IN
           /\ y.seqLen <= window_size /\ window_size < max_seq_len
           /\ y.startPos + y.seqLen = x.startPos + x.seqLen
           /\ \A i \in 0..(y.seqLen - 1) :
                /\ i + (y.startPos - x.startPos) \in 0..(x.seqLen - 1)
                /\ y.cell[i] = x.cell[i + (y.startPos - x.startPos)]
<1>1. /\ max_seq_len \in Nat \ {0} /\ window_size \in 1..(max_seq_len - 1) /\ eviction = "sliding"
      /\ x.seqLen \in Nat /\ x.startPos \in Nat
  BY KvAssumption DEF SafePolicy, Layer
<1>2. CASE x.seqLen <= window_size
  <2>1. kv_apply_eviction(x) = x
    BY <1>1, <1>2 DEF kv_apply_eviction, Excess
  <2> QED BY <1>1, <1>2, <2>1
<1>3. CASE x.seqLen > window_size
  <2>1. Excess(x) = x.seqLen - window_size /\ Excess(x) \in Nat \ {0}
    BY <1>1, <1>3 DEF Excess
  <2>2. kv_apply_eviction(x) = [seqLen |-> window_size, startPos |-> x.startPos + Excess(x),
                                cell |-> Shifted(x)]
    BY <1>1, <2>1 DEF kv_apply_eviction
  <2>3. ASSUME NEW i \in 0..(window_size - 1)
        PROVE  i + Excess(x) \in 0..(x.seqLen - 1) /\ Shifted(x)[i] = x.cell[i + Excess(x)]
    <3>1. i + Excess(x) \in 0..(x.seqLen - 1) /\ i + Excess(x) \in Cells /\ i \in Cells
      BY <1>1, <2>1 DEF Cells
    <3> QED BY <1>1, <3>1 DEF Shifted
  <2>4. (x.startPos + Excess(x)) - x.startPos = Excess(x)
    BY <1>1, <2>1
  <2> QED BY <1>1, <2>1, <2>2, <2>3, <2>4
<1> QED BY <1>1, <1>2, <1>3

\* A store keeps the types of what it writes.
LEMMA WriteType ==
  ASSUME KvTypeOK, NEW l \in Layers, NEW x \in Layer, NEW at \in Nat, NEW n \in Nat,
         NEW first \in Nat, Write(l, x, at, n, first)
  PROVE  /\ layer' \in [Layers -> Layer] /\ beyond' \in BOOLEAN
         /\ current' \in Nat /\ peak' \in Nat
<1>1. generation \in Nat /\ max_seq_len \in Nat
  BY KvAssumption DEF KvTypeOK
<1>2. Larger(x.seqLen, at + n) \in Nat
  BY DEF Larger, Layer
<1>3. [i \in Cells |-> IF i \in at..(at + n - 1) THEN <<generation, first + (i - at)>> ELSE x.cell[i]]
        \in [Cells -> Int \X Nat]
  BY <1>1 DEF Cells, Layer
<1>4. Stored(x, at, n, first) \in Layer
  BY <1>2, <1>3 DEF Stored, Layer
<1>5. layer' \in [Layers -> Layer] /\ beyond' \in BOOLEAN
  BY <1>4 DEF Write, KvTypeOK
<1>6. current' \in Nat /\ peak' \in Nat
  BY <1>2 DEF Write, Measured, Larger, KvTypeOK
<1> QED BY <1>5, <1>6

\* Every step of the cache keeps the types.
LEMMA TypeStep == KvTypeOK /\ [KvNext]_kv_vars => KvTypeOK'
<1> SUFFICES ASSUME KvTypeOK, [KvNext]_kv_vars PROVE KvTypeOK'
  OBVIOUS
<1>0. MAX_POS \in Nat /\ Batches \subseteq Nat /\ MAX_RESETS \in Nat
  BY KvAssumption
<1>1. ASSUME NEW l \in Layers, Store(l) PROVE KvTypeOK'
  <2>1. PICK position \in Positions(l) :
          /\ position <= MAX_POS
          /\ LET x  == IF PastEnd(position, 1) THEN kv_apply_eviction(layer[l]) ELSE layer[l]
                 at == IF PastEnd(position, 1) THEN x.seqLen ELSE position
             IN Write(l, x, at, 1, position)
          /\ Advanced(l, position, 1) /\ UNCHANGED <<generation, eviction>>
    BY <1>1 DEF Store
  <2>2. position \in Nat
    BY <1>0 DEF Positions, KvTypeOK
  <2> DEFINE x == IF PastEnd(position, 1) THEN kv_apply_eviction(layer[l]) ELSE layer[l]
             at == IF PastEnd(position, 1) THEN x.seqLen ELSE position
  <2>3. x \in Layer
    BY EvictionType DEF KvTypeOK
  <2>4. at \in Nat
    BY <2>2, <2>3 DEF Layer
  <2>5. Write(l, x, at, 1, position)
    BY <2>1
  <2> HIDE DEF x, at
  <2>6. /\ layer' \in [Layers -> Layer] /\ beyond' \in BOOLEAN /\ current' \in Nat /\ peak' \in Nat
    BY <2>2, <2>3, <2>4, <2>5, WriteType
  <2>7. next' \in [Layers -> 0..(MAX_POS + 1)] /\ generation' \in 0..MAX_RESETS
    BY <1>0, <2>1, <2>2 DEF Advanced, KvTypeOK
  <2> QED BY <2>1, <2>6, <2>7 DEF KvTypeOK
<1>2. ASSUME NEW l \in Layers, StoreBatch(l) PROVE KvTypeOK'
  <2>1. PICK n \in Batches, position \in Positions(l) :
          /\ position + n <= MAX_POS + 1
          /\ LET x == IF PastEnd(position, n) THEN kv_apply_eviction(layer[l]) ELSE layer[l]
             IN Write(l, x, position, n, position)
          /\ Advanced(l, position, n) /\ UNCHANGED <<generation, eviction>>
    BY <1>2 DEF StoreBatch
  <2>2. position \in Nat /\ n \in Nat
    BY <1>0 DEF Positions, KvTypeOK
  <2> DEFINE x == IF PastEnd(position, n) THEN kv_apply_eviction(layer[l]) ELSE layer[l]
  <2>3. x \in Layer
    BY EvictionType DEF KvTypeOK
  <2>4. Write(l, x, position, n, position)
    BY <2>1
  <2> HIDE DEF x
  <2>5. /\ layer' \in [Layers -> Layer] /\ beyond' \in BOOLEAN /\ current' \in Nat /\ peak' \in Nat
    BY <2>2, <2>3, <2>4, WriteType
  <2>6. next' \in [Layers -> 0..(MAX_POS + 1)] /\ generation' \in 0..MAX_RESETS
    BY <1>0, <2>1, <2>2 DEF Advanced, KvTypeOK
  <2> QED BY <2>1, <2>5, <2>6 DEF KvTypeOK
<1>3. CASE kv_cache_reset
  <2>1. layer' \in [Layers -> Layer]
    BY <1>3 DEF kv_cache_reset, KvTypeOK, Layer
  <2>2. next' \in [Layers -> 0..(MAX_POS + 1)]
    <3>1. 0 \in 0..(MAX_POS + 1)
      BY <1>0
    <3> QED BY <1>3, <3>1 DEF kv_cache_reset
  <2>3. generation' \in 0..MAX_RESETS
    <3>1. generation < MAX_RESETS /\ generation' = generation + 1
      BY <1>3, Zenon DEF kv_cache_reset
    <3>2. generation \in 0..MAX_RESETS
      BY DEF KvTypeOK
    <3> QED BY <1>0, <3>1, <3>2
  <2> QED BY <1>3, <2>1, <2>2, <2>3 DEF kv_cache_reset, KvTypeOK
<1>4. CASE UNCHANGED kv_vars
  BY <1>4 DEF kv_vars, KvTypeOK
<1> QED BY <1>1, <1>2, <1>3, <1>4 DEF KvNext

\* Type correctness of the cache, whatever its configuration.
THEOREM KvTypeCorrect == KvSpec => []KvTypeOK
<1>1. KvInit => KvTypeOK
  <2>1. MAX_RESETS \in Nat /\ MAX_POS \in Nat
    BY KvAssumption
  <2>2. Empty \in Int \X Nat
    BY DEF Empty
  <2>3. [seqLen |-> 0, startPos |-> 0, cell |-> [i \in Cells |-> Empty]] \in Layer
    BY <2>2 DEF Layer
  <2>4. 0 \in 0..(MAX_POS + 1) /\ 0 \in 0..MAX_RESETS
    BY <2>1
  <2> SUFFICES ASSUME KvInit PROVE KvTypeOK
    OBVIOUS
  <2>5. layer \in [Layers -> Layer]
    BY <2>3 DEF KvInit
  <2>6. next \in [Layers -> 0..(MAX_POS + 1)]
    BY <2>4 DEF KvInit
  <2>7. current \in Nat /\ peak \in Nat /\ generation \in 0..MAX_RESETS
    BY <2>4 DEF KvInit
  <2>8. beyond \in BOOLEAN /\ eviction \in Policies
    BY DEF KvInit
  <2> QED BY <2>5, <2>6, <2>7, <2>8 DEF KvTypeOK
<1> QED BY <1>1, TypeStep, PTL DEF KvSpec

-----------------------------------------------------------------------------
\* A write inside the arrays keeps every layer inside its arrays.
LEMMA WriteInBounds ==
  ASSUME KvTypeOK, InBounds, NEW l \in Layers, NEW x \in Layer, NEW at \in Nat, NEW n \in Nat,
         NEW first \in Nat, Write(l, x, at, n, first),
         x.seqLen <= max_seq_len, at + n <= max_seq_len
  PROVE  InBounds'
<1>1. max_seq_len \in Nat /\ x.seqLen \in Nat
  BY KvAssumption DEF Layer
<1>2. ~beyond'
  <2>1. ~(at + n > max_seq_len)
    BY <1>1
  <2>2. ~beyond /\ beyond' = (beyond \/ at + n > max_seq_len)
    BY Zenon DEF Write, InBounds
  <2> QED BY <2>1, <2>2, Zenon
<1>3. Stored(x, at, n, first).seqLen <= max_seq_len
  <2>1. Stored(x, at, n, first).seqLen = Larger(x.seqLen, at + n)
    BY DEF Stored, Layer
  <2> QED BY <2>1 DEF Larger
<1>4. layer' = [layer EXCEPT ![l] = Stored(x, at, n, first)] /\ layer \in [Layers -> Layer]
  BY DEF Write, KvTypeOK
<1>5. \A k \in Layers : layer'[k].seqLen <= max_seq_len
  BY <1>3, <1>4 DEF InBounds
<1> QED BY <1>2, <1>5 DEF InBounds

\* A single store picks, in a safe configuration, an index inside the arrays.
LEMMA StoreInBounds ==
  ASSUME SafePolicy(eviction), KvTypeOK, InBounds, NEW l \in Layers, Store(l)
  PROVE  InBounds'
<1>0. max_seq_len \in Nat \ {0} /\ MAX_POS \in Nat /\ layer[l] \in Layer
  BY KvAssumption DEF KvTypeOK
<1>1. PICK position \in Positions(l) :
        /\ ~(PastEnd(position, 1) /\ eviction = "none")
        /\ LET x  == IF PastEnd(position, 1) THEN kv_apply_eviction(layer[l]) ELSE layer[l]
               at == IF PastEnd(position, 1) THEN x.seqLen ELSE position
           IN Write(l, x, at, 1, position)
  BY DEF Store
<1>2. position \in Nat
  BY <1>0 DEF Positions, KvTypeOK
<1>3. layer[l].seqLen <= max_seq_len
  BY DEF InBounds
<1>4. CASE PastEnd(position, 1)
  <2> DEFINE x == kv_apply_eviction(layer[l])
  <2>1. x \in Layer
    BY <1>0, EvictionType
  <2>2. Write(l, x, x.seqLen, 1, position)
    BY <1>1, <1>4
  <2>3. x.seqLen <= window_size /\ window_size < max_seq_len
    BY <1>0, <1>1, <1>3, <1>4, EvictionSafe
  <2> HIDE DEF x
  <2>4. window_size \in Nat /\ x.seqLen \in Nat
    BY <2>1, KvAssumption DEF Layer
  <2>5. x.seqLen <= max_seq_len /\ x.seqLen + 1 <= max_seq_len
    BY <1>0, <2>3, <2>4
  <2> QED BY <1>2, <2>1, <2>2, <2>4, <2>5, WriteInBounds
<1>5. CASE ~PastEnd(position, 1)
  <2>1. Write(l, layer[l], position, 1, position)
    BY <1>1, <1>5
  <2>2. position + 1 <= max_seq_len
    BY <1>0, <1>2, <1>5 DEF PastEnd
  <2> QED BY <1>0, <1>2, <1>3, <2>1, <2>2, WriteInBounds
<1> QED BY <1>4, <1>5

\* A batch does too: without a policy it fails past the end.
LEMMA BatchInBounds ==
  ASSUME SafePolicy(eviction), KvTypeOK, InBounds, NEW l \in Layers, StoreBatch(l)
  PROVE  InBounds'
<1>0. max_seq_len \in Nat /\ MAX_POS \in Nat /\ Batches \subseteq Nat /\ layer[l] \in Layer
  BY KvAssumption DEF KvTypeOK
<1>1. PICK n \in Batches, position \in Positions(l) :
        /\ eviction \in BatchPolicies /\ ~(PastEnd(position, n) /\ eviction = "none")
        /\ LET x == IF PastEnd(position, n) THEN kv_apply_eviction(layer[l]) ELSE layer[l]
           IN Write(l, x, position, n, position)
  BY DEF StoreBatch
<1>2. n \in Nat /\ position \in Nat
  BY <1>0 DEF Positions, KvTypeOK
<1>3. ~PastEnd(position, n)
  BY <1>1 DEF SafePolicy
<1>4. Write(l, layer[l], position, n, position)
  BY <1>1, <1>3
<1>5. position + n <= max_seq_len
  BY <1>0, <1>2, <1>3 DEF PastEnd
<1>6. layer[l].seqLen <= max_seq_len
  BY DEF InBounds
<1> QED BY <1>0, <1>2, <1>4, <1>5, <1>6, WriteInBounds

\* In a safe configuration no store, whatever its position, writes past the
\* end of a layer's arrays (kv_cache_store_f32's checks suffice there).
THEOREM KvInBounds ==
  ASSUME SafeConfig
  PROVE  KvSpec => []InBounds
<1>1. KvInit => InBounds
  BY KvAssumption DEF KvInit, InBounds
<1>2. KvTypeOK /\ InBounds /\ [KvNext]_kv_vars => InBounds'
  <2> SUFFICES ASSUME KvTypeOK, InBounds, [KvNext]_kv_vars PROVE InBounds'
    OBVIOUS
  <2>1. CASE kv_cache_reset
    <3>1. layer' = [l \in Layers |-> [layer[l] EXCEPT !.seqLen = 0, !.startPos = 0]]
      BY <2>1 DEF kv_cache_reset
    <3>2. \A l \in Layers : layer'[l].seqLen = 0
      BY <3>1 DEF KvTypeOK, Layer
    <3>3. beyond' = beyond
      BY <2>1 DEF kv_cache_reset
    <3>4. 0 <= max_seq_len
      BY KvAssumption
    <3> QED BY <3>2, <3>3, <3>4 DEF InBounds
  <2>2. CASE UNCHANGED kv_vars
    BY <2>2 DEF kv_vars, InBounds
  <2>3. SafePolicy(eviction)
    BY DEF SafeConfig, KvTypeOK
  <2> QED BY <2>1, <2>2, <2>3, StoreInBounds, BatchInBounds DEF KvNext
<1> QED BY <1>1, <1>2, KvTypeCorrect, PTL DEF KvSpec

-----------------------------------------------------------------------------
\* x holds the newest tokens of generation g up to position p.
Newest(x, g, p) == /\ x.startPos + x.seqLen = p
                   /\ \A i \in 0..(x.seqLen - 1) : x.cell[i] = <<g, x.startPos + i>>

\* The window has moved only in a generation longer than the arrays, so that
\* a position inside the arrays is its own index.
StartInv == \A l \in Layers :
  layer[l].startPos = 0 \/ (eviction = "sliding" /\ next[l] >= max_seq_len)

\* Tokens appended to the newest ones keep them the newest.
LEMMA AppendNewest ==
  ASSUME KvTypeOK, NEW x \in Layer, NEW n \in Nat \ {0}, NEW p \in Nat,
         Newest(x, generation, p), x.seqLen + n <= max_seq_len
  PROVE  /\ Newest(Stored(x, x.seqLen, n, p), generation, p + n)
         /\ Stored(x, x.seqLen, n, p).startPos = x.startPos
<1> DEFINE y == Stored(x, x.seqLen, n, p)
<1>1. /\ x.seqLen \in Nat /\ x.startPos \in Nat /\ max_seq_len \in Nat
  BY KvAssumption DEF Layer
<1>2. y.seqLen = x.seqLen + n /\ y.startPos = x.startPos
  BY <1>1 DEF Stored, Larger
<1>3. p = x.startPos + x.seqLen /\ \A i \in 0..(x.seqLen - 1) : x.cell[i] = <<generation, x.startPos + i>>
  BY DEF Newest
<1>4. ASSUME NEW i \in 0..(y.seqLen - 1)
      PROVE  y.cell[i] = <<generation, y.startPos + i>>
  <2>0. i \in 0..(x.seqLen + n - 1)
    BY <1>1, <1>2
  <2>1. i \in Cells
    BY <1>1, <2>0 DEF Cells
  <2>2. y.cell[i] = IF i \in (x.seqLen)..(x.seqLen + n - 1)
                    THEN <<generation, p + (i - x.seqLen)>> ELSE x.cell[i]
    BY <2>1 DEF Stored
  <2>3. CASE i >= x.seqLen
    <3>1. p + (i - x.seqLen) = x.startPos + i /\ i \in (x.seqLen)..(x.seqLen + n - 1)
      BY <1>1, <1>3, <2>0, <2>3
    <3> QED BY <1>2, <2>2, <3>1
  <2>4. CASE i < x.seqLen
    <3>1. i \in 0..(x.seqLen - 1) /\ i \notin (x.seqLen)..(x.seqLen + n - 1)
      BY <1>1, <2>0, <2>4
    <3> QED BY <1>2, <1>3, <2>2, <3>1
  <2> QED BY <1>1, <2>0, <2>3, <2>4
<1>5. y.startPos + y.seqLen = p + n
  BY <1>1, <1>2, <1>3
<1> HIDE DEF y
<1>6. Newest(y, generation, p + n)
  <2>1. \A i \in 0..(y.seqLen - 1) : y.cell[i] = <<generation, y.startPos + i>>
    BY <1>4
  <2> QED BY <1>5, <2>1, Zenon DEF Newest
<1> QED BY <1>2, <1>6 DEF y

\* A write of one layer at its next position, with the newest tokens up to
\* it in x, keeps every layer's tokens the newest.
LEMMA WriteNewest ==
  ASSUME KvTypeOK, WindowNewest, StartInv, NEW l \in Layers, NEW x \in Layer, NEW n \in Nat \ {0},
         NEW p \in Nat, Write(l, x, x.seqLen, n, p), Advanced(l, p, n), generation' = generation, eviction' = eviction,
         Newest(x, generation, p), x.seqLen + n <= max_seq_len,
         x.startPos = 0 \/ (eviction = "sliding" /\ p >= max_seq_len)
  PROVE  WindowNewest' /\ StartInv'
<1>1. layer' = [layer EXCEPT ![l] = Stored(x, x.seqLen, n, p)] /\ next' = [next EXCEPT ![l] = p + n]
  BY DEF Write, Advanced
<1>2. layer \in [Layers -> Layer] /\ next \in [Layers -> 0..(MAX_POS + 1)] /\ max_seq_len \in Nat
  BY KvAssumption DEF KvTypeOK
<1>3. /\ layer'[l] = Stored(x, x.seqLen, n, p) /\ next'[l] = p + n
      /\ \A k \in Layers \ {l} : layer'[k] = layer[k] /\ next'[k] = next[k]
  BY <1>1, <1>2
<1>4. Newest(layer'[l], generation, next'[l]) /\ layer'[l].startPos = x.startPos
  BY <1>3, AppendNewest
<1>5. \A k \in Layers : Newest(layer'[k], generation, next'[k])
  BY <1>3, <1>4 DEF WindowNewest, Newest
<1>6. WindowNewest'
  BY <1>5 DEF WindowNewest, Newest
<1>7. p + n >= p
  OBVIOUS
<1>8. layer'[l].startPos = 0 \/ (eviction = "sliding" /\ next'[l] >= max_seq_len)
  BY <1>2, <1>3, <1>4, <1>7
<1>9. StartInv'
  BY <1>3, <1>8 DEF StartInv
<1> QED BY <1>6, <1>9

\* A single store appends the token, after the eviction when the arrays are full.
LEMMA StoreNewest ==
  ASSUME SafePolicy(eviction), SEQUENTIAL, KvTypeOK, InBounds, WindowNewest, StartInv,
         NEW l \in Layers, Store(l)
  PROVE  WindowNewest' /\ StartInv'
<1> DEFINE p == next[l]
<1>0. /\ max_seq_len \in Nat \ {0} /\ MAX_POS \in Nat /\ layer[l] \in Layer /\ p \in Nat
      /\ layer[l].seqLen \in Nat /\ layer[l].startPos \in Nat /\ layer[l].seqLen <= max_seq_len
  BY KvAssumption DEF KvTypeOK, Layer, InBounds
<1>1. /\ ~(PastEnd(p, 1) /\ eviction = "none")
      /\ LET x  == IF PastEnd(p, 1) THEN kv_apply_eviction(layer[l]) ELSE layer[l]
             at == IF PastEnd(p, 1) THEN x.seqLen ELSE p
         IN Write(l, x, at, 1, p)
      /\ Advanced(l, p, 1) /\ generation' = generation /\ eviction' = eviction
  BY DEF Store, Positions
<1>2. Newest(layer[l], generation, p)
  BY DEF WindowNewest, Newest
<1>3. layer[l].startPos = 0 \/ (eviction = "sliding" /\ p >= max_seq_len)
  BY DEF StartInv
<1> HIDE DEF p
<1>4. CASE PastEnd(p, 1)
  <2> DEFINE x == kv_apply_eviction(layer[l])
             d == x.startPos - layer[l].startPos
  <2>1. x \in Layer
    BY <1>0, EvictionType
  <2>2. Write(l, x, x.seqLen, 1, p)
    BY <1>1, <1>4
  <2>3. /\ x.seqLen <= window_size /\ window_size < max_seq_len
        /\ x.startPos + x.seqLen = layer[l].startPos + layer[l].seqLen
        /\ \A i \in 0..(x.seqLen - 1) :
             i + d \in 0..(layer[l].seqLen - 1) /\ x.cell[i] = layer[l].cell[i + d]
    BY <1>0, <1>1, <1>4, EvictionSafe
  <2>4. eviction = "sliding" /\ p >= max_seq_len
    BY <1>0, <1>1, <1>4 DEF SafePolicy, PastEnd
  <2> HIDE DEF x
  <2>5. x.seqLen \in Nat /\ x.startPos \in Nat /\ window_size \in Nat
    BY <2>1, KvAssumption DEF Layer
  <2>6. x.seqLen + 1 <= max_seq_len
    BY <1>0, <2>3, <2>5
  <2>7. ASSUME NEW i \in 0..(x.seqLen - 1)
        PROVE  x.cell[i] = <<generation, x.startPos + i>>
    <3>1. x.cell[i] = layer[l].cell[i + d] /\ i + d \in 0..(layer[l].seqLen - 1)
      BY <2>3
    <3>2. layer[l].cell[i + d] = <<generation, layer[l].startPos + (i + d)>>
      BY <1>2, <3>1 DEF Newest
    <3>3. layer[l].startPos + (i + d) = x.startPos + i
      BY <1>0, <2>5
    <3> QED BY <3>1, <3>2, <3>3
  <2>8. Newest(x, generation, p)
    BY <1>2, <2>3, <2>7 DEF Newest
  <2> QED BY <1>0, <1>1, <2>1, <2>2, <2>4, <2>6, <2>8, WriteNewest
<1>5. CASE ~PastEnd(p, 1)
  <2>1. p + 1 <= max_seq_len /\ ~(p >= max_seq_len)
    BY <1>0, <1>5 DEF PastEnd
  <2>2. p = layer[l].seqLen
    BY <1>0, <1>2, <1>3, <2>1 DEF Newest
  <2>3. Write(l, layer[l], layer[l].seqLen, 1, p)
    BY <1>1, <1>5, <2>2
  <2> QED BY <1>0, <1>1, <1>2, <1>3, <2>1, <2>2, <2>3, WriteNewest
<1> QED BY <1>4, <1>5

\* A batch that is stored lies inside the arrays.
LEMMA BatchNewest ==
  ASSUME SafePolicy(eviction), SEQUENTIAL, KvTypeOK, InBounds, WindowNewest, StartInv,
         NEW l \in Layers, StoreBatch(l)
  PROVE  WindowNewest' /\ StartInv'
<1> DEFINE p == next[l]
<1>0. /\ max_seq_len \in Nat \ {0} /\ MAX_POS \in Nat /\ layer[l] \in Layer /\ p \in Nat
      /\ Batches \subseteq Nat \ {0} /\ layer[l].seqLen \in Nat /\ layer[l].startPos \in Nat
  BY KvAssumption DEF KvTypeOK, Layer
<1>1. PICK n \in Batches :
        /\ eviction \in BatchPolicies /\ ~(PastEnd(p, n) /\ eviction = "none")
        /\ LET x == IF PastEnd(p, n) THEN kv_apply_eviction(layer[l]) ELSE layer[l]
           IN Write(l, x, p, n, p)
        /\ Advanced(l, p, n) /\ generation' = generation /\ eviction' = eviction
  BY DEF StoreBatch, Positions
<1>2. Newest(layer[l], generation, p)
  BY DEF WindowNewest, Newest
<1>3. layer[l].startPos = 0 \/ (eviction = "sliding" /\ p >= max_seq_len)
  BY DEF StartInv
<1> HIDE DEF p
<1>4. n \in Nat \ {0} /\ ~PastEnd(p, n) /\ eviction = "none"
  BY <1>0, <1>1 DEF SafePolicy
<1>5. p + n <= max_seq_len
  BY <1>0, <1>4 DEF PastEnd
<1>6. p = layer[l].seqLen
  BY <1>0, <1>2, <1>3, <1>4 DEF Newest
<1>7. Write(l, layer[l], layer[l].seqLen, n, p)
  BY <1>1, <1>4, <1>6
<1> QED BY <1>0, <1>1, <1>2, <1>3, <1>4, <1>5, <1>6, <1>7, WriteNewest

\* In a safe configuration, with callers that store each layer's positions in
\* order, the cache always holds the newest tokens of the generation without
\* a gap: a reset leaves no older token visible, although it clears no array.
THEOREM KvWindowNewest ==
  ASSUME SafeConfig, SEQUENTIAL
  PROVE  KvSpec => []WindowNewest
<1>1. KvInit => WindowNewest /\ StartInv
  <2> SUFFICES ASSUME KvInit PROVE WindowNewest /\ StartInv
    OBVIOUS
  <2>1. \A l \in Layers : layer[l].seqLen = 0 /\ layer[l].startPos = 0 /\ next[l] = 0
    BY DEF KvInit
  <2> QED BY <2>1 DEF WindowNewest, StartInv
<1>2. KvTypeOK /\ InBounds /\ WindowNewest /\ StartInv /\ [KvNext]_kv_vars => WindowNewest' /\ StartInv'
  <2> SUFFICES ASSUME KvTypeOK, InBounds, WindowNewest, StartInv, [KvNext]_kv_vars
               PROVE  WindowNewest' /\ StartInv'
    OBVIOUS
  <2>1. CASE kv_cache_reset
    <3>1. /\ layer' = [l \in Layers |-> [layer[l] EXCEPT !.seqLen = 0, !.startPos = 0]]
          /\ next' = [l \in Layers |-> 0]
      BY <2>1 DEF kv_cache_reset
    <3>2. \A l \in Layers : layer'[l].seqLen = 0 /\ layer'[l].startPos = 0 /\ next'[l] = 0
      BY <3>1 DEF KvTypeOK, Layer
    <3> QED BY <3>2 DEF WindowNewest, StartInv
  <2>2. CASE UNCHANGED kv_vars
    BY <2>2 DEF kv_vars, WindowNewest, StartInv
  <2>3. SafePolicy(eviction)
    BY DEF SafeConfig, KvTypeOK
  <2> QED BY <2>1, <2>2, <2>3, StoreNewest, BatchNewest DEF KvNext
<1> QED BY <1>1, <1>2, KvTypeCorrect, KvInBounds, PTL DEF KvSpec
=============================================================================

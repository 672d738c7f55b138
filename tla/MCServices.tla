----------------------------- MODULE MCServices -----------------------------
(* A TLC instance of the parts above the scheduler that take the shell's     *)
(* calls: the model registry, the KV cache, the worker pool and the NVMe     *)
(* driver.  They share no state, so each behaviour moves one of them; the    *)
(* cache runs the policies the code handles, batches without a policy only.  *)
EXTENDS ModelRegistry, KvCache, MCParallelPool, MCNvme

VARIABLE part

TwoSizes     == {1, 2}
TwoSpaces    == {0, 3}   \* 0 stands for an unset memory_required
BothPolicies == {"none", "sliding"}
OnlyNone     == {"none"}
TwoBatches   == {2, 3}

Init ==
  /\ part \in {"registry", "cache", "pool", "nvme"}
  /\ RegistryInit /\ KvInit /\ PoolInit /\ NvmeInit
  /\ part # "cache" => eviction = "none"

Next ==
  /\ \/ part = "registry" /\ RegistryNext /\ UNCHANGED <<kv_vars, pool_vars, nvme_vars>>
     \/ part = "cache" /\ KvNext /\ UNCHANGED <<registry_vars, pool_vars, nvme_vars>>
     \/ part = "pool" /\ PoolNext /\ UNCHANGED <<registry_vars, kv_vars, nvme_vars>>
     \/ part = "nvme" /\ NvmeNext /\ UNCHANGED <<registry_vars, kv_vars, pool_vars>>
  /\ UNCHANGED part

Spec == Init /\ [][Next]_<<part, registry_vars, kv_vars, pool_vars, nvme_vars>>

\* Every field has its type: counts and positions within their tables, ids of
\* slots or none.
ServicesTypeOK == RegistryTypeOK /\ KvTypeOK /\ PoolTypeOK /\ NvmeTypeOK
=============================================================================

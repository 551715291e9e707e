----------------------- MODULE StonkFunPoolRegistry -----------------------
(* The caller-owned index of graduated pools of                            *)
(* src/src/stonkfun_registry.rs: observe_events ingests the migrations of  *)
(* a transaction, serde saves and restores the index.  The pools map is    *)
(* the set of its entries, at most one per pool.                           *)
EXTENDS Integers, Sequences, FiniteSets

CONSTANTS
    Migration,    \* RaydiumLaunchlabMigrateAmm events
    MaxBatch,     \* bound: migrations of one observe_events call
    DefaultKey,   \* Pubkey::default()
    Platform,     \* the platform configs with a StonkFun mode
    Cpmm          \* RAYDIUM_CPMM_PROGRAM_ID

ASSUME RegistryAssumption == IsFiniteSet(Migration) /\ MaxBatch \in Nat

VARIABLES
    pools,      \* StonkFunPoolRegistry::pools
    snapshots,  \* every serialized state of the registry
    result      \* of the last call: a count, ConflictError or InvalidError

registryVars == <<pools, snapshots, result>>

ConflictError == -1
InvalidError == -2

WellFormed(e) ==
    /\ e.platform_config \in Platform
    /\ DefaultKey \notin {e.curve_pool, e.pool, e.base_mint, e.quote_mint}
    /\ e.curve_pool # e.pool /\ e.base_mint # e.quote_mint

\* The fields of a migration that the index keeps.
Entry(m) ==
    [curve_pool |-> m.old_pool, pool |-> m.new_pool, base_mint |-> m.base_mint,
     quote_mint |-> m.quote_mint, platform_config |-> m.platform_config,
     migration_signature |-> m.signature, migration_slot |-> m.slot]

from_migration(batch) ==
    {Entry(m) : m \in {m \in batch : m.destination_program = Cpmm /\ WellFormed(Entry(m))}}

Get(entries, p) == {e \in entries : e.pool = p}

\* A conflict with the index or within the batch, in whatever order.
Conflict(entries) == \E e \in entries : Get(entries \cup pools, e.pool) # {e}

RegistryInit == pools = {} /\ snapshots = {{}} /\ result = 0

\* A transaction that failed is ignored.
ObserveFailed ==
    /\ result' = 0
    /\ UNCHANGED <<pools, snapshots>>

\* Mutant: entries before the conflicting one stay in the index.
ObservePartly(batch) ==
    LET entries == from_migration(batch)
    IN  IF Conflict(entries)
        THEN /\ result' = ConflictError
             /\ pools' = pools \cup {e \in entries : Get(pools, e.pool) = {}}
             /\ UNCHANGED snapshots
        ELSE /\ result' = Cardinality(entries \ pools)
             /\ pools' = pools \cup entries
             /\ UNCHANGED snapshots

observe_events(batch) ==
    LET entries == from_migration(batch)
    IN  IF Conflict(entries)
        THEN result' = ConflictError /\ UNCHANGED <<pools, snapshots>>
        ELSE /\ result' = Cardinality(entries \ pools)
             /\ pools' = pools \cup entries
             /\ UNCHANGED snapshots

Serialize ==
    /\ snapshots' = snapshots \cup {pools}
    /\ UNCHANGED <<pools, result>>

Accepts(entries) ==
    \A e \in entries : WellFormed(e) /\ Get(entries, e.pool) = {e}

\* The process restarts and deserializes some snapshot, or refuses it.
Deserialize(entries) ==
    /\ entries \in snapshots
    /\ IF Accepts(entries) THEN pools' = entries /\ result' = 0
                           ELSE result' = InvalidError /\ UNCHANGED pools
    /\ UNCHANGED snapshots

RegistryNext ==
    \/ ObserveFailed
    \/ \E batch \in SUBSET Migration : Cardinality(batch) <= MaxBatch /\ observe_events(batch)
    \/ Serialize
    \/ \E entries \in snapshots : Deserialize(entries)

RegistrySpec == RegistryInit /\ [][RegistryNext]_registryVars

-----------------------------------------------------------------------------
RegistryTypeOK ==
    /\ pools \subseteq {Entry(m) : m \in Migration}
    /\ \A s \in snapshots : s \subseteq {Entry(m) : m \in Migration}

\* The index holds one well-formed entry per pool, and so does every snapshot.
RegistryValid == Accepts(pools) /\ \A s \in snapshots : Accepts(s)

(* Whatever order migrations are observed, replayed, in conflict, saved    *)
(* and restored in: a call that reports a conflict leaves the index        *)
(* unchanged, any other call keeps every entry unless it goes back to a    *)
(* snapshot, and no snapshot the registry ever wrote is refused            *)
(* (stonkfun_registry.rs:113-136, 152-192).                                *)
ProvenanceIsStable ==
    [][/\ result' # InvalidError
       /\ result' = ConflictError => pools' = pools
       /\ pools \subseteq pools' \/ pools' \in snapshots]_registryVars
=============================================================================

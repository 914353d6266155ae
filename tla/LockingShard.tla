---------------------------- MODULE LockingShard ----------------------------
(***************************************************************************)
(* The locking shards of the two-phase commit architecture                 *)
(* (src/src/uhs/twophase/locking_shard).  Every shard is a raft cluster    *)
(* whose state machine executes lock, apply and discard requests one at a  *)
(* time, so an RPC is one atomic step; its durable log makes the state     *)
(* survive a crash of any of its nodes.                                    *)
(*                                                                         *)
(* The variables are functions on Shard.  The part of a batch that is sent *)
(* to a shard keeps the batch's own indexes: it is a function from a set   *)
(* of indexes to transactions.                                             *)
(***************************************************************************)
EXTENDS Transactions, Naturals

CONSTANTS
    Shard,          \* locking shard clusters
    HomeShard,      \* the shard whose output range holds a UHS ID
    TxShard,        \* the shard whose output range holds a transaction ID
    Dtx,            \* distributed transaction (batch) identifiers
    BatchSize,      \* m_batch_size: the largest number of txs in a batch
    ConflictFree    \* whether clients keep conflicting txs out of flight

ASSUME LockingShardAssumption ==
    /\ HomeShard \in [UhsId -> Shard]
    /\ TxShard \in [Tx -> Shard]
    /\ BatchSize \in Nat
    /\ ConflictFree \in BOOLEAN

VARIABLES
    m_uhs,              \* unspent and unlocked UHS IDs
    m_locked,           \* UHS IDs locked by a prepared batch
    m_prepared_dtxs,    \* batches locked and not yet applied
    m_applied_dtxs,     \* batches applied and not yet discarded
    m_completed_txs,    \* the transaction IDs check_tx_id answers true for
    m_halted            \* the shard called m_logger->fatal, which exits

shardVars == <<m_uhs, m_locked, m_prepared_dtxs, m_applied_dtxs,
               m_completed_txs, m_halted>>

\* Shard ranges partition the first byte of a hash, so the range test is a
\* comparison with the one shard that owns the hash.
hash_in_shard_range(s, id) == HomeShard[id] = s

\* The inputs (outputs) of t that shard s stores.
ShardInputs(s, t) == {id \in m_inputs[t] : hash_in_shard_range(s, id)}

ShardOutputs(s, t) == {id \in m_uhs_outputs[t] : hash_in_shard_range(s, id)}

\* The shard takes part in t: it owns its ID, an input or an output.
ActiveIn(s, t) ==
    \/ TxShard[t] = s
    \/ ShardInputs(s, t) # {}
    \/ ShardOutputs(s, t) # {}

Idx == 1..BatchSize

SubBatch == UNION {[I -> Tx] : I \in SUBSET Idx}

Flags == UNION {[I -> BOOLEAN] : I \in SUBSET Idx}

\* A dtx with no entry in the m_prepared_dtxs map.  A coordinator never sends
\* an empty list of transactions, so an empty list stands for "no entry".
NotPrepared == [m_txs |-> <<>>, m_results |-> <<>>]

Prepared(s, d) == DOMAIN m_prepared_dtxs[s][d].m_txs # {}

\* Constructor: the preseeded UHS and empty maps.
ShardInit ==
    /\ m_uhs = [s \in Shard |-> {id \in Seed : hash_in_shard_range(s, id)}]
    /\ m_locked = [s \in Shard |-> {}]
    /\ m_prepared_dtxs = [s \in Shard |-> [d \in Dtx |-> NotPrepared]]
    /\ m_applied_dtxs = [s \in Shard |-> {}]
    /\ m_completed_txs = [s \in Shard |-> {}]
    /\ m_halted = [s \in Shard |-> FALSE]

-----------------------------------------------------------------------------
\* The inputs of the batch's transactions before i that were just locked.
LockedBefore(s, txs, ok, i) ==
    UNION {ShardInputs(s, txs[j]) : j \in {k \in DOMAIN txs : k < i /\ ok[k]}}

\* check_and_lock_tx for the i-th transaction, after those before it.
check_and_lock_tx(s, txs, ok, i) ==
    /\ txs[i] \in Attested
    /\ ShardInputs(s, txs[i]) \subseteq m_uhs[s] \ LockedBefore(s, txs, ok, i)

\* What is remembered of a batch.
Entry(txs, ok) == [m_txs |-> txs, m_results |-> ok]

\* lock_outputs for a batch that is not prepared: m_applied_dtxs is not
\* consulted.  ok is the returned vector; it is the only one that satisfies
\* the equations, each flag depending on the ones before it.
LockFresh(s, d, txs) ==
    /\ ~Prepared(s, d)
    /\ \E ok \in [DOMAIN txs -> BOOLEAN] :
         /\ \A i \in DOMAIN txs : ok[i] = check_and_lock_tx(s, txs, ok, i)
         /\ LET taken == UNION {ShardInputs(s, txs[i]) :
                                  i \in {k \in DOMAIN txs : ok[k]}}
            IN /\ m_uhs' = [m_uhs EXCEPT ![s] = @ \ taken]
               /\ m_locked' = [m_locked EXCEPT ![s] = @ \cup taken]
         /\ m_prepared_dtxs' = [m_prepared_dtxs EXCEPT
                ![s] = [@ EXCEPT ![d] = Entry(txs, ok)]]
    /\ UNCHANGED <<m_applied_dtxs, m_completed_txs, m_halted>>

\* lock_outputs for a prepared batch returns the stored results.
LockRepeated(s, d) ==
    /\ Prepared(s, d)
    /\ UNCHANGED shardVars

\* After either, the reply is m_prepared_dtxs'[s][d].m_results.
lock_outputs(s, d, txs) ==
    /\ ~m_halted[s]
    /\ LockFresh(s, d, txs) \/ LockRepeated(s, d)

-----------------------------------------------------------------------------
\* The outputs of the transactions to be completed.
Created(s, txs, complete) ==
    UNION {ShardOutputs(s, txs[i]) : i \in {k \in DOMAIN txs : complete[k]}}

\* The inputs an apply gives back: the first transaction of the batch that
\* names a locked input erases the lock, and puts the input back into the UHS
\* when that transaction is not to be completed.  (Faulty: the flag is not
\* tested.)
ReturnedAlways(s, txs, complete) ==
    {id \in m_locked[s] : \E i \in DOMAIN txs : id \in ShardInputs(s, txs[i])}

Returned(s, txs, complete) ==
    {id \in m_locked[s] :
        \E i \in DOMAIN txs :
            /\ ~complete[i]
            /\ id \in ShardInputs(s, txs[i])
            /\ \A j \in DOMAIN txs : j < i => id \notin ShardInputs(s, txs[j])}

\* Every input of the batch leaves m_locked, whichever batch locked it.
\* (Faulty: the loop starts at the second transaction; all locks are erased.)
UnlockedSkipsFirst(s, txs) ==
    UNION {ShardInputs(s, txs[i]) : i \in DOMAIN txs \ {1}}

UnlockedAll(s, txs) == m_locked[s]

Unlocked(s, txs) == UNION {ShardInputs(s, txs[i]) : i \in DOMAIN txs}

ApplyPrepared(s, d, complete) ==
    LET txs == m_prepared_dtxs[s][d].m_txs
    IN /\ Prepared(s, d)
       /\ DOMAIN complete = DOMAIN txs
       /\ m_uhs' = [m_uhs EXCEPT ![s] =
              @ \cup Created(s, txs, complete) \cup Returned(s, txs, complete)]
       /\ m_locked' = [m_locked EXCEPT ![s] =
              @ \ Unlocked(s, txs)]
       /\ m_completed_txs' = [m_completed_txs EXCEPT ![s] =
              @ \cup {t \in {txs[i] : i \in DOMAIN txs} : TxShard[t] = s}]
       /\ m_prepared_dtxs' = [m_prepared_dtxs EXCEPT
              ![s] = [@ EXCEPT ![d] = NotPrepared]]
       /\ m_applied_dtxs' = [m_applied_dtxs EXCEPT ![s] = @ \cup {d}]
       /\ UNCHANGED m_halted

ApplyRepeated(s, d) ==
    /\ ~Prepared(s, d)
    /\ d \in m_applied_dtxs[s]
    /\ UNCHANGED shardVars

\* "Unable to find dtx data for apply" and "Incorrect number of complete tx
\* flags for apply" are fatal.  Every replica executes the same log entry, and
\* does so again when it replays its log, so the whole cluster stays down.
ApplyFatal(s, d, complete) ==
    /\ IF Prepared(s, d)
       THEN DOMAIN complete # DOMAIN m_prepared_dtxs[s][d].m_txs
       ELSE d \notin m_applied_dtxs[s]
    /\ m_halted' = [m_halted EXCEPT ![s] = TRUE]
    /\ UNCHANGED <<m_uhs, m_locked, m_prepared_dtxs, m_applied_dtxs,
                   m_completed_txs>>

apply_outputs(s, d, complete) ==
    /\ ~m_halted[s]
    /\ \/ ApplyPrepared(s, d, complete)
       \/ ApplyRepeated(s, d)
       \/ ApplyFatal(s, d, complete)

discard_dtx(s, d) ==
    /\ ~m_halted[s]
    /\ m_applied_dtxs' = [m_applied_dtxs EXCEPT ![s] = @ \ {d}]
    /\ UNCHANGED <<m_uhs, m_locked, m_prepared_dtxs, m_completed_txs,
                   m_halted>>

-----------------------------------------------------------------------------
\* The read-only interface.
check_unspent(s, id) == id \in m_uhs[s] \/ id \in m_locked[s]

check_tx_id(s, t) == t \in m_completed_txs[s]

-----------------------------------------------------------------------------
(***************************************************************************)
(* The shards alone, under requests in any order from any number of        *)
(* coordinators.  With ConflictFree a batch is only locked when none of    *)
(* its inputs is an input of another transaction prepared on the shard.    *)
(***************************************************************************)
NoConflict(s, d, txs) ==
    /\ \A i, j \in DOMAIN txs :
          i # j => ShardInputs(s, txs[i]) \cap ShardInputs(s, txs[j]) = {}
    /\ \A e \in Dtx \ {d} :
          \A j \in DOMAIN m_prepared_dtxs[s][e].m_txs :
             \A i \in DOMAIN txs :
                ShardInputs(s, txs[i])
                  \cap ShardInputs(s, m_prepared_dtxs[s][e].m_txs[j]) = {}

AnyLock(s, d) ==
    \E txs \in SubBatch :
        /\ DOMAIN txs # {}
        /\ \A i \in DOMAIN txs : ActiveIn(s, txs[i])
        /\ ConflictFree => NoConflict(s, d, txs)
        /\ lock_outputs(s, d, txs)

AnyApply(s, d) == \E complete \in Flags : apply_outputs(s, d, complete)

ShardNext ==
    \E s \in Shard, d \in Dtx : AnyLock(s, d) \/ AnyApply(s, d) \/ discard_dtx(s, d)

ShardSpec == ShardInit /\ [][ShardNext]_shardVars

-----------------------------------------------------------------------------
\* Every map holds what its C++ type allows, and a shard only ever stores
\* UHS IDs of its own range.
ShardTypeOK ==
    /\ m_uhs \in [Shard -> SUBSET UhsId]
    /\ m_locked \in [Shard -> SUBSET UhsId]
    /\ m_prepared_dtxs \in
         [Shard -> [Dtx -> [m_txs : SubBatch, m_results : Flags]]]
    /\ \A s \in Shard, d \in Dtx :
         DOMAIN m_prepared_dtxs[s][d].m_results
           = DOMAIN m_prepared_dtxs[s][d].m_txs
    /\ m_applied_dtxs \in [Shard -> SUBSET Dtx]
    /\ m_completed_txs \in [Shard -> SUBSET Tx]
    /\ m_halted \in [Shard -> BOOLEAN]
    /\ \A s \in Shard : \A id \in m_uhs[s] \cup m_locked[s] :
         hash_in_shard_range(s, id)

\* The i-th transaction of d locked its inputs on s and d is not yet applied.
Holds(s, d, i) ==
    /\ i \in DOMAIN m_prepared_dtxs[s][d].m_txs
    /\ m_prepared_dtxs[s][d].m_results[i]

HeldInputs(s, d, i) == ShardInputs(s, m_prepared_dtxs[s][d].m_txs[i])

\* No lock is orphaned: an ID in m_locked is an input of a transaction that a
\* still prepared batch reported as locked, so the apply of that batch will
\* release it.  This is what keeps an input from being frozen by lock_outputs
\* and apply_outputs, whatever the order of the requests.
LockHasHolder ==
    \A s \in Shard : \A id \in m_locked[s] :
        \E d \in Dtx, i \in Idx : Holds(s, d, i) /\ id \in HeldInputs(s, d, i)

\* A lock is kept for the batch that took it: the inputs of a transaction
\* that lock_outputs reported as locked stay in m_locked until its batch is
\* applied.  apply_outputs erases locks by UHS ID alone.
HolderHasLock ==
    \A s \in Shard, d \in Dtx, i \in Idx :
        Holds(s, d, i) => HeldInputs(s, d, i) \subseteq m_locked[s]
=============================================================================

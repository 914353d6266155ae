---------------------------- MODULE Transactions ----------------------------
(***************************************************************************)
(* The transactions every UHS architecture processes.                      *)
(*                                                                         *)
(* A compact_tx is the identifier of a full transaction, the UHS IDs of    *)
(* its inputs and the UHS IDs of its outputs.  Hashes are opaque: only     *)
(* equality and the shard a hash belongs to are used by the system, so a   *)
(* transaction and a UHS ID are model values here.                         *)
(***************************************************************************)
EXTENDS FiniteSets

CONSTANTS
    Tx,         \* compact transactions (named by their m_id)
    UhsId,      \* UHS IDs
    m_inputs,   \* compact_tx::m_inputs
    m_uhs_outputs,  \* compact_tx::m_uhs_outputs
    Seed,       \* the UHS IDs the shards are preseeded with
    Attested    \* transactions with enough valid sentinel attestations

ASSUME TransactionsAssumption ==
    /\ m_inputs \in [Tx -> SUBSET UhsId]
    /\ m_uhs_outputs \in [Tx -> SUBSET UhsId]
    /\ Seed \subseteq UhsId
    /\ Attested \subseteq Tx

\* A UHS ID is the hash of an output and of the transaction that created it:
\* no two transactions create the same one, and none is preseeded as well.
ASSUME OutputsAreFresh ==
    /\ \A t, u \in Tx : t # u => m_uhs_outputs[t] \cap m_uhs_outputs[u] = {}
    /\ \A t \in Tx : m_uhs_outputs[t] \cap Seed = {}

Conflict(t, u) == m_inputs[t] \cap m_inputs[u] # {}
=============================================================================

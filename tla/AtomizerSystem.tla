--------------------------- MODULE AtomizerSystem ---------------------------
(***************************************************************************)
(* The atomizer architecture: shards (src/src/uhs/atomizer/shard) attest   *)
(* inputs, the leader of the atomizer cluster (atomizer_raft.cpp,          *)
(* controller.cpp) collects their notifications until every input of a     *)
(* transaction is attested, and the replicated state machine               *)
(* (state_machine.cpp) decides with the operators of module Atomizer.      *)
(*                                                                         *)
(* Notifications are delayed, reordered, lost and repeated.  Shards lag    *)
(* behind the blocks; how a shard gets a block it missed is the subject of *)
(* module BlockFeed, here the next block reaches it at any time.           *)
(*                                                                         *)
(* Every node keeps the notifications it collected as a leader, and still  *)
(* has them when it leads again.  Raft is external: a command is applied   *)
(* to one replicated state in one step.  The log may hold a command of a   *)
(* deposed leader, so a command is not tied to the current one.            *)
(***************************************************************************)
EXTENDS Atomizer

CONSTANTS
    Shard,          \* shards
    Covers,         \* the UHS IDs in each shard's prefix range
    Node,           \* nodes of the atomizer cluster
    MaxFailovers,   \* bound on leader changes
    MaxRequests     \* bound on transactions sent to shards and mints

ASSUME AtomizerSystemAssumption ==
    /\ Covers \in [Shard -> SUBSET UhsId]
    /\ MaxFailovers \in Nat /\ MaxRequests \in Nat

VARIABLES
    m_leader,           \* the raft leader
    m_raft_txs,         \* atomizer_raft::m_txs: input -> height (0: not attested)
    m_raft_complete,    \* atomizer_raft::m_complete_txs
    notifications,      \* tx_notify_requests on their way or queued, by node
    m_best_block_height,    \* the height of a shard's database
    m_db,               \* a shard's database
    m_snp,              \* a shard's snapshot and its height
    failovers, requests

nodeVars == <<m_leader, m_raft_txs, m_raft_complete, notifications, failovers,
              requests>>
shardVars == <<m_best_block_height, m_db, m_snp>>
systemVars == <<atomizerVars, nodeVars, shardVars>>

NotAttested == [id \in UhsId |-> 0]

SystemInit ==
    /\ AtomizerInit
    /\ m_leader \in Node
    /\ m_raft_txs = [n \in Node |-> [t \in Tx |-> NotAttested]]
    /\ m_raft_complete = [n \in Node |-> {}]
    /\ notifications = [n \in Node |-> {}]
    /\ m_best_block_height = [s \in Shard |-> 0]
    /\ m_db = [s \in Shard |-> Seed \cap Covers[s]]
    /\ m_snp = [s \in Shard |-> [m_height |-> 0, m_ids |-> Seed \cap Covers[s]]]
    /\ failovers = 0
    /\ requests = 0

-----------------------------------------------------------------------------
\* (Faulty: the height of the database, not that of the snapshot.)
digest_transaction_at_best_height(s, t) ==
    LET relevant == m_inputs[t] \cap Covers[s]
    IN  IF /\ m_snp[s].m_height > 0
           /\ m_inputs[t] # {}
           /\ relevant \subseteq m_snp[s].m_ids
        THEN {[m_tx |-> t, m_attestations |-> relevant,
               m_block_height |-> m_best_block_height[s]]}
        ELSE {}

\* shard::digest_transaction on a snapshot: the attestation, if every input in
\* the shard's range is in the snapshot.  A shard answers with an error until
\* it has seen a block, and to a transaction without inputs.
digest_transaction(s, t) ==
    LET relevant == m_inputs[t] \cap Covers[s]
    IN  IF /\ m_snp[s].m_height > 0
           /\ m_inputs[t] # {}
           /\ relevant \subseteq m_snp[s].m_ids
        THEN {[m_tx |-> t, m_attestations |-> relevant,
               m_block_height |-> m_snp[s].m_height]}
        ELSE {}

\* controller::request_consumer: a transaction reaches shard s, any number of
\* times.  The notification goes to the leader; one that is lost is a
\* stuttering step, as is an error, which goes to the watchtower.
request_consumer(s, t) ==
    /\ t \in Attested
    /\ digest_transaction(s, t) # {}
    /\ requests < MaxRequests
    /\ requests' = requests + 1
    /\ notifications' = [notifications EXCEPT
                            ![m_leader] = @ \cup digest_transaction(s, t)]
    /\ UNCHANGED <<atomizerVars, m_leader, m_raft_txs, m_raft_complete,
                   failovers, shardVars>>

\* shard::digest_block: one atomic batch, outputs added before inputs are
\* deleted.  The snapshot still is that of the block before.
digest_block(s) ==
    LET h == m_best_block_height[s] + 1
        relevant(S) == S \cap Covers[s]
    IN  /\ h <= m_best_height
        /\ m_snp[s].m_height = m_best_block_height[s]
        /\ m_best_block_height' = [m_best_block_height EXCEPT ![s] = h]
        /\ m_db' = [m_db EXCEPT ![s] =
                        (@ \cup relevant(Outputs(blocks[h])))
                            \ relevant(Inputs(blocks[h]))]
        /\ UNCHANGED <<atomizerVars, nodeVars, m_snp>>

\* shard::update_snapshot, at the end of digest_block and of open_db.
update_snapshot(s) ==
    /\ m_snp[s].m_height # m_best_block_height[s]
    /\ m_snp' = [m_snp EXCEPT ![s] =
                    [m_height |-> m_best_block_height[s], m_ids |-> m_db[s]]]
    /\ UNCHANGED <<atomizerVars, nodeVars, m_best_block_height, m_db>>

-----------------------------------------------------------------------------
\* The attestations of a transaction with those of a notification: an input
\* that is attested already keeps its height (unordered_set::insert).
Merged(atts, m) ==
    [id \in UhsId |->
        IF id \in m.m_attestations /\ atts[id] = 0 THEN m.m_block_height
        ELSE atts[id]]

Complete(atts, t) == \A id \in m_inputs[t] : atts[id] # 0

\* (Faulty: the height of the newest one.)
Newest(atts, t) ==
    LET heights == {atts[id] : id \in m_inputs[t]}
    IN  IF heights = {} THEN 0
        ELSE CHOOSE h \in heights : \A g \in heights : g <= h

\* The height of the oldest attestation; 0 when there is none.
Oldest(atts, t) ==
    LET heights == {atts[id] : id \in m_inputs[t]}
    IN  IF heights = {} THEN 0
        ELSE CHOOSE h \in heights : \A g \in heights : h <= g

\* atomizer_raft::tx_notify: merge, and extract the transaction when the last
\* input is attested.
tx_notify(n, m) ==
    LET t == m.m_tx
        atts == Merged(m_raft_txs[n][t], m)
    IN  /\ notifications' = [notifications EXCEPT ![n] = @ \ {m}]
        /\ IF Complete(atts, t)
           THEN /\ m_raft_complete' = [m_raft_complete EXCEPT ![n] =
                        @ \cup {[m_tx |-> t,
                                 m_oldest_attestation |-> Oldest(atts, t)]}]
                /\ m_raft_txs' = [m_raft_txs EXCEPT ![n][t] = NotAttested]
           ELSE /\ m_raft_txs' = [m_raft_txs EXCEPT ![n][t] = atts]
                /\ UNCHANGED m_raft_complete
        /\ UNCHANGED <<atomizerVars, m_leader, failovers, requests, shardVars>>

\* atomizer_raft::send_complete_txs and the state machine's
\* aggregate_tx_notify_request.  The transactions of a batch are inserted in
\* turn; a batch of two is two batches of one with nothing between them.  When
\* make_request fails the batch is gone: a transaction may stay here for ever.
send_complete_txs(n, m) ==
    /\ m_raft_complete' = [m_raft_complete EXCEPT ![n] = @ \ {m}]
    /\ insert_complete(m.m_oldest_attestation, m.m_tx)
    /\ UNCHANGED <<m_leader, m_raft_txs, notifications, failovers, requests, shardVars>>

\* client::mint, sent to the atomizer past sentinels and shards, once.
send_mint_tx(t) ==
    LET m == [m_tx |-> t, m_attestations |-> {}, m_block_height |-> 0]
    IN  /\ t \in Attested
        /\ m_inputs[t] = {}
        /\ MayMint(t)
        /\ requests < MaxRequests
        /\ requests' = requests + 1
        /\ \A n \in Node :
                /\ m \notin notifications[n]
                /\ \A c \in m_raft_complete[n] : c.m_tx # t
        /\ notifications' = [notifications EXCEPT ![m_leader] = @ \cup {m}]
        /\ UNCHANGED <<atomizerVars, m_leader, m_raft_txs, m_raft_complete,
                       failovers, shardVars>>

\* controller::main_handler: the leader replicates a make_block_request.
MakeBlock ==
    /\ make_block
    /\ UNCHANGED <<nodeVars, shardVars>>

\* Another node becomes the leader; the old one restarts (it loses what it
\* collected) or stays up (it does not).
Failover(n, restarts) ==
    /\ failovers < MaxFailovers
    /\ n # m_leader
    /\ failovers' = failovers + 1
    /\ m_leader' = n
    /\ m_raft_txs' = IF restarts
                     THEN [m_raft_txs EXCEPT ![m_leader] = [t \in Tx |-> NotAttested]]
                     ELSE m_raft_txs
    /\ m_raft_complete' = IF restarts
                          THEN [m_raft_complete EXCEPT ![m_leader] = {}]
                          ELSE m_raft_complete
    /\ notifications' = IF restarts
                        THEN [notifications EXCEPT ![m_leader] = {}]
                        ELSE notifications
    /\ UNCHANGED <<atomizerVars, requests, shardVars>>

SystemNext ==
    \/ \E s \in Shard, t \in Tx : request_consumer(s, t)
    \/ \E s \in Shard : digest_block(s)
    \/ \E s \in Shard : update_snapshot(s)
    \/ \E n \in Node : \E m \in notifications[n] : tx_notify(n, m)
    \/ \E n \in Node : \E m \in m_raft_complete[n] : send_complete_txs(n, m)
    \/ \E t \in Tx : send_mint_tx(t)
    \/ MakeBlock
    \/ \E n \in Node, restarts \in BOOLEAN : Failover(n, restarts)

SystemSpec == SystemInit /\ [][SystemNext]_systemVars

-----------------------------------------------------------------------------
\* Shards and nodes hold well-formed values.
SystemTypeOK ==
    /\ AtomizerTypeOK
    /\ m_leader \in Node
    /\ m_raft_txs \in [Node -> [Tx -> [UhsId -> 0..MaxHeight]]]
    /\ \A n \in Node :
        /\ m_raft_complete[n] \subseteq
                [m_tx : Attested, m_oldest_attestation : 0..MaxHeight]
        /\ notifications[n] \subseteq
                [m_tx : Attested, m_attestations : SUBSET UhsId,
                 m_block_height : 0..MaxHeight]
    /\ m_best_block_height \in [Shard -> 0..m_best_height]
    /\ m_db \in [Shard -> SUBSET UhsId]
    /\ m_snp \in [Shard -> [m_height : 0..m_best_height, m_ids : SUBSET UhsId]]

(***************************************************************************)
(* A shard's database and its snapshot are the shard's part of the UHS at  *)
(* the height they claim, whatever blocks the shard has yet to digest      *)
(* (digest_block, update_snapshot).                                        *)
(***************************************************************************)
ShardsFollowBlocks ==
    \A s \in Shard :
        /\ m_db[s] = uhsAt[m_best_block_height[s]] \cap Covers[s]
        /\ m_snp[s].m_ids = uhsAt[m_snp[s].m_height] \cap Covers[s]

(***************************************************************************)
(* What the leader replicates is true: of a complete transaction every     *)
(* input was unspent after some block not before its oldest attestation.   *)
(* The state machine relies on it (tx_notify, insert_complete).            *)
(***************************************************************************)
CompleteIsAttested ==
    \A n \in Node : \A m \in m_raft_complete[n] :
        \A id \in m_inputs[m.m_tx] :
            \E g \in m.m_oldest_attestation..m_best_height : id \in uhsAt[g]

(***************************************************************************)
(* Shards, notifications and failovers together keep the contract of the   *)
(* atomizer: the system implements AtomizerSpec, for which the absence of  *)
(* double spends is proved.                                                *)
(***************************************************************************)
ImplementsAtomizer == AtomizerSpec

(***************************************************************************)
(* The atomizer architecture implements the abstract UHS: a block settles  *)
(* its transactions at the instant it is made.                             *)
(***************************************************************************)
Abstract == INSTANCE UHS WITH uhs <- uhsAt[m_best_height]

ImplementsUHS == Abstract!UHSSpec

(***************************************************************************)
(* The parts of the system tell the truth about the chain: shards of their *)
(* blocks, the leader of the transactions it replicates.                   *)
(***************************************************************************)
SystemSound == SystemTypeOK /\ ShardsFollowBlocks /\ CompleteIsAttested
=============================================================================

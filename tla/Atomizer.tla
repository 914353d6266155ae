------------------------------ MODULE Atomizer ------------------------------
(***************************************************************************)
(* The atomizer (src/src/uhs/atomizer/atomizer/atomizer.cpp): it decides   *)
(* which transactions are in the next block, from attestations that may be *)
(* older than the last block.                                              *)
(*                                                                         *)
(* A shard attests at block height h that an input was unspent after block *)
(* h.  The atomizer does not know the UHS.  It keeps the inputs spent in   *)
(* the block being built and in the m_spent_cache_depth blocks before it,  *)
(* and accepts an attestation if no later block of the cache spent the     *)
(* input.  Offsets count back from the block being built: m_spent[0] holds *)
(* the inputs of m_complete_txs and m_spent[k] those of block              *)
(* m_best_height + 1 - k.                                                  *)
(*                                                                         *)
(* blocks and uhsAt are history: the blocks made, and the UHS that results *)
(* from applying the first h of them.                                      *)
(***************************************************************************)
EXTENDS Transactions, Naturals

CONSTANTS
    m_spent_cache_depth,
    MaxHeight           \* bound on the number of blocks

ASSUME AtomizerAssumption ==
    /\ m_spent_cache_depth \in Nat
    /\ MaxHeight \in Nat

VARIABLES
    m_best_height,      \* the height of the last block
    m_complete_txs,     \* the transactions of the block being built
    m_spent,            \* the spent inputs, by offset
    m_txs,              \* attested inputs of incomplete transactions, by offset
    m_errs,             \* the errors the last command returned, for the watchtower
    blocks,             \* history: the transactions of each block
    uhsAt               \* history: the UHS after each block

atomizerVars ==
    <<m_best_height, m_complete_txs, m_spent, m_txs, m_errs, blocks, uhsAt>>

Offset == 0..m_spent_cache_depth

Inputs(S) == UNION {m_inputs[t] : t \in S}

Outputs(S) == UNION {m_uhs_outputs[t] : t \in S}

AtomizerInit ==
    /\ m_best_height = 0
    /\ m_complete_txs = {}
    /\ m_spent = [k \in Offset |-> {}]
    /\ m_txs = [k \in Offset |-> [t \in Tx |-> {}]]
    /\ m_errs = {}
    /\ blocks = [h \in {} |-> {}]
    /\ uhsAt = [h \in {0} |-> Seed]

-----------------------------------------------------------------------------
\* (Faulty: one block too many is accepted.)
InRangeTooFar(h, t) ==
    \/ h <= m_best_height /\ m_best_height - h <= m_spent_cache_depth + 1
    \/ m_inputs[t] = {}

\* get_notification_offset and check_notification_offset.  The subtraction is
\* unsigned: a height above m_best_height wraps to an offset beyond the cache.
InRange(h, t) ==
    \/ h <= m_best_height /\ m_best_height - h <= m_spent_cache_depth
    \/ m_inputs[t] = {}

\* (Faulty: the block being built is not looked at.)
check_stxo_cache_of_blocks(t, offsets) ==
    {id \in m_inputs[t] :
        \E k \in (offsets \cap Offset) \ {0} : id \in m_spent[k]}

\* The inputs of t that are spent at one of the offsets.
check_stxo_cache(t, offsets) ==
    {id \in m_inputs[t] : \E k \in offsets \cap Offset : id \in m_spent[k]}

add_tx_to_stxo_cache(t) == [m_spent EXCEPT ![0] = @ \cup m_inputs[t]]

\* An error, and the inputs it is about.
tx_error ==
    Tx \X {"stxo_range", "inputs_spent", "incomplete"} \X SUBSET UhsId

Report(t, err, ids) == m_errs' = {<<t, err, ids>>}

ReportNothing == m_errs' = {}

-----------------------------------------------------------------------------
\* (Faulty: the inputs are marked as spent before they are checked.)
insert_complete_marks_first(h, t) ==
    LET spent == check_stxo_cache(t, 0..(m_best_height - h))
    IN  /\ UNCHANGED <<m_best_height, m_txs, blocks, uhsAt>>
        /\ m_spent' = IF InRange(h, t) THEN add_tx_to_stxo_cache(t) ELSE m_spent
        /\ \/ /\ ~InRange(h, t)
              /\ Report(t, "stxo_range", {})
              /\ UNCHANGED m_complete_txs
           \/ /\ InRange(h, t)
              /\ spent # {}
              /\ Report(t, "inputs_spent", spent)
              /\ UNCHANGED m_complete_txs
           \/ /\ InRange(h, t)
              /\ spent = {}
              /\ m_complete_txs' = m_complete_txs \cup {t}
              /\ ReportNothing

\* insert_complete: every input of t is attested, the oldest time at height h.
insert_complete(h, t) ==
    LET spent == check_stxo_cache(t, 0..(m_best_height - h))
    IN  /\ UNCHANGED <<m_best_height, m_txs, blocks, uhsAt>>
        /\ \/ /\ ~InRange(h, t)
              /\ Report(t, "stxo_range", {})
              /\ UNCHANGED <<m_complete_txs, m_spent>>
           \/ /\ InRange(h, t)
              /\ spent # {}
              /\ Report(t, "inputs_spent", spent)
              /\ UNCHANGED <<m_complete_txs, m_spent>>
           \/ /\ InRange(h, t)
              /\ spent = {}
              /\ m_spent' = add_tx_to_stxo_cache(t)
              /\ m_complete_txs' = m_complete_txs \cup {t}
              /\ ReportNothing

\* The attestations of t at every offset, with the ones just received.
Attestations(h, t, ids) ==
    [k \in Offset |->
        IF k = m_best_height - h THEN m_txs[k][t] \cup ids ELSE m_txs[k][t]]

\* m_txs with the attestations of t replaced.
WithAttestations(t, atts) ==
    [k \in Offset |-> [u \in Tx |-> IF u = t THEN atts[k] ELSE m_txs[k][u]]]

NoAttestations == [k \in Offset |-> {}]

\* (Faulty: only to the first one the loop meets.)
UpToNewest(atts) == {k \in Offset : \A j \in Offset : j < k => atts[j] = {}}

\* The offsets from 0 to the oldest attestation, the last one the loop over
\* the offsets meets.
UpToOldest(atts) == {k \in Offset : \E j \in Offset : k <= j /\ atts[j] # {}}

total_attestations(atts) == UNION {atts[k] : k \in Offset}

\* insert: a shard attested the inputs ids of t at height h.  A transaction
\* that is complete but conflicts stays in m_txs until it is evicted.
insert(h, t, ids) ==
    LET atts == Attestations(h, t, ids)
        spent == check_stxo_cache(t, UpToOldest(atts))
    IN  /\ UNCHANGED <<m_best_height, blocks, uhsAt>>
        /\ \/ /\ ~InRange(h, t)
              /\ Report(t, "stxo_range", {})
              /\ UNCHANGED <<m_complete_txs, m_spent, m_txs>>
           \/ /\ InRange(h, t)
              /\ total_attestations(atts) # m_inputs[t]
              /\ m_txs' = WithAttestations(t, atts)
              /\ UNCHANGED <<m_complete_txs, m_spent>>
              /\ ReportNothing
           \/ /\ InRange(h, t)
              /\ total_attestations(atts) = m_inputs[t]
              /\ spent # {}
              /\ m_txs' = WithAttestations(t, atts)
              /\ Report(t, "inputs_spent", spent)
              /\ UNCHANGED <<m_complete_txs, m_spent>>
           \/ /\ InRange(h, t)
              /\ total_attestations(atts) = m_inputs[t]
              /\ spent = {}
              /\ m_txs' = WithAttestations(t, NoAttestations)
              /\ m_spent' = add_tx_to_stxo_cache(t)
              /\ m_complete_txs' = m_complete_txs \cup {t}
              /\ ReportNothing

\* The caches move one offset back; what was at the last one is evicted.
Rotated(cache, empty) ==
    [k \in Offset |-> IF k = 0 THEN empty ELSE cache[k - 1]]

\* The incomplete transactions that are evicted by the next block.
Evicted == {t \in Tx : m_txs[m_spent_cache_depth][t] # {}}

make_block ==
    LET h == m_best_height + 1
    IN  /\ m_best_height < MaxHeight
        /\ m_best_height' = h
        /\ m_complete_txs' = {}
        /\ m_spent' = Rotated(m_spent, {})
        /\ m_txs' = Rotated(m_txs, [t \in Tx |-> {}])
        /\ m_errs' = {<<t, "incomplete", {}>> : t \in Evicted}
        /\ blocks' = [g \in 1..h |->
                        IF g = h THEN m_complete_txs ELSE blocks[g]]
        /\ uhsAt' = [g \in 0..h |->
                        IF g = h
                        THEN (uhsAt[m_best_height] \cup Outputs(m_complete_txs))
                                \ Inputs(m_complete_txs)
                        ELSE uhsAt[g]]

-----------------------------------------------------------------------------
(***************************************************************************)
(* The environment: attestations are true.  An input attested at height h  *)
(* was unspent after block h; of a complete set whose oldest member is of  *)
(* height h, every input was unspent after some block not before h.        *)
(* A transaction without inputs mints coins and is sent once.              *)
(***************************************************************************)
InSomeBlock(t) == \E h \in DOMAIN blocks : t \in blocks[h]

MayMint(t) ==
    m_inputs[t] = {} => t \notin m_complete_txs /\ ~InSomeBlock(t)

AttestedSince(h, t) ==
    /\ \A id \in m_inputs[t] : \E g \in h..m_best_height : id \in uhsAt[g]
    /\ MayMint(t)

InsertComplete ==
    \E t \in Attested : \E h \in 0..m_best_height :
        AttestedSince(h, t) /\ insert_complete(h, t)

Insert ==
    \E t \in Attested : \E h \in 0..m_best_height :
        \E ids \in SUBSET (m_inputs[t] \cap uhsAt[h]) :
            ids # {} /\ insert(h, t, ids)

AtomizerNext == make_block \/ InsertComplete \/ Insert

AtomizerSpec == AtomizerInit /\ [][AtomizerNext]_atomizerVars

-----------------------------------------------------------------------------
\* Heights, offsets and sets are well formed, and the history has one entry
\* per block.
AtomizerTypeOK ==
    /\ m_best_height \in Nat
    /\ m_complete_txs \subseteq Attested
    /\ m_spent \in [Offset -> SUBSET UhsId]
    /\ m_txs \in [Offset -> [Tx -> SUBSET UhsId]]
    /\ m_errs \subseteq tx_error
    /\ blocks \in [1..m_best_height -> SUBSET Attested]
    /\ uhsAt \in [0..m_best_height -> SUBSET UhsId]

(***************************************************************************)
(* No UHS ID is spent twice: neither by two transactions of one block nor  *)
(* by transactions of two blocks, and every input was in the UHS before    *)
(* its block.  The atomizer decides this without the UHS, from             *)
(* attestations up to m_spent_cache_depth blocks old (insert,              *)
(* insert_complete, check_stxo_cache).                                     *)
(***************************************************************************)
NoBlockDoubleSpend ==
    \A g, h \in 1..m_best_height :
        \A t \in blocks[g] : \A u \in blocks[h] :
            /\ m_inputs[t] \subseteq uhsAt[g - 1]
            /\ t # u \/ g # h => ~Conflict(t, u)

(***************************************************************************)
(* The transactions of the block being built can still settle: all of      *)
(* their inputs are unspent after the last block.  What insert and         *)
(* insert_complete accept stays true until make_block.                     *)
(***************************************************************************)
PendingUnspent ==
    /\ Inputs(m_complete_txs) \subseteq uhsAt[m_best_height]
    /\ \A t, u \in m_complete_txs : t # u => ~Conflict(t, u)

(***************************************************************************)
(* What the watchtower is told is true: an input reported as spent is      *)
(* spent, by a block or by a transaction of the block being built, however *)
(* old the attestation was and whatever was refused before (insert,        *)
(* insert_complete, check_stxo_cache).                                     *)
(***************************************************************************)
ReportedIsSpent ==
    \A e \in m_errs : e[2] = "inputs_spent" =>
        /\ e[3] # {} /\ e[3] \subseteq m_inputs[e[1]]
        /\ \A id \in e[3] :
                id \notin uhsAt[m_best_height] \/ id \in Inputs(m_complete_txs)
=============================================================================

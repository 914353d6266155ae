------------------------ MODULE AtomizerSystem_proofs ------------------------
(***************************************************************************)
(* Proofs about the atomizer architecture: the atomizer's state machine    *)
(* alone, and the system of shards and atomizer nodes around it.           *)
(***************************************************************************)
EXTENDS AtomizerSystem, TLAPS, WellFoundedInduction

-----------------------------------------------------------------------------
(***************************************************************************)
(* Proofs about the atomizer, for every cache depth, every set of          *)
(* transactions and any number of blocks.                                  *)
(*                                                                         *)
(* NoBlockDoubleSpend is not inductive: that the next block is free of     *)
(* double spends follows from what the caches stand for.  The inductive    *)
(* invariant adds that the cache holds the inputs of the last blocks       *)
(* (CacheMatchesBlocks), that attestations waiting in m_txs are true       *)
(* (AttestationsTrue), and three facts about the UHS the blocks produce:   *)
(* an ID leaves it only when a block spends it (LeavesWhenSpent), a spent  *)
(* ID never returns (SpentIsGone), and an ID in it was created (Created).  *)
(* From the cache and SpentIsGone it also follows that what is reported as *)
(* spent is spent.                                                         *)
(***************************************************************************)

CacheMatchesBlocks ==
    /\ m_spent[0] = Inputs(m_complete_txs)
    /\ \A k \in Offset : k > 0 /\ k <= m_best_height =>
            m_spent[k] = Inputs(blocks[m_best_height + 1 - k])

AttestationsTrue ==
    \A k \in Offset : \A t \in Tx :
        /\ m_txs[k][t] \subseteq m_inputs[t]
        /\ m_txs[k][t] # {} =>
                /\ k <= m_best_height
                /\ m_txs[k][t] \subseteq uhsAt[m_best_height - k]

LeavesWhenSpent ==
    \A g \in 0..m_best_height : \A h \in g..m_best_height :
        \A id \in uhsAt[g] :
            id \in uhsAt[h] \/ \E j \in (g + 1)..h : id \in Inputs(blocks[j])

SpentIsGone ==
    \A g \in 1..m_best_height : \A h \in g..m_best_height :
        Inputs(blocks[g]) \cap uhsAt[h] = {}

Created ==
    \A h \in 0..m_best_height : \A id \in uhsAt[h] :
        id \in Seed \/ \E g \in 1..h : id \in Outputs(blocks[g])

BlocksSpendUnspent ==
    \A g \in 1..m_best_height :
        /\ Inputs(blocks[g]) \subseteq uhsAt[g - 1]
        /\ \A t, u \in blocks[g] : t # u => ~Conflict(t, u)

PendingIsNew == \A g \in 1..m_best_height : m_complete_txs \cap blocks[g] = {}

IInv ==
    /\ AtomizerTypeOK
    /\ CacheMatchesBlocks
    /\ AttestationsTrue
    /\ LeavesWhenSpent
    /\ SpentIsGone
    /\ Created
    /\ BlocksSpendUnspent
    /\ PendingUnspent
    /\ PendingIsNew

-----------------------------------------------------------------------------
\* Membership in the inputs and outputs of a set of transactions.
LEMMA InputsOf ==
    ASSUME NEW S, NEW id
    PROVE  id \in Inputs(S) <=> \E t \in S : id \in m_inputs[t]
BY Zenon DEF Inputs

\* The same of the outputs (Outputs).
LEMMA OutputsOf ==
    ASSUME NEW S, NEW id
    PROVE  id \in Outputs(S) <=> \E t \in S : id \in m_uhs_outputs[t]
BY Zenon DEF Outputs

\* Inputs of transactions are UHS IDs (Inputs).
LEMMA InputsTyped ==
    ASSUME NEW S, S \subseteq Tx
    PROVE  Inputs(S) \subseteq UhsId /\ Outputs(S) \subseteq UhsId
BY Zenon, InputsOf, OutputsOf, TransactionsAssumption


(***************************************************************************)
(* What check_stxo_cache establishes.  If none of t's inputs is spent at   *)
(* the offsets up to r, and each was unspent after some block not more     *)
(* than r blocks ago, then all of them are unspent after the last block    *)
(* and none is an input of the block being built.                          *)
(***************************************************************************)
LEMMA CacheDecides ==
    ASSUME IInv, NEW t \in Tx, NEW R \in SUBSET Nat, 0 \in R,
           check_stxo_cache(t, R) = {},
           \A id \in m_inputs[t] : \E g \in 0..m_best_height :
                id \in uhsAt[g]
                /\ \A k \in 0..(m_best_height - g) : k \in R \cap Offset
    PROVE  /\ m_inputs[t] \subseteq uhsAt[m_best_height]
           /\ \A u \in m_complete_txs : ~Conflict(t, u)
<1> USE AtomizerAssumption DEF IInv, AtomizerTypeOK
<1>1. \A id \in m_inputs[t], k \in R \cap Offset : id \notin m_spent[k]
  BY Zenon DEF check_stxo_cache
<1>2. \A u \in m_complete_txs : ~Conflict(t, u)
  BY <1>1, InputsOf DEF CacheMatchesBlocks, Conflict, Offset
<1>3. ASSUME NEW id \in m_inputs[t]
      PROVE  id \in uhsAt[m_best_height]
  <2>1. PICK g \in 0..m_best_height :
            id \in uhsAt[g]
            /\ \A k \in 0..(m_best_height - g) : k \in R \cap Offset
    BY Zenon
  <2>2. \A j \in (g + 1)..m_best_height : id \notin Inputs(blocks[j])
    <3> SUFFICES ASSUME NEW j \in (g + 1)..m_best_height,
                        id \in Inputs(blocks[j])
                 PROVE  FALSE
      BY Zenon
    <3> DEFINE k == m_best_height + 1 - j
    <3>1. k \in 0..(m_best_height - g) /\ k > 0 /\ k <= m_best_height
      BY <2>1
    <3>2. k \in R \cap Offset
      BY Zenon, <2>1, <3>1
    <3>3. m_spent[k] = Inputs(blocks[m_best_height + 1 - k])
      BY Zenon, <3>1, <3>2 DEF CacheMatchesBlocks
    <3>4. m_best_height + 1 - k = j
      BY <2>1
    <3> QED BY Zenon, <3>2, <3>3, <3>4, <1>1
  <2> QED BY <2>1, <2>2 DEF LeavesWhenSpent
<1> QED BY Zenon, <1>2, <1>3

\* A transaction that has inputs and is in a block cannot be accepted again:
\* its inputs left the UHS with that block.
LEMMA SettlesOnce ==
    ASSUME IInv, NEW t \in Tx, m_inputs[t] \subseteq uhsAt[m_best_height],
           MayMint(t)
    PROVE  \A g \in 1..m_best_height : t \notin blocks[g]
<1> SUFFICES ASSUME NEW g \in 1..m_best_height, t \in blocks[g] PROVE FALSE
  BY Zenon
<1>1. CASE m_inputs[t] = {}
  BY Zenon, <1>1 DEF MayMint, InSomeBlock, IInv, AtomizerTypeOK
<1>2. CASE m_inputs[t] # {}
  <2>1. PICK id \in m_inputs[t] : TRUE
    BY Zenon, <1>2
  <2>2. id \in Inputs(blocks[g])
    BY Zenon, InputsOf
  <2>3. m_best_height \in g..m_best_height
    BY DEF IInv, AtomizerTypeOK
  <2> QED BY Zenon, <2>2, <2>3 DEF IInv, SpentIsGone
<1> QED BY Zenon, <1>1, <1>2

-----------------------------------------------------------------------------
\* Accepting a transaction keeps the invariant.
LEMMA AcceptStep ==
    ASSUME IInv, NEW t \in Attested,
           UNCHANGED <<m_best_height, blocks, uhsAt>>,
           m_spent' = add_tx_to_stxo_cache(t),
           m_complete_txs' = m_complete_txs \cup {t},
           m_inputs[t] \subseteq uhsAt[m_best_height],
           \A u \in m_complete_txs : ~Conflict(t, u),
           MayMint(t),
           m_txs' \in [Offset -> [Tx -> SUBSET UhsId]],
           m_errs' = {},
           AttestationsTrue'
    PROVE  IInv'
<1> USE TransactionsAssumption, AtomizerAssumption DEF IInv
<1>0. t \in Tx
  BY Zenon
<1>1. AtomizerTypeOK'
  BY Zenon, <1>0 DEF AtomizerTypeOK, add_tx_to_stxo_cache, Offset
<1>2. CacheMatchesBlocks'
  <2>1. Inputs(m_complete_txs') = Inputs(m_complete_txs) \cup m_inputs[t]
    BY Zenon DEF Inputs
  <2>2. m_spent'[0] = m_spent[0] \cup m_inputs[t]
    BY DEF add_tx_to_stxo_cache, AtomizerTypeOK, Offset
  <2>3. \A k \in Offset : k > 0 => m_spent'[k] = m_spent[k]
    BY DEF add_tx_to_stxo_cache, AtomizerTypeOK, Offset
  <2>4. \A k \in Offset : Inputs(blocks[m_best_height + 1 - k])'
                          = Inputs(blocks[m_best_height + 1 - k])
    BY Zenon DEF Inputs
  <2> QED BY Zenon, <2>1, <2>2, <2>3, <2>4 DEF CacheMatchesBlocks
<1>3. LeavesWhenSpent' /\ SpentIsGone' /\ Created' /\ BlocksSpendUnspent'
  BY DEF LeavesWhenSpent, SpentIsGone, Created, BlocksSpendUnspent, Inputs,
         Outputs
<1>4. PendingUnspent'
  <2>1. Inputs(m_complete_txs') = Inputs(m_complete_txs) \cup m_inputs[t]
    BY Zenon DEF Inputs
  <2> QED BY Zenon, <2>1 DEF PendingUnspent, Conflict
<1>5. PendingIsNew'
  BY Zenon, SettlesOnce, <1>0 DEF PendingIsNew
<1> QED BY Zenon, <1>1, <1>2, <1>3, <1>4, <1>5

\* What check_stxo_cache finds are UHS IDs.
LEMMA CachedTyped ==
    ASSUME NEW t \in Tx, NEW R
    PROVE  check_stxo_cache(t, R) \in SUBSET UhsId
BY Zenon, TransactionsAssumption DEF check_stxo_cache

\* The errors that insert and insert_complete report (Report).
LEMMA ReportTyped ==
    ASSUME NEW t \in Tx, NEW ids \in SUBSET UhsId,
           NEW err \in {"stxo_range", "inputs_spent", "incomplete"},
           Report(t, err, ids)
    PROVE  m_errs' \subseteq tx_error
BY DEF Report, tx_error

\* A step that leaves the caches and the history alone keeps the invariant.
LEMMA QuietStep ==
    ASSUME IInv,
           UNCHANGED <<m_best_height, blocks, uhsAt, m_complete_txs, m_spent>>,
           m_txs' \in [Offset -> [Tx -> SUBSET UhsId]],
           m_errs' \subseteq tx_error,
           AttestationsTrue'
    PROVE  IInv'
<1> USE DEF IInv
<1>1. AtomizerTypeOK'
  BY Zenon DEF AtomizerTypeOK
<1>2. CacheMatchesBlocks' /\ PendingUnspent' /\ PendingIsNew'
  BY Zenon DEF CacheMatchesBlocks, PendingUnspent, PendingIsNew, Inputs
<1>3. LeavesWhenSpent' /\ SpentIsGone'
  BY Zenon DEF LeavesWhenSpent, SpentIsGone, Inputs
<1>4. Created' /\ BlocksSpendUnspent'
  BY Zenon DEF Created, BlocksSpendUnspent, Inputs, Outputs
<1> QED BY Zenon, <1>1, <1>2, <1>3, <1>4

\* Attestations that stay as they are stay true while no block is made.
LEMMA SameAttestations ==
    ASSUME AttestationsTrue, UNCHANGED <<m_best_height, m_txs, uhsAt>>
    PROVE  AttestationsTrue'
BY Zenon DEF AttestationsTrue

\* insert_complete, called with true attestations, keeps the invariant.
LEMMA InsertCompleteStep ==
    ASSUME IInv, NEW t \in Attested, NEW h \in 0..m_best_height,
           AttestedSince(h, t), insert_complete(h, t)
    PROVE  IInv'
<1> USE TransactionsAssumption, AtomizerAssumption
<1>0. t \in Tx /\ m_best_height \in Nat /\ h \in Nat
  BY DEF IInv, AtomizerTypeOK
<1>1. UNCHANGED <<m_best_height, m_txs, blocks, uhsAt>>
  BY Zenon DEF insert_complete
<1>2. AttestationsTrue' /\ m_txs' \in [Offset -> [Tx -> SUBSET UhsId]]
  BY Zenon, <1>1, SameAttestations DEF IInv, AtomizerTypeOK
<1>3. CASE /\ m_errs' \subseteq tx_error
           /\ UNCHANGED <<m_complete_txs, m_spent>>
  BY Zenon, <1>1, <1>2, <1>3, QuietStep
<1>4. CASE /\ InRange(h, t)
           /\ check_stxo_cache(t, 0..(m_best_height - h)) = {}
           /\ m_spent' = add_tx_to_stxo_cache(t)
           /\ m_complete_txs' = m_complete_txs \cup {t}
           /\ ReportNothing
  <2> DEFINE R == 0..(m_best_height - h)
  <2>1. R \in SUBSET Nat /\ 0 \in R
    BY <1>0
  <2>2. \A id \in m_inputs[t] : \E g \in 0..m_best_height :
            id \in uhsAt[g]
            /\ \A k \in 0..(m_best_height - g) : k \in R \cap Offset
    <3> SUFFICES ASSUME NEW id \in m_inputs[t]
                 PROVE  \E g \in 0..m_best_height :
                            id \in uhsAt[g]
                            /\ \A k \in 0..(m_best_height - g) :
                                    k \in R \cap Offset
      BY Zenon
    <3>1. PICK g \in h..m_best_height : id \in uhsAt[g]
      BY Zenon DEF AttestedSince
    <3>2. m_best_height - h <= m_spent_cache_depth
      BY Zenon, <1>4 DEF InRange
    <3>3. \A k \in 0..(m_best_height - g) : k \in R \cap Offset
      BY <1>0, <3>1, <3>2 DEF Offset
    <3> QED BY <1>0, <3>1, <3>3
  <2>3. check_stxo_cache(t, R) = {}
    BY Zenon, <1>4
  <2>4. /\ m_inputs[t] \subseteq uhsAt[m_best_height]
        /\ \A u \in m_complete_txs : ~Conflict(t, u)
    <3> HIDE DEF R
    <3> QED BY Zenon, <1>0, <2>1, <2>2, <2>3, CacheDecides
  <2> QED BY Zenon, <1>1, <1>2, <1>4, <2>4, AcceptStep DEF AttestedSince, ReportNothing
<1>5. Report(t, "stxo_range", {})
        \/ Report(t, "inputs_spent", check_stxo_cache(t, 0..(m_best_height - h)))
        => m_errs' \subseteq tx_error
  BY Zenon, <1>0, ReportTyped, CachedTyped
<1> QED BY Zenon, <1>3, <1>4, <1>5 DEF insert_complete

\* What insert leaves in m_txs is well typed and true.
LEMMA InsertedTrue ==
    ASSUME IInv, NEW t \in Tx, NEW h \in 0..m_best_height,
           NEW ids \in SUBSET (m_inputs[t] \cap uhsAt[h]),
           UNCHANGED <<m_best_height, uhsAt>>,
           \/ m_txs' = WithAttestations(t, Attestations(h, t, ids))
           \/ m_txs' = WithAttestations(t, NoAttestations)
    PROVE  AttestationsTrue' /\ m_txs' \in [Offset -> [Tx -> SUBSET UhsId]]
<1> USE TransactionsAssumption, AtomizerAssumption
        DEF IInv, AtomizerTypeOK
<1>1. \A k \in Offset, u \in Tx :
        m_txs'[k][u] = m_txs[k][u] \/ m_txs'[k][u] = {}
        \/ /\ u = t
           /\ k = m_best_height - h
           /\ m_txs'[k][u] = m_txs[k][t] \cup ids
  BY DEF WithAttestations, Attestations, NoAttestations
<1>2. m_txs' \in [Offset -> [Tx -> SUBSET UhsId]]
  <2>1. \A k \in Offset, u \in Tx : m_txs'[k][u] \in SUBSET UhsId
    BY <1>1
  <2>2. /\ DOMAIN m_txs' = Offset
        /\ m_txs' = [k \in Offset |-> m_txs'[k]]
        /\ \A k \in Offset : m_txs'[k] = [u \in Tx |-> m_txs'[k][u]]
    BY Zenon DEF WithAttestations
  <2> QED BY <2>1, <2>2
<1>3. ASSUME NEW k \in Offset, NEW u \in Tx
      PROVE  /\ m_txs'[k][u] \subseteq m_inputs[u]
             /\ m_txs'[k][u] # {} =>
                    /\ k <= m_best_height
                    /\ m_txs'[k][u] \subseteq uhsAt[m_best_height - k]
  <2>1. CASE m_txs'[k][u] = m_txs[k][u] \/ m_txs'[k][u] = {}
    BY Zenon, <2>1 DEF AttestationsTrue
  <2>2. CASE /\ u = t
             /\ k = m_best_height - h
             /\ m_txs'[k][u] = m_txs[k][t] \cup ids
    <3>1. m_best_height - k = h /\ k <= m_best_height
      BY <2>2
    <3> QED BY Zenon, <2>2, <3>1 DEF AttestationsTrue
  <2> QED BY Zenon, <1>1, <2>1, <2>2
<1> QED BY Zenon, <1>2, <1>3 DEF AttestationsTrue

\* insert, called with true attestations, keeps the invariant.
LEMMA InsertStep ==
    ASSUME IInv, NEW t \in Attested, NEW h \in 0..m_best_height,
           NEW ids \in SUBSET (m_inputs[t] \cap uhsAt[h]), ids # {},
           insert(h, t, ids)
    PROVE  IInv'
<1> USE TransactionsAssumption, AtomizerAssumption
<1> DEFINE atts == Attestations(h, t, ids)
           R == UpToOldest(atts)
<1>0. t \in Tx /\ m_best_height \in Nat /\ h \in Nat
  BY DEF IInv, AtomizerTypeOK
<1>1. UNCHANGED <<m_best_height, blocks, uhsAt>>
  BY Zenon DEF insert
<1>2. CASE /\ m_errs' \subseteq tx_error
           /\ UNCHANGED <<m_complete_txs, m_spent>>
           /\ m_txs' = m_txs \/ m_txs' = WithAttestations(t, atts)
  <2>1. AttestationsTrue' /\ m_txs' \in [Offset -> [Tx -> SUBSET UhsId]]
    BY Zenon, <1>0, <1>1, <1>2, InsertedTrue, SameAttestations
       DEF IInv, AtomizerTypeOK
  <2> QED BY Zenon, <1>1, <1>2, <2>1, QuietStep
<1>3. CASE /\ total_attestations(atts) = m_inputs[t]
           /\ check_stxo_cache(t, R) = {}
           /\ InRange(h, t)
           /\ m_txs' = WithAttestations(t, NoAttestations)
           /\ m_spent' = add_tx_to_stxo_cache(t)
           /\ m_complete_txs' = m_complete_txs \cup {t}
           /\ ReportNothing
  <2>1. AttestationsTrue' /\ m_txs' \in [Offset -> [Tx -> SUBSET UhsId]]
    BY Zenon, <1>0, <1>1, <1>3, InsertedTrue
  <2>2. m_inputs[t] # {}
    BY Zenon
  <2>3. MayMint(t)
    BY Zenon, <2>2 DEF MayMint
  <2>4. \A k \in Offset : atts[k] # {} =>
            k <= m_best_height /\ atts[k] \subseteq uhsAt[m_best_height - k]
    <3> SUFFICES ASSUME NEW k \in Offset, atts[k] # {}
                 PROVE  k <= m_best_height
                        /\ atts[k] \subseteq uhsAt[m_best_height - k]
      BY Zenon
    <3>1. CASE k = m_best_height - h
      <4>1. m_best_height - k = h /\ k <= m_best_height
        BY <1>0, <3>1
      <4>2. atts[k] = m_txs[k][t] \cup ids
        BY Zenon, <3>1 DEF Attestations
      <4> QED BY Zenon, <1>0, <4>1, <4>2 DEF IInv, AttestationsTrue
    <3>2. CASE k # m_best_height - h
      BY Zenon, <1>0, <3>2 DEF Attestations, IInv, AttestationsTrue
    <3> QED BY Zenon, <3>1, <3>2
  <2>5. R \in SUBSET Nat
    BY DEF UpToOldest, Offset
  <2>6. \E k \in Offset : atts[k] # {}
    BY Zenon, <1>3, <2>2 DEF total_attestations
  <2>7. 0 \in R
    BY <2>6 DEF UpToOldest, Offset
  <2>8. \A id \in m_inputs[t] : \E g \in 0..m_best_height :
            id \in uhsAt[g]
            /\ \A k \in 0..(m_best_height - g) : k \in R \cap Offset
    <3> SUFFICES ASSUME NEW id \in m_inputs[t]
                 PROVE  \E g \in 0..m_best_height :
                            id \in uhsAt[g]
                            /\ \A k \in 0..(m_best_height - g) :
                                    k \in R \cap Offset
      BY Zenon
    <3>1. PICK j \in Offset : id \in atts[j]
      BY Zenon, <1>3 DEF total_attestations
    <3>2. j <= m_best_height /\ id \in uhsAt[m_best_height - j]
      BY Zenon, <2>4, <3>1
    <3>3. \A k \in 0..j : k \in R \cap Offset
      <4> HIDE DEF atts
      <4> QED BY <3>1 DEF UpToOldest, Offset
    <3>4. /\ m_best_height - j \in 0..m_best_height
          /\ m_best_height - (m_best_height - j) = j
      BY <1>0, <3>2 DEF Offset
    <3> QED BY Zenon, <3>2, <3>3, <3>4
  <2>9. /\ m_inputs[t] \subseteq uhsAt[m_best_height]
        /\ \A u \in m_complete_txs : ~Conflict(t, u)
    <3>1. check_stxo_cache(t, R) = {}
      BY Zenon, <1>3
    <3> HIDE DEF R
    <3> QED BY Zenon, <1>0, <2>5, <2>7, <2>8, <3>1, CacheDecides
  <2> QED BY Zenon, <1>1, <1>3, <2>1, <2>3, <2>9, AcceptStep DEF ReportNothing
<1>4. ReportNothing \/ Report(t, "stxo_range", {})
        \/ Report(t, "inputs_spent", check_stxo_cache(t, R))
        => m_errs' \subseteq tx_error
  <2> HIDE DEF R
  <2> QED BY Zenon, <1>0, ReportTyped, CachedTyped DEF ReportNothing
<1> QED BY Zenon, <1>2, <1>3, <1>4 DEF insert

-----------------------------------------------------------------------------
\* The inputs and the UHS of the blocks made before are not changed by
\* make_block, and the new ones are those of the block that was built.
LEMMA MakeBlockHistory ==
    ASSUME IInv, make_block
    PROVE  /\ m_best_height' = m_best_height + 1
           /\ \A g \in 1..m_best_height : blocks'[g] = blocks[g]
           /\ blocks'[m_best_height + 1] = m_complete_txs
           /\ \A g \in 0..m_best_height : uhsAt'[g] = uhsAt[g]
           /\ uhsAt'[m_best_height + 1]
                = (uhsAt[m_best_height] \cup Outputs(m_complete_txs))
                    \ Inputs(m_complete_txs)
BY DEF make_block, IInv, AtomizerTypeOK

\* What the block creates was not spent before: the transaction would have
\* settled before.
LEMMA NewOutputsUnspent ==
    ASSUME IInv, NEW id \in Outputs(m_complete_txs), NEW g \in 1..m_best_height
    PROVE  id \notin Inputs(blocks[g])
<1> SUFFICES ASSUME id \in Inputs(blocks[g]) PROVE FALSE
  BY Zenon
<1> USE TransactionsAssumption DEF IInv, AtomizerTypeOK
<1>1. PICK t \in m_complete_txs : id \in m_uhs_outputs[t]
  BY Zenon, OutputsOf
<1>2. id \in uhsAt[g - 1] /\ g - 1 \in 0..m_best_height
  BY DEF BlocksSpendUnspent
<1>3. id \notin Seed
  BY Zenon, <1>1, OutputsAreFresh
<1>4. PICK j \in 1..(g - 1) : id \in Outputs(blocks[j])
  BY Zenon, <1>2, <1>3 DEF Created
<1>5. j \in 1..m_best_height
  BY <1>4
<1>6. PICK u \in blocks[j] : id \in m_uhs_outputs[u]
  BY Zenon, <1>4, OutputsOf
<1>7. t = u
  BY Zenon, <1>1, <1>5, <1>6, OutputsAreFresh
<1> QED BY Zenon, <1>5, <1>6, <1>7 DEF PendingIsNew

\* make_block keeps the invariant.
LEMMA MakeBlockStep ==
    ASSUME IInv, make_block
    PROVE  IInv'
<1> USE TransactionsAssumption, AtomizerAssumption DEF IInv
<1> DEFINE H == m_best_height + 1
           P == m_complete_txs
<1>0. m_best_height \in Nat /\ P \subseteq Tx
  BY Zenon DEF AtomizerTypeOK
<1>1. /\ m_best_height' = H
      /\ \A g \in 1..m_best_height : blocks'[g] = blocks[g]
      /\ blocks'[H] = P
      /\ \A g \in 0..m_best_height : uhsAt'[g] = uhsAt[g]
      /\ uhsAt'[H] = (uhsAt[m_best_height] \cup Outputs(P)) \ Inputs(P)
  BY Zenon, MakeBlockHistory
<1>2. m_complete_txs' = {} /\ Inputs({}) = {}
  BY Zenon DEF make_block, Inputs
<1>3. AtomizerTypeOK'
  <2>1. Inputs(P) \subseteq UhsId /\ Outputs(P) \subseteq UhsId
    BY Zenon, <1>0, InputsTyped
  <2>2. Evicted \subseteq Tx
    BY Zenon DEF Evicted
  <2>3. m_spent' \in [Offset -> SUBSET UhsId]
    BY DEF make_block, Rotated, Offset, AtomizerTypeOK
  <2>4. m_txs' \in [Offset -> [Tx -> SUBSET UhsId]]
    BY DEF make_block, Rotated, Offset, AtomizerTypeOK
  <2>5. m_errs' \subseteq tx_error
    BY <2>2 DEF make_block, tx_error
  <2>6. blocks' \in [1..H -> SUBSET Attested]
    BY <1>0 DEF make_block, AtomizerTypeOK
  <2>7. uhsAt' \in [0..H -> SUBSET UhsId]
    <3>1. uhsAt[m_best_height] \subseteq UhsId
      BY <1>0 DEF AtomizerTypeOK
    <3> QED BY <1>0, <2>1, <3>1 DEF make_block, AtomizerTypeOK
  <2> QED BY <1>0, <1>1, <1>2, <2>3, <2>4, <2>5, <2>6, <2>7 DEF AtomizerTypeOK
<1>4. CacheMatchesBlocks'
  <2>1. m_spent'[0] = {} /\ \A k \in Offset : k > 0 => m_spent'[k] = m_spent[k - 1]
    BY DEF make_block, Rotated, Offset
  <2>2. ASSUME NEW k \in Offset, k > 0, k <= H
        PROVE  m_spent'[k] = Inputs(blocks'[H + 1 - k])
    <3>1. CASE k = 1
      BY <1>0, <1>1, <2>1, <2>2, <3>1 DEF CacheMatchesBlocks
    <3>2. CASE k > 1
      <4>1. k - 1 \in Offset /\ k - 1 > 0 /\ k - 1 <= m_best_height
        BY <1>0, <2>2, <3>2 DEF Offset
      <4>2. m_spent[k - 1] = Inputs(blocks[m_best_height + 1 - (k - 1)])
        BY Zenon, <4>1 DEF CacheMatchesBlocks
      <4>3. /\ m_best_height + 1 - (k - 1) = H + 1 - k
            /\ H + 1 - k \in 1..m_best_height
        BY <1>0, <4>1 DEF Offset
      <4> QED BY Zenon, <1>1, <2>1, <2>2, <4>2, <4>3
    <3> QED BY <2>2, <3>1, <3>2 DEF Offset
  <2> QED BY Zenon, <1>1, <1>2, <2>1, <2>2 DEF CacheMatchesBlocks
<1>5. AttestationsTrue'
  <2>1. \A t \in Tx : m_txs'[0][t] = {}
    BY DEF make_block, Rotated, Offset
  <2>2. \A k \in Offset : k > 0 => m_txs'[k] = m_txs[k - 1]
    BY DEF make_block, Rotated, Offset
  <2>3. ASSUME NEW k \in Offset, NEW t \in Tx, k > 0
        PROVE  /\ m_txs'[k][t] \subseteq m_inputs[t]
               /\ m_txs'[k][t] # {} =>
                    /\ k <= H
                    /\ m_txs'[k][t] \subseteq uhsAt'[H - k]
    <3>1. k - 1 \in Offset
      BY <2>3 DEF Offset
    <3>2. m_txs[k - 1][t] # {} => k - 1 <= m_best_height
      BY Zenon, <3>1 DEF AttestationsTrue
    <3>3. k - 1 <= m_best_height =>
            m_best_height - (k - 1) = H - k /\ H - k \in 0..m_best_height
      BY <1>0, <2>3 DEF Offset
    <3> QED BY <1>0, <1>1, <2>2, <2>3, <3>1, <3>2, <3>3
            DEF AttestationsTrue, Offset
  <2> QED BY <1>1, <2>1, <2>3 DEF AttestationsTrue, Offset
<1>6. LeavesWhenSpent'
  <2> SUFFICES ASSUME NEW g \in 0..H, NEW h \in g..H, NEW id \in uhsAt'[g],
                      id \notin uhsAt'[h]
               PROVE  \E j \in (g + 1)..h : id \in Inputs(blocks'[j])
    BY <1>1 DEF LeavesWhenSpent, Inputs
  <2>1. CASE h <= m_best_height
    <3>1. PICK j \in (g + 1)..h : id \in Inputs(blocks[j])
      BY <1>0, <1>1, <2>1 DEF LeavesWhenSpent
    <3> QED BY <1>0, <1>1, <2>1, <3>1
  <2>2. CASE h = H /\ g <= m_best_height
    <3>1. CASE id \in uhsAt[m_best_height]
      <4>1. id \in Inputs(P)
        BY Zenon, <1>1, <2>2, <3>1
      <4>2. H \in (g + 1)..h
        BY <1>0, <2>2
      <4> QED BY Zenon, <1>1, <4>1, <4>2
    <3>2. CASE id \notin uhsAt[m_best_height]
      <4>1. g \in 0..m_best_height /\ m_best_height \in g..m_best_height
        BY <1>0, <2>2
      <4>2. id \in uhsAt[g]
        BY Zenon, <1>1, <4>1
      <4>3. PICK j \in (g + 1)..m_best_height : id \in Inputs(blocks[j])
        BY Zenon, <3>2, <4>1, <4>2 DEF LeavesWhenSpent
      <4> QED BY <1>0, <1>1, <2>2, <4>3
    <3> QED BY Zenon, <3>1, <3>2
  <2>3. CASE h = H /\ g = H
    BY Zenon, <2>3
  <2> QED BY <1>0, <2>1, <2>2, <2>3
<1>7. SpentIsGone'
  <2> SUFFICES ASSUME NEW g \in 1..H, NEW h \in g..H
               PROVE  Inputs(blocks'[g]) \cap uhsAt'[h] = {}
    BY Zenon, <1>1 DEF SpentIsGone, Inputs
  <2>1. CASE h <= m_best_height
    BY <1>0, <1>1, <2>1 DEF SpentIsGone
  <2>2. CASE h = H /\ g <= m_best_height
    <3>1. g \in 1..m_best_height /\ m_best_height \in g..m_best_height
      BY <1>0, <2>2
    <3>2. Inputs(blocks[g]) \cap uhsAt[m_best_height] = {}
      BY Zenon, <3>1 DEF SpentIsGone
    <3>3. Inputs(blocks[g]) \cap Outputs(P) = {}
      BY Zenon, <3>1, NewOutputsUnspent
    <3> QED BY Zenon, <1>1, <2>2, <3>1, <3>2, <3>3
  <2>3. CASE h = H /\ g = H
    BY Zenon, <1>1, <2>3
  <2> QED BY <1>0, <2>1, <2>2, <2>3
<1>8. Created'
  <2> SUFFICES ASSUME NEW h \in 0..H, NEW id \in uhsAt'[h], id \notin Seed
               PROVE  \E g \in 1..h : id \in Outputs(blocks'[g])
    BY Zenon, <1>1 DEF Created, Outputs
  <2>1. CASE h <= m_best_height
    <3>1. PICK g \in 1..h : id \in Outputs(blocks[g])
      BY <1>0, <1>1, <2>1 DEF Created
    <3> QED BY <1>0, <1>1, <2>1, <3>1
  <2>2. CASE h = H /\ id \in uhsAt[m_best_height]
    <3>1. PICK g \in 1..m_best_height : id \in Outputs(blocks[g])
      BY <1>0, <2>2 DEF Created
    <3> QED BY <1>0, <1>1, <2>2, <3>1
  <2>3. CASE h = H /\ id \in Outputs(P)
    BY <1>0, <1>1, <2>3
  <2> QED BY <1>0, <1>1, <2>1, <2>2, <2>3
<1>9. BlocksSpendUnspent'
  <2> SUFFICES ASSUME NEW g \in 1..H
               PROVE  /\ Inputs(blocks'[g]) \subseteq uhsAt'[g - 1]
                      /\ \A t, u \in blocks'[g] : t # u => ~Conflict(t, u)
    BY Zenon, <1>1 DEF BlocksSpendUnspent, Inputs, Conflict
  <2>1. CASE g <= m_best_height
    BY <1>0, <1>1, <2>1 DEF BlocksSpendUnspent
  <2>2. CASE g = H
    BY <1>0, <1>1, <2>2 DEF PendingUnspent
  <2> QED BY <1>0, <2>1, <2>2
<1>10. PendingUnspent' /\ PendingIsNew'
  BY Zenon, <1>2 DEF PendingUnspent, PendingIsNew
<1> QED BY Zenon, <1>3, <1>4, <1>5, <1>6, <1>7, <1>8, <1>9, <1>10

-----------------------------------------------------------------------------
\* The constructor establishes the invariant.
LEMMA AtomizerInitHolds == AtomizerInit => IInv
<1> SUFFICES ASSUME AtomizerInit PROVE IInv
  BY Zenon
<1> USE TransactionsAssumption, AtomizerAssumption DEF AtomizerInit
<1>1. AtomizerTypeOK
  BY DEF AtomizerTypeOK, Offset
<1>2. Inputs({}) = {} /\ CacheMatchesBlocks
  BY DEF Inputs, CacheMatchesBlocks, Offset
<1>3. AttestationsTrue
  BY Zenon DEF AttestationsTrue
<1>4. LeavesWhenSpent /\ SpentIsGone /\ Created /\ BlocksSpendUnspent
  BY DEF LeavesWhenSpent, SpentIsGone, Created, BlocksSpendUnspent
<1>5. PendingUnspent /\ PendingIsNew
  BY Zenon, <1>2 DEF PendingUnspent, PendingIsNew
<1> QED BY Zenon, <1>1, <1>2, <1>3, <1>4, <1>5 DEF IInv

\* Every step of the atomizer keeps the invariant.
LEMMA AtomizerStepPreserves ==
    IInv /\ [AtomizerNext]_atomizerVars => IInv'
<1> SUFFICES ASSUME IInv, [AtomizerNext]_atomizerVars PROVE IInv'
  BY Zenon
<1>1. CASE InsertComplete
  BY Zenon, <1>1, InsertCompleteStep DEF InsertComplete
<1>2. CASE Insert
  BY Zenon, <1>2, InsertStep DEF Insert
<1>3. CASE make_block
  BY Zenon, <1>3, MakeBlockStep
<1>4. CASE UNCHANGED atomizerVars
  <2>1. AttestationsTrue'
    BY Zenon, <1>4, SameAttestations DEF IInv, atomizerVars
  <2> QED BY Zenon, <1>4, <2>1, QuietStep DEF IInv, AtomizerTypeOK, atomizerVars
<1> QED BY Zenon, <1>1, <1>2, <1>3, <1>4 DEF AtomizerNext

(***************************************************************************)
(* No UHS ID is ever spent by two transactions, whatever the depth of the  *)
(* spent cache, the number of blocks and the age of the attestations       *)
(* (atomizer::insert, insert_complete, make_block).                        *)
(***************************************************************************)
THEOREM BlocksNeverDoubleSpend == AtomizerSpec => []NoBlockDoubleSpend
<1>1. IInv => NoBlockDoubleSpend
  <2> SUFFICES ASSUME IInv, NEW g \in 1..m_best_height,
                      NEW h \in 1..m_best_height,
                      NEW t \in blocks[g], NEW u \in blocks[h]
               PROVE  /\ m_inputs[t] \subseteq uhsAt[g - 1]
                      /\ t # u \/ g # h => ~Conflict(t, u)
    BY Zenon DEF NoBlockDoubleSpend
  <2> USE DEF IInv, AtomizerTypeOK
  <2>1. /\ m_inputs[t] \subseteq Inputs(blocks[g])
        /\ m_inputs[u] \subseteq Inputs(blocks[h])
    BY Zenon, InputsOf
  <2>2. m_inputs[t] \subseteq uhsAt[g - 1] /\ m_inputs[u] \subseteq uhsAt[h - 1]
    BY Zenon, <2>1 DEF BlocksSpendUnspent
  <2>3. CASE g = h
    BY Zenon, <2>2, <2>3 DEF BlocksSpendUnspent
  <2>4. CASE g < h
    <3>1. h - 1 \in g..m_best_height
      BY <2>4
    <3>2. Inputs(blocks[g]) \cap uhsAt[h - 1] = {}
      BY Zenon, <3>1 DEF SpentIsGone
    <3> QED BY Zenon, <2>1, <2>2, <3>2 DEF Conflict
  <2>5. CASE h < g
    <3>1. g - 1 \in h..m_best_height
      BY <2>5
    <3>2. Inputs(blocks[h]) \cap uhsAt[g - 1] = {}
      BY Zenon, <3>1 DEF SpentIsGone
    <3> QED BY Zenon, <2>1, <2>2, <3>2 DEF Conflict
  <2> QED BY <2>3, <2>4, <2>5
<1> QED BY <1>1, AtomizerInitHolds, AtomizerStepPreserves, PTL DEF AtomizerSpec

(***************************************************************************)
(* What the atomizer has accepted for the next block can always settle:    *)
(* its inputs are unspent and no two of its transactions conflict.         *)
(***************************************************************************)
THEOREM PendingCanSettle == AtomizerSpec => []PendingUnspent
<1>1. IInv => PendingUnspent
  BY Zenon DEF IInv
<1> QED BY <1>1, AtomizerInitHolds, AtomizerStepPreserves, PTL DEF AtomizerSpec

(***************************************************************************)
(* What check_stxo_cache finds at offsets of blocks that were made is      *)
(* spent: the cache holds the inputs of those blocks.                      *)
(***************************************************************************)
LEMMA CacheIsTrue ==
    ASSUME IInv, NEW t \in Tx, NEW R, NEW id \in check_stxo_cache(t, R),
           \A k \in R \cap Offset : k <= m_best_height
    PROVE  /\ id \in m_inputs[t]
           /\ id \notin uhsAt[m_best_height] \/ id \in Inputs(m_complete_txs)
<1>1. PICK k \in R \cap Offset : id \in m_inputs[t] /\ id \in m_spent[k]
  BY Zenon DEF check_stxo_cache
<1>2. CASE k = 0
  BY Zenon, <1>1, <1>2 DEF IInv, CacheMatchesBlocks
<1>3. CASE k # 0
  <2> DEFINE g == m_best_height + 1 - k
  <2>1. k \in Nat /\ m_best_height \in Nat /\ k <= m_best_height
    BY <1>1 DEF Offset, IInv, AtomizerTypeOK
  <2>2. k > 0 /\ g \in 1..m_best_height /\ m_best_height \in g..m_best_height
    BY <1>3, <2>1
  <2>3. id \in Inputs(blocks[g])
    BY Zenon, <1>1, <2>1, <2>2 DEF IInv, CacheMatchesBlocks
  <2> HIDE DEF g
  <2> QED BY Zenon, <1>1, <2>2, <2>3 DEF IInv, SpentIsGone
<1> QED BY Zenon, <1>2, <1>3

\* A report that is made with nothing else changed is true if what it names
\* was found in the cache (Report).
LEMMA ReportIsTrue ==
    ASSUME IInv, NEW t \in Tx, NEW R, check_stxo_cache(t, R) # {},
           \A k \in R \cap Offset : k <= m_best_height,
           Report(t, "inputs_spent", check_stxo_cache(t, R)),
           UNCHANGED <<m_best_height, m_complete_txs, uhsAt>>
    PROVE  ReportedIsSpent'
<1> DEFINE S == check_stxo_cache(t, R)
<1>1. \A id \in S : /\ id \in m_inputs[t]
                    /\ id \notin uhsAt[m_best_height] \/ id \in Inputs(m_complete_txs)
  BY Zenon, CacheIsTrue
<1>2. Inputs(m_complete_txs)' = Inputs(m_complete_txs)
  BY Zenon DEF Inputs
<1>3. S # {} /\ m_errs' = {<<t, "inputs_spent", S>>}
  BY Zenon DEF Report
<1> HIDE DEF S
<1> SUFFICES ASSUME NEW e \in m_errs'
             PROVE  /\ e[3] # {} /\ e[3] \subseteq m_inputs[e[1]]
                    /\ \A id \in e[3] : \/ id \notin uhsAt'[m_best_height']
                                        \/ id \in Inputs(m_complete_txs)'
  BY Zenon DEF ReportedIsSpent
<1>4. e[1] = t /\ e[3] = S
  BY <1>3
<1> QED BY Zenon, <1>1, <1>2, <1>3, <1>4

\* A step that reports no spent input is true (Report, ReportNothing).
LEMMA OtherReports ==
    ASSUME \A e \in m_errs' : e[2] # "inputs_spent"
    PROVE  ReportedIsSpent'
BY Zenon DEF ReportedIsSpent

\* The offsets that insert looks at are those of blocks that were made
\* (UpToOldest).
LEMMA LooksAtBlocks ==
    ASSUME IInv, NEW t \in Tx, NEW h \in 0..m_best_height, NEW ids
    PROVE  \A k \in UpToOldest(Attestations(h, t, ids)) \cap Offset : k <= m_best_height
<1> DEFINE atts == Attestations(h, t, ids)
<1>0. m_best_height \in Nat
  BY DEF IInv, AtomizerTypeOK
<1> SUFFICES ASSUME NEW k \in UpToOldest(atts), NEW j \in Offset, k <= j, atts[j] # {}
             PROVE  k <= m_best_height
  BY Zenon DEF UpToOldest
<1>1. k \in Nat /\ j \in Nat
  BY DEF UpToOldest, Offset
<1>2. CASE j = m_best_height - h
  BY <1>0, <1>1, <1>2
<1>3. CASE j # m_best_height - h
  <2>1. atts[j] = m_txs[j][t]
    BY Zenon, <1>3 DEF Attestations
  <2>2. j <= m_best_height
    BY Zenon, <2>1 DEF IInv, AttestationsTrue
  <2> QED BY <1>0, <1>1, <2>2
<1> QED BY Zenon, <1>2, <1>3

(***************************************************************************)
(* For every cache depth and any true attestations, however old, an input  *)
(* that the atomizer reports to the watchtower as spent is spent.          *)
(***************************************************************************)
THEOREM RefusalsAreTrue == AtomizerSpec => []ReportedIsSpent
<1>1. AtomizerInit => ReportedIsSpent
  BY Zenon DEF AtomizerInit, ReportedIsSpent
<1>2. ASSUME IInv, ReportedIsSpent, [AtomizerNext]_atomizerVars PROVE ReportedIsSpent'
  <2>0. m_best_height \in Nat
    BY <1>2 DEF IInv, AtomizerTypeOK
  <2>1. CASE make_block
    <3>1. \A e \in m_errs' : e[2] = "incomplete"
      BY <2>1 DEF make_block
    <3> QED BY <3>1, OtherReports
  <2>2. CASE InsertComplete
    <3>1. PICK t \in Attested, h \in 0..m_best_height : insert_complete(h, t)
      BY Zenon, <2>2 DEF InsertComplete
    <3> DEFINE R == 0..(m_best_height - h)
    <3>2. t \in Tx /\ \A k \in R \cap Offset : k <= m_best_height
      BY <2>0, TransactionsAssumption DEF Offset
    <3>3. CASE Report(t, "stxo_range", {}) \/ ReportNothing
      BY <3>3, OtherReports DEF Report, ReportNothing
    <3>4. CASE /\ check_stxo_cache(t, R) # {}
               /\ Report(t, "inputs_spent", check_stxo_cache(t, R))
               /\ UNCHANGED <<m_best_height, m_complete_txs, uhsAt>>
      <4> HIDE DEF R
      <4> QED BY Zenon, <1>2, <3>2, <3>4, ReportIsTrue
    <3> QED BY Zenon, <3>1, <3>3, <3>4 DEF insert_complete
  <2>3. CASE Insert
    <3>1. PICK t \in Attested, h \in 0..m_best_height :
            \E ids \in SUBSET (m_inputs[t] \cap uhsAt[h]) : insert(h, t, ids)
      BY Zenon, <2>3 DEF Insert
    <3>2. PICK ids \in SUBSET (m_inputs[t] \cap uhsAt[h]) : insert(h, t, ids)
      BY Zenon, <3>1
    <3> DEFINE R == UpToOldest(Attestations(h, t, ids))
    <3>3. t \in Tx /\ \A k \in R \cap Offset : k <= m_best_height
      BY Zenon, <1>2, TransactionsAssumption, LooksAtBlocks
    <3>4. CASE Report(t, "stxo_range", {}) \/ ReportNothing
      BY <3>4, OtherReports DEF Report, ReportNothing
    <3>5. CASE /\ check_stxo_cache(t, R) # {}
               /\ Report(t, "inputs_spent", check_stxo_cache(t, R))
               /\ UNCHANGED <<m_best_height, m_complete_txs, uhsAt>>
      <4> HIDE DEF R
      <4> QED BY Zenon, <1>2, <3>3, <3>5, ReportIsTrue
    <3> QED BY Zenon, <3>2, <3>4, <3>5 DEF insert
  <2>4. CASE UNCHANGED atomizerVars
    BY Zenon, <1>2, <2>4 DEF atomizerVars, ReportedIsSpent, Inputs
  <2> QED BY Zenon, <1>2, <2>1, <2>2, <2>3, <2>4 DEF AtomizerNext
<1> QED BY <1>1, <1>2, AtomizerInitHolds, AtomizerStepPreserves, PTL DEF AtomizerSpec

-----------------------------------------------------------------------------
(***************************************************************************)
(* Proofs about the atomizer architecture, for every number of shards and  *)
(* of atomizer nodes, any division of the UHS between the shards, and any  *)
(* loss, repetition and reordering of notifications and change of leader.  *)
(*                                                                         *)
(* SystemSound is not inductive: what the leader replicates is true        *)
(* because what it collected is, which was sent by shards that follow the  *)
(* blocks.  The inductive invariant follows an attestation on its way:     *)
(* the UHS history is the one the blocks produce (HistoryFollows), a       *)
(* notification is true (NoteTrue), so is what a node has merged           *)
(* (AttsTrue) and what it has completed (CompleteTrue).  A mint has no     *)
(* attestation to be judged by: there is one copy of it on the whole way   *)
(* (MintsOnce).                                                            *)
(***************************************************************************)

Note ==
    [m_tx : Attested, m_attestations : SUBSET UhsId,
     m_block_height : 0..MaxHeight]

CompleteTx == [m_tx : Attested, m_oldest_attestation : 0..MaxHeight]

HistoryFollows ==
    \A h \in 1..m_best_height :
        uhsAt[h] = (uhsAt[h - 1] \cup Outputs(blocks[h])) \ Inputs(blocks[h])

\* The inputs a shard attested were unspent at the height it named.
NoteTrue(m) ==
    /\ m \in Note
    /\ m.m_block_height <= m_best_height
    /\ m.m_attestations \subseteq uhsAt[m.m_block_height]

AttsTrue(atts) ==
    /\ atts \in [UhsId -> 0..MaxHeight]
    /\ \A id \in UhsId : atts[id] # 0 =>
            atts[id] <= m_best_height /\ id \in uhsAt[atts[id]]

CompleteTrue(m) ==
    /\ m \in CompleteTx
    /\ m.m_oldest_attestation <= m_best_height
    /\ \A id \in m_inputs[m.m_tx] :
            \E g \in m.m_oldest_attestation..m_best_height : id \in uhsAt[g]

NodesTrue ==
    /\ m_leader \in Node
    /\ notifications \in [Node -> SUBSET Note]
    /\ m_raft_txs \in [Node -> [Tx -> [UhsId -> 0..MaxHeight]]]
    /\ m_raft_complete \in [Node -> SUBSET CompleteTx]
    /\ \A n \in Node :
        /\ \A m \in notifications[n] : NoteTrue(m)
        /\ \A t \in Tx : AttsTrue(m_raft_txs[n][t])
        /\ \A m \in m_raft_complete[n] : CompleteTrue(m)

ShardsTrue ==
    /\ m_best_block_height \in [Shard -> 0..m_best_height]
    /\ m_db \in [Shard -> SUBSET UhsId]
    /\ m_snp \in [Shard -> [m_height : 0..m_best_height, m_ids : SUBSET UhsId]]
    /\ ShardsFollowBlocks

\* A mint is on its way to node n (1) or complete there (2).
MintAt(t, n, k) ==
    \/ k = 1 /\ \E m \in notifications[n] : m.m_tx = t
    \/ k = 2 /\ \E m \in m_raft_complete[n] : m.m_tx = t

Minted(t) == t \in m_complete_txs \/ InSomeBlock(t)

MintOnce(t) ==
    /\ \A n \in Node : \A m \in notifications[n] : m.m_tx = t =>
            m = [m_tx |-> t, m_attestations |-> {}, m_block_height |-> 0]
    /\ \A n \in Node : \A m \in m_raft_complete[n] : m.m_tx = t =>
            m = [m_tx |-> t, m_oldest_attestation |-> 0]
    /\ \A n, o \in Node : \A k, j \in {1, 2} :
            MintAt(t, n, k) /\ MintAt(t, o, j) => n = o /\ k = j
    /\ \A n \in Node : \A k \in {1, 2} : MintAt(t, n, k) => ~Minted(t)

MintsOnce == \A t \in Tx : m_inputs[t] = {} => MintOnce(t)

SystemInv ==
    /\ IInv
    /\ m_best_height <= MaxHeight
    /\ HistoryFollows
    /\ NodesTrue
    /\ ShardsTrue
    /\ MintsOnce
-----------------------------------------------------------------------------
\* Blocks only add to the history: make_block, and any step that leaves the
\* chain alone.
HistoryKept ==
    /\ m_best_height \in Nat /\ m_best_height' \in Nat
    /\ m_best_height <= m_best_height'
    /\ \A g \in 0..m_best_height : uhsAt'[g] = uhsAt[g]

\* What was true of the chain stays true when a block is added: a
\* notification, the attestations merged and a complete transaction.
LEMMA TruthsKept ==
    ASSUME HistoryKept
    PROVE  /\ \A m : NoteTrue(m) => NoteTrue(m)'
           /\ \A atts : AttsTrue(atts) => AttsTrue(atts)'
           /\ \A m : CompleteTrue(m) => CompleteTrue(m)'
<1> USE AtomizerAssumption DEF HistoryKept
<1>1. ASSUME NEW m, NoteTrue(m) PROVE NoteTrue(m)'
  BY <1>1 DEF NoteTrue, Note
<1>2. ASSUME NEW atts, AttsTrue(atts) PROVE AttsTrue(atts)'
  BY <1>2 DEF AttsTrue
<1>3. ASSUME NEW m, CompleteTrue(m) PROVE CompleteTrue(m)'
  <2>1. m.m_oldest_attestation \in Nat
    BY <1>3 DEF CompleteTrue, CompleteTx
  <2>2. ASSUME NEW id \in m_inputs[m.m_tx]
        PROVE  \E g \in m.m_oldest_attestation..m_best_height' : id \in uhsAt'[g]
    <3>1. PICK g \in m.m_oldest_attestation..m_best_height : id \in uhsAt[g]
      BY Zenon, <1>3, <2>2 DEF CompleteTrue
    <3>2. g \in m.m_oldest_attestation..m_best_height' /\ g \in 0..m_best_height
      BY <2>1, <3>1
    <3> QED BY Zenon, <3>1, <3>2
  <2> QED BY <1>3, <2>1, <2>2 DEF CompleteTrue
<1> QED BY Zenon, <1>1, <1>2, <1>3

\* The height of the oldest attestation is that of one of them, and no other
\* is older (atomizer_raft::tx_notify).
LEMMA OldestFacts ==
    ASSUME NEW atts \in [UhsId -> Nat], NEW t \in Tx, m_inputs[t] # {}
    PROVE  /\ \E id \in m_inputs[t] : Oldest(atts, t) = atts[id]
           /\ \A id \in m_inputs[t] : Oldest(atts, t) <= atts[id]
<1> DEFINE T == {atts[id] : id \in m_inputs[t]}
           R == OpToRel(<, Nat)
<1>1. T \subseteq Nat /\ T # {}
  BY Zenon, TransactionsAssumption
<1>2. \A x, y \in Nat : x < y => <<x, y>> \in R
  BY Zenon DEF OpToRel
<1>3. \E h \in T : \A g \in T : h <= g
  <2>1. IsWellFoundedOn(R, Nat)
    BY Zenon, NatLessThanWellFounded
  <2> HIDE DEF T, R
  <2>2. PICK x \in T : \A y \in T : ~(<<y, x>> \in R)
    BY Zenon, <1>1, <2>1, WFMin
  <2>3. ASSUME NEW y \in T PROVE x <= y
    <3>1. x \in Nat /\ y \in Nat
      BY Zenon, <1>1
    <3>2. ~(y < x)
      BY Zenon, <1>2, <2>2, <3>1
    <3> QED BY <3>1, <3>2
  <2> QED BY Zenon, <2>3
<1>4. Oldest(atts, t) = CHOOSE h \in T : \A g \in T : h <= g
  BY Zenon, <1>1 DEF Oldest
<1>5. Oldest(atts, t) \in T /\ \A g \in T : Oldest(atts, t) <= g
  <2> HIDE DEF T
  <2> QED BY Zenon, <1>3, <1>4
<1> QED BY Zenon, <1>5

\* Merging a true notification into true attestations leaves them true
\* (atomizer_raft::tx_notify).
LEMMA MergedTrue ==
    ASSUME IInv, NEW atts, AttsTrue(atts), NEW m, NoteTrue(m)
    PROVE  AttsTrue(Merged(atts, m))
BY Zenon, AtomizerAssumption DEF AttsTrue, NoteTrue, Note, Merged

\* A transaction whose inputs all have true attestations is attested since
\* the oldest of them (atomizer_raft::tx_notify).
LEMMA CompletedTrue ==
    ASSUME IInv, m_best_height <= MaxHeight, NEW t \in Attested,
           NEW atts, AttsTrue(atts), Complete(atts, t)
    PROVE  CompleteTrue([m_tx |-> t, m_oldest_attestation |-> Oldest(atts, t)])
<1> USE TransactionsAssumption, AtomizerAssumption
<1> DEFINE h == Oldest(atts, t)
           m == [m_tx |-> t, m_oldest_attestation |-> h]
<1>0. m_best_height \in Nat /\ t \in Tx
  BY Zenon DEF IInv, AtomizerTypeOK
<1>1. CASE m_inputs[t] = {}
  <2>1. h = 0
    BY Zenon, <1>1 DEF Oldest
  <2> QED BY <1>0, <1>1, <2>1 DEF CompleteTrue, CompleteTx
<1>2. CASE m_inputs[t] # {}
  <2>1. atts \in [UhsId -> Nat]
    BY DEF AttsTrue
  <2>2. /\ \E id \in m_inputs[t] : h = atts[id]
        /\ \A id \in m_inputs[t] : h <= atts[id]
    BY Zenon, <1>0, <1>2, <2>1, OldestFacts
  <2>3. \A id \in m_inputs[t] :
            id \in UhsId /\ atts[id] \in Nat /\ atts[id] <= m_best_height
            /\ id \in uhsAt[atts[id]]
    BY Zenon, <1>0, <2>1 DEF AttsTrue, Complete
  <2>4. h \in Nat /\ h <= m_best_height
    BY Zenon, <1>0, <2>2, <2>3
  <2>5. \A id \in m_inputs[t] : atts[id] \in h..m_best_height
    BY <1>0, <2>2, <2>3, <2>4
  <2>6. h \in 0..MaxHeight
    BY <1>0, <2>4
  <2> HIDE DEF h
  <2>7. CompleteTrue(m)
    BY Zenon, <2>3, <2>4, <2>5, <2>6 DEF CompleteTrue, CompleteTx
  <2> QED BY Zenon, <2>7 DEF h
<1> QED BY Zenon, <1>1, <1>2

-----------------------------------------------------------------------------
\* A step that leaves the atomizer's state machine alone.
LEMMA ChainQuiet ==
    ASSUME SystemInv, UNCHANGED atomizerVars
    PROVE  /\ IInv' /\ m_best_height' <= MaxHeight /\ HistoryFollows'
           /\ HistoryKept
           /\ \A t \in Tx : Minted(t)' => Minted(t)
<1> USE DEF SystemInv
<1>1. IInv'
  BY Zenon, AtomizerStepPreserves
<1>2. HistoryKept /\ m_best_height' <= MaxHeight
  BY DEF HistoryKept, IInv, AtomizerTypeOK, atomizerVars
<1>3. HistoryFollows' /\ \A t \in Tx : Minted(t)' => Minted(t)
  BY Zenon DEF HistoryFollows, atomizerVars, Outputs, Inputs, Minted, InSomeBlock
<1> QED BY Zenon, <1>1, <1>2, <1>3

\* A block (make_block): the history grows by what the block does, and a mint
\* that was in the block being built is in a block.
LEMMA ChainBlock ==
    ASSUME SystemInv, make_block
    PROVE  /\ IInv' /\ m_best_height' <= MaxHeight /\ HistoryFollows'
           /\ HistoryKept
           /\ \A t \in Tx : Minted(t)' => Minted(t)
<1> USE AtomizerAssumption DEF SystemInv
<1>1. IInv'
  BY Zenon, MakeBlockStep
<1>2. /\ m_best_height' = m_best_height + 1
      /\ \A g \in 1..m_best_height : blocks'[g] = blocks[g]
      /\ blocks'[m_best_height + 1] = m_complete_txs
      /\ \A g \in 0..m_best_height : uhsAt'[g] = uhsAt[g]
      /\ uhsAt'[m_best_height + 1]
            = (uhsAt[m_best_height] \cup Outputs(m_complete_txs))
                \ Inputs(m_complete_txs)
  BY Zenon, MakeBlockHistory
<1>3. m_best_height \in Nat
  BY Zenon DEF IInv, AtomizerTypeOK
<1>4. HistoryKept /\ m_best_height' <= MaxHeight
  BY <1>2, <1>3 DEF HistoryKept, make_block
<1>5. HistoryFollows'
  <2> SUFFICES ASSUME NEW h \in 1..m_best_height'
               PROVE  uhsAt'[h] = (uhsAt'[h - 1] \cup Outputs(blocks'[h]))
                                    \ Inputs(blocks'[h])
    BY Zenon DEF HistoryFollows, Outputs, Inputs
  <2>1. CASE h = m_best_height + 1
    <3>1. h - 1 = m_best_height /\ m_best_height \in 0..m_best_height
      BY <1>3, <2>1
    <3> QED BY Zenon, <1>2, <2>1, <3>1
  <2>2. CASE h # m_best_height + 1
    <3>1. h \in 1..m_best_height /\ h - 1 \in 0..m_best_height
          /\ h \in 0..m_best_height
      BY <1>2, <1>3, <2>2
    <3> QED BY Zenon, <1>2, <3>1 DEF HistoryFollows
  <2> QED BY Zenon, <2>1, <2>2
<1>6. ASSUME NEW t \in Tx, Minted(t)' PROVE Minted(t)
  <2>1. InSomeBlock(t)'
    BY Zenon, <1>6 DEF Minted, make_block
  <2>2. DOMAIN blocks' = 1..(m_best_height + 1) /\ DOMAIN blocks = 1..m_best_height
    BY Zenon, <1>3 DEF make_block, IInv, AtomizerTypeOK
  <2>3. PICK h \in 1..(m_best_height + 1) : t \in blocks'[h]
    BY Zenon, <2>1, <2>2 DEF InSomeBlock
  <2>4. CASE h = m_best_height + 1
    BY Zenon, <1>2, <2>3, <2>4 DEF Minted
  <2>5. CASE h # m_best_height + 1
    BY <1>2, <1>3, <2>2, <2>3, <2>5 DEF Minted, InSomeBlock
  <2> QED BY Zenon, <2>4, <2>5
<1> QED BY Zenon, <1>1, <1>4, <1>5, <1>6

\* A complete transaction in the state machine (insert_complete): the history
\* stays, and no other mint enters the block being built.
LEMMA ChainInsert ==
    ASSUME SystemInv, NEW t \in Attested, NEW h \in 0..m_best_height,
           AttestedSince(h, t), insert_complete(h, t)
    PROVE  /\ IInv' /\ m_best_height' <= MaxHeight /\ HistoryFollows'
           /\ HistoryKept
           /\ \A u \in Tx : Minted(u)' => Minted(u) \/ u = t
           /\ AtomizerNext
<1> USE DEF SystemInv
<1>1. IInv'
  BY Zenon, InsertCompleteStep
<1>2. /\ UNCHANGED <<m_best_height, blocks, uhsAt>>
      /\ m_complete_txs' \subseteq m_complete_txs \cup {t}
  BY Zenon DEF insert_complete
<1>3. HistoryKept /\ m_best_height' <= MaxHeight
  BY <1>2 DEF HistoryKept, IInv, AtomizerTypeOK
<1>4. HistoryFollows' /\ \A u \in Tx : Minted(u)' => Minted(u) \/ u = t
  BY Zenon, <1>2 DEF HistoryFollows, Outputs, Inputs, Minted, InSomeBlock
<1>5. AtomizerNext
  BY Zenon DEF AtomizerNext, InsertComplete
<1> QED BY Zenon, <1>1, <1>3, <1>4, <1>5

\* Shards that do nothing still follow the blocks when one is added.
LEMMA ShardsKept ==
    ASSUME ShardsTrue, HistoryKept, UNCHANGED shardVars
    PROVE  ShardsTrue'
BY DEF ShardsTrue, HistoryKept, shardVars, ShardsFollowBlocks

\* What the nodes hold is true after a step if it was true of the chain
\* before it.
LEMMA NodesStep ==
    ASSUME HistoryKept,
           m_leader' \in Node,
           notifications' \in [Node -> SUBSET Note],
           m_raft_txs' \in [Node -> [Tx -> [UhsId -> 0..MaxHeight]]],
           m_raft_complete' \in [Node -> SUBSET CompleteTx],
           \A n \in Node :
                /\ \A m \in notifications'[n] : NoteTrue(m)
                /\ \A t \in Tx : AttsTrue(m_raft_txs'[n][t])
                /\ \A m \in m_raft_complete'[n] : CompleteTrue(m)
    PROVE  NodesTrue'
<1>1. ASSUME NEW n \in Node, NEW t \in Tx PROVE AttsTrue(m_raft_txs[n][t])'
  <2>1. PICK atts : atts = m_raft_txs'[n][t]
    BY Zenon
  <2>2. AttsTrue(atts)
    BY Zenon, <2>1
  <2>3. AttsTrue(atts)'
    BY Zenon, <2>2, TruthsKept
  <2> QED BY Zenon, <2>1, <2>3 DEF AttsTrue
<1>2. ASSUME NEW n \in Node, NEW m \in notifications'[n] PROVE NoteTrue(m)'
  BY Zenon, TruthsKept
<1>3. ASSUME NEW n \in Node, NEW m \in m_raft_complete'[n] PROVE CompleteTrue(m)'
  BY Zenon, TruthsKept
<1> QED BY Zenon, <1>1, <1>2, <1>3 DEF NodesTrue

\* Nodes that do nothing still hold the truth when a block is added.
LEMMA NodesKept ==
    ASSUME NodesTrue, HistoryKept,
           UNCHANGED <<m_leader, notifications, m_raft_txs, m_raft_complete>>
    PROVE  NodesTrue'
BY Zenon, NodesStep DEF NodesTrue

\* A mint of which there are fewer copies, and which has not settled unless
\* none is left.
LEMMA MintKept ==
    ASSUME NEW t, MintOnce(t),
           \A n \in Node :
                /\ \A m \in notifications'[n] :
                        m.m_tx = t => m \in notifications[n]
                /\ \A m \in m_raft_complete'[n] :
                        m.m_tx = t => m \in m_raft_complete[n],
           Minted(t)' => \/ Minted(t)
                         \/ \A n \in Node, k \in {1, 2} : ~MintAt(t, n, k)'
    PROVE  MintOnce(t)'
<1>1. \A n \in Node, k \in {1, 2} : MintAt(t, n, k)' => MintAt(t, n, k)
  BY Zenon DEF MintAt
<1> QED BY <1>1 DEF MintOnce

\* The same of all mints, when the nodes hold no new one.
LEMMA MintsKept ==
    ASSUME MintsOnce,
           \A n \in Node :
                /\ \A m \in notifications'[n] : m_inputs[m.m_tx] = {} =>
                        m \in notifications[n]
                /\ \A m \in m_raft_complete'[n] : m_inputs[m.m_tx] = {} =>
                        m \in m_raft_complete[n],
           \A t \in Tx : Minted(t)' => Minted(t)
    PROVE  MintsOnce'
<1> SUFFICES ASSUME NEW t \in Tx, m_inputs[t] = {} PROVE MintOnce(t)'
  BY Zenon DEF MintsOnce
<1> QED BY Zenon, MintKept DEF MintsOnce

-----------------------------------------------------------------------------
\* What a shard attests is true at its snapshot's height (request_consumer).
LEMMA DigestTrue ==
    ASSUME SystemInv, NEW s \in Shard, NEW t \in Attested,
           NEW m \in digest_transaction(s, t)
    PROVE  NoteTrue(m) /\ m_inputs[m.m_tx] # {}
<1> USE TransactionsAssumption, AtomizerAssumption
<1> DEFINE h == m_snp[s].m_height
           relevant == m_inputs[t] \cap Covers[s]
<1>1. /\ m = [m_tx |-> t, m_attestations |-> relevant, m_block_height |-> h]
      /\ m_inputs[t] # {} /\ relevant \subseteq m_snp[s].m_ids
  BY Zenon DEF digest_transaction
<1>2. h \in 0..m_best_height /\ m_best_height \in Nat /\ m_best_height <= MaxHeight
  BY Zenon DEF SystemInv, ShardsTrue, IInv, AtomizerTypeOK
<1>3. m_snp[s].m_ids \subseteq uhsAt[h] /\ relevant \in SUBSET UhsId
  BY Zenon DEF SystemInv, ShardsTrue, ShardsFollowBlocks
<1>4. h \in 0..MaxHeight
  BY <1>2
<1> HIDE DEF h, relevant
<1> QED BY <1>1, <1>2, <1>3, <1>4 DEF NoteTrue, Note

\* A shard that answers a transaction (request_consumer) keeps the invariant.
LEMMA RequestStep ==
    ASSUME SystemInv, NEW s \in Shard, NEW t \in Tx, request_consumer(s, t)
    PROVE  SystemInv'
<1> DEFINE new == digest_transaction(s, t)
<1>1. /\ notifications' = [notifications EXCEPT ![m_leader] = @ \cup new]
      /\ UNCHANGED <<m_leader, m_raft_txs, m_raft_complete>>
      /\ UNCHANGED atomizerVars /\ UNCHANGED shardVars /\ t \in Attested
  BY Zenon DEF request_consumer
<1>2. /\ IInv' /\ m_best_height' <= MaxHeight /\ HistoryFollows'
      /\ HistoryKept
      /\ \A u \in Tx : Minted(u)' => Minted(u)
  BY Zenon, <1>1, ChainQuiet
<1>3. \A m \in new : NoteTrue(m) /\ m_inputs[m.m_tx] # {}
  BY Zenon, <1>1, DigestTrue
<1> HIDE DEF new
<1>4. ASSUME NEW n \in Node, NEW m \in notifications'[n]
      PROVE  m \in notifications[n] \/ m \in new
  BY Zenon, <1>1, <1>4 DEF SystemInv, NodesTrue
<1>5. NodesTrue'
  <2>1. new \subseteq Note
    BY Zenon, <1>3 DEF NoteTrue
  <2>2. notifications' \in [Node -> SUBSET Note]
    BY Zenon, <1>1, <2>1 DEF SystemInv, NodesTrue
  <2> QED BY Zenon, <1>1, <1>2, <1>3, <1>4, <2>2, NodesStep DEF SystemInv, NodesTrue
<1>6. ShardsTrue'
  BY Zenon, <1>1, <1>2, ShardsKept DEF SystemInv
<1>7. MintsOnce'
  BY Zenon, <1>1, <1>2, <1>3, <1>4, MintsKept DEF SystemInv
<1> QED BY Zenon, <1>2, <1>5, <1>6, <1>7 DEF SystemInv

\* A shard that digests a block holds its part of the UHS after that block.
LEMMA DigestBlockStep ==
    ASSUME SystemInv, NEW s \in Shard, digest_block(s)
    PROVE  SystemInv'
<1> DEFINE h == m_best_block_height[s] + 1
<1>1. /\ h <= m_best_height
      /\ m_best_block_height' = [m_best_block_height EXCEPT ![s] = h]
      /\ m_db' = [m_db EXCEPT ![s] =
                    (@ \cup (Outputs(blocks[h]) \cap Covers[s]))
                        \ (Inputs(blocks[h]) \cap Covers[s])]
      /\ UNCHANGED atomizerVars /\ UNCHANGED nodeVars /\ UNCHANGED m_snp
  BY Zenon DEF digest_block
<1>2. /\ IInv' /\ m_best_height' <= MaxHeight /\ HistoryFollows'
      /\ HistoryKept
      /\ \A u \in Tx : Minted(u)' => Minted(u)
  BY Zenon, <1>1, ChainQuiet
<1>3. /\ m_best_height \in Nat /\ m_best_block_height[s] \in Nat
      /\ h \in 1..m_best_height /\ h - 1 = m_best_block_height[s]
  BY <1>1 DEF SystemInv, ShardsTrue, IInv, AtomizerTypeOK
<1>4. m_db'[s] = uhsAt[h] \cap Covers[s]
  <2>1. uhsAt[h] = (uhsAt[h - 1] \cup Outputs(blocks[h])) \ Inputs(blocks[h])
    BY Zenon, <1>3 DEF SystemInv, HistoryFollows
  <2>2. m_db[s] = uhsAt[h - 1] \cap Covers[s]
    BY Zenon, <1>3 DEF SystemInv, ShardsTrue, ShardsFollowBlocks
  <2>3. m_db'[s] = (m_db[s] \cup (Outputs(blocks[h]) \cap Covers[s]))
                        \ (Inputs(blocks[h]) \cap Covers[s])
    BY Zenon, <1>1 DEF SystemInv, ShardsTrue
  <2> HIDE DEF h
  <2> QED BY Zenon, <2>1, <2>2, <2>3
<1>5. uhsAt[h] \subseteq UhsId /\ h \in 0..m_best_height
  BY <1>3 DEF SystemInv, IInv, AtomizerTypeOK
<1> HIDE DEF h
<1>6. ShardsTrue'
  <2>1. /\ m_best_block_height' \in [Shard -> 0..m_best_height]
        /\ m_best_block_height'[s] = h
        /\ \A r \in Shard \ {s} : /\ m_best_block_height'[r] = m_best_block_height[r]
                                  /\ m_db'[r] = m_db[r]
    BY Zenon, <1>1, <1>5 DEF SystemInv, ShardsTrue
  <2>2. m_db' \in [Shard -> SUBSET UhsId]
    <3>1. m_db' = [m_db EXCEPT ![s] = uhsAt[h] \cap Covers[s]]
      BY Zenon, <1>1, <1>4 DEF SystemInv, ShardsTrue
    <3> QED BY Zenon, <3>1, <1>5 DEF SystemInv, ShardsTrue
  <2>3. ShardsFollowBlocks'
    BY Zenon, <1>1, <1>4, <2>1 DEF SystemInv, ShardsTrue, ShardsFollowBlocks, atomizerVars
  <2> QED BY Zenon, <1>1, <2>1, <2>2, <2>3 DEF SystemInv, ShardsTrue, atomizerVars
<1>7. NodesTrue' /\ MintsOnce'
  BY Zenon, <1>1, <1>2, NodesKept, MintsKept DEF SystemInv, nodeVars
<1> QED BY Zenon, <1>2, <1>6, <1>7 DEF SystemInv

\* A new snapshot is the database at its height (update_snapshot).
LEMMA SnapshotStep ==
    ASSUME SystemInv, NEW s \in Shard, update_snapshot(s)
    PROVE  SystemInv'
<1> DEFINE new == [m_height |-> m_best_block_height[s], m_ids |-> m_db[s]]
<1>1. /\ m_snp' = [m_snp EXCEPT ![s] = new]
      /\ UNCHANGED atomizerVars /\ UNCHANGED nodeVars
      /\ UNCHANGED <<m_best_block_height, m_db>>
  BY Zenon DEF update_snapshot
<1>2. /\ IInv' /\ m_best_height' <= MaxHeight /\ HistoryFollows'
      /\ HistoryKept
      /\ \A u \in Tx : Minted(u)' => Minted(u)
  BY Zenon, <1>1, ChainQuiet
<1>3. ShardsTrue'
  <2>1. new \in [m_height : 0..m_best_height, m_ids : SUBSET UhsId]
    BY Zenon DEF SystemInv, ShardsTrue
  <2>2. new.m_ids = uhsAt[new.m_height] \cap Covers[s]
    BY Zenon DEF SystemInv, ShardsTrue, ShardsFollowBlocks
  <2> HIDE DEF new
  <2>3. m_snp'[s] = new /\ \A r \in Shard \ {s} : m_snp'[r] = m_snp[r]
    BY Zenon, <1>1 DEF SystemInv, ShardsTrue
  <2>4. m_snp' \in [Shard -> [m_height : 0..m_best_height, m_ids : SUBSET UhsId]]
    BY Zenon, <1>1, <2>1 DEF SystemInv, ShardsTrue
  <2>5. ShardsFollowBlocks'
    BY Zenon, <1>1, <2>2, <2>3 DEF SystemInv, ShardsTrue, ShardsFollowBlocks, atomizerVars
  <2> QED BY Zenon, <1>1, <2>4, <2>5 DEF SystemInv, ShardsTrue, atomizerVars
<1>4. NodesTrue' /\ MintsOnce'
  BY Zenon, <1>1, <1>2, NodesKept, MintsKept DEF SystemInv, nodeVars
<1> QED BY Zenon, <1>2, <1>3, <1>4 DEF SystemInv

\* A block (controller::main_handler) keeps the invariant.
LEMMA BlockStep ==
    ASSUME SystemInv, MakeBlock
    PROVE  SystemInv'
<1>1. make_block /\ UNCHANGED nodeVars /\ UNCHANGED shardVars
  BY Zenon DEF MakeBlock
<1>2. /\ IInv' /\ m_best_height' <= MaxHeight /\ HistoryFollows'
      /\ HistoryKept
      /\ \A u \in Tx : Minted(u)' => Minted(u)
  BY Zenon, <1>1, ChainBlock
<1>3. NodesTrue' /\ MintsOnce' /\ ShardsTrue'
  BY Zenon, <1>1, <1>2, NodesKept, MintsKept, ShardsKept DEF SystemInv, nodeVars
<1> QED BY Zenon, <1>2, <1>3 DEF SystemInv

\* A change of leader keeps the invariant, whether the old leader forgets
\* what it collected or not (Failover).
LEMMA FailoverStep ==
    ASSUME SystemInv, NEW n \in Node, NEW restarts \in BOOLEAN,
           Failover(n, restarts)
    PROVE  SystemInv'
<1>1. UNCHANGED atomizerVars /\ UNCHANGED shardVars /\ m_leader' = n
  BY Zenon DEF Failover
<1>2. /\ IInv' /\ m_best_height' <= MaxHeight /\ HistoryFollows'
      /\ HistoryKept
      /\ \A u \in Tx : Minted(u)' => Minted(u)
  BY Zenon, <1>1, ChainQuiet
<1>3. /\ notifications' \in [Node -> SUBSET Note]
      /\ m_raft_txs' \in [Node -> [Tx -> [UhsId -> 0..MaxHeight]]]
      /\ m_raft_complete' \in [Node -> SUBSET CompleteTx]
  BY AtomizerAssumption DEF Failover, SystemInv, NodesTrue, NotAttested
<1>4. \A o \in Node :
        /\ notifications'[o] \subseteq notifications[o]
        /\ m_raft_complete'[o] \subseteq m_raft_complete[o]
        /\ \/ m_raft_txs'[o] = m_raft_txs[o]
           \/ m_raft_txs'[o] = [t \in Tx |-> NotAttested]
  BY Zenon DEF Failover, SystemInv, NodesTrue
<1>5. AttsTrue(NotAttested)
  BY AtomizerAssumption DEF AttsTrue, NotAttested
<1>6. NodesTrue'
  <2>1. ASSUME NEW o \in Node, NEW t \in Tx PROVE AttsTrue(m_raft_txs'[o][t])
    <3>1. m_raft_txs'[o][t] = m_raft_txs[o][t] \/ m_raft_txs'[o][t] = NotAttested
      BY Zenon, <1>4
    <3>2. AttsTrue(m_raft_txs[o][t])
      BY Zenon DEF SystemInv, NodesTrue
    <3> QED BY Zenon, <1>5, <3>1, <3>2
  <2> QED BY Zenon, <1>1, <1>2, <1>3, <1>4, <2>1, NodesStep DEF SystemInv, NodesTrue
<1>7. ShardsTrue' /\ MintsOnce'
  BY Zenon, <1>1, <1>2, <1>4, ShardsKept, MintsKept DEF SystemInv
<1> QED BY Zenon, <1>2, <1>6, <1>7 DEF SystemInv

\* A notification that reaches a node (tx_notify): what the node has merged,
\* or the transaction it completes, is true as well.  A mint is complete at
\* once, and its only copy moves.
LEMMA NotifyStep ==
    ASSUME SystemInv, NEW n \in Node, NEW m \in notifications[n], tx_notify(n, m)
    PROVE  SystemInv'
<1> USE TransactionsAssumption
<1> DEFINE t == m.m_tx
           atts == Merged(m_raft_txs[n][t], m)
           c == [m_tx |-> t, m_oldest_attestation |-> Oldest(atts, t)]
<1>1. /\ UNCHANGED atomizerVars /\ UNCHANGED shardVars /\ UNCHANGED m_leader
      /\ notifications' = [notifications EXCEPT ![n] = @ \ {m}]
  BY Zenon DEF tx_notify
<1>2. /\ IInv' /\ m_best_height' <= MaxHeight /\ HistoryFollows'
      /\ HistoryKept
      /\ \A u \in Tx : Minted(u)' => Minted(u)
  BY Zenon, <1>1, ChainQuiet
<1>3. NoteTrue(m) /\ t \in Attested /\ t \in Tx
  BY Zenon DEF SystemInv, NodesTrue, NoteTrue, Note
<1>4. AttsTrue(atts)
  <2>1. AttsTrue(m_raft_txs[n][t])
    BY Zenon, <1>3 DEF SystemInv, NodesTrue
  <2> QED BY Zenon, <1>3, <2>1, MergedTrue DEF SystemInv
<1>5. AttsTrue(NotAttested)
  BY AtomizerAssumption DEF AttsTrue, NotAttested
<1>6. \/ /\ Complete(atts, t)
         /\ m_raft_complete' = [m_raft_complete EXCEPT ![n] = @ \cup {c}]
         /\ m_raft_txs' = [m_raft_txs EXCEPT ![n][t] = NotAttested]
      \/ /\ ~Complete(atts, t)
         /\ m_raft_txs' = [m_raft_txs EXCEPT ![n][t] = atts]
         /\ UNCHANGED m_raft_complete
  BY Zenon DEF tx_notify
<1>7. Complete(atts, t) => CompleteTrue(c)
  BY Zenon, <1>3, <1>4, CompletedTrue DEF SystemInv
<1> HIDE DEF atts
<1>8. m_raft_txs' \in [Node -> [Tx -> [UhsId -> 0..MaxHeight]]]
      /\ \A o \in Node, u \in Tx : \/ m_raft_txs'[o][u] = m_raft_txs[o][u]
                                   \/ m_raft_txs'[o][u] = atts
                                   \/ m_raft_txs'[o][u] = NotAttested
  <2>1. /\ atts \in [UhsId -> 0..MaxHeight] /\ NotAttested \in [UhsId -> 0..MaxHeight]
        /\ m_raft_txs \in [Node -> [Tx -> [UhsId -> 0..MaxHeight]]]
    BY Zenon, <1>4, <1>5 DEF SystemInv, NodesTrue, AttsTrue
  <2>2. CASE m_raft_txs' = [m_raft_txs EXCEPT ![n][t] = NotAttested]
    <3> HIDE DEF t
    <3> QED BY Zenon, <1>3, <2>1, <2>2
  <2>3. CASE m_raft_txs' = [m_raft_txs EXCEPT ![n][t] = atts]
    <3> HIDE DEF t
    <3> QED BY Zenon, <1>3, <2>1, <2>3
  <2> QED BY Zenon, <1>6, <2>2, <2>3
<1>9. /\ m_raft_complete' \in [Node -> SUBSET CompleteTx]
      /\ \A o \in Node : \A d \in m_raft_complete'[o] :
            d \in m_raft_complete[o] \/ (Complete(atts, t) /\ o = n /\ d = c)
  <2>1. Complete(atts, t) => c \in CompleteTx
    BY Zenon, <1>7 DEF CompleteTrue
  <2>2. m_raft_complete \in [Node -> SUBSET CompleteTx]
    BY Zenon DEF SystemInv, NodesTrue
  <2> HIDE DEF c, t
  <2>3. CASE /\ Complete(atts, t)
             /\ m_raft_complete' = [m_raft_complete EXCEPT ![n] = @ \cup {c}]
    BY Zenon, <2>1, <2>2, <2>3
  <2>4. CASE UNCHANGED m_raft_complete
    BY Zenon, <2>2, <2>4
  <2> QED BY Zenon, <1>6, <2>3, <2>4
<1> HIDE DEF c
<1>10. /\ notifications' \in [Node -> SUBSET Note]
       /\ \A o \in Node : notifications'[o] \subseteq notifications[o]
       /\ m \notin notifications'[n]
  BY Zenon, <1>1 DEF SystemInv, NodesTrue
<1>11. NodesTrue'
  <2>1. ASSUME NEW o \in Node, NEW u \in Tx PROVE AttsTrue(m_raft_txs'[o][u])
    <3>1. AttsTrue(m_raft_txs[o][u])
      BY Zenon DEF SystemInv, NodesTrue
    <3> QED BY Zenon, <1>4, <1>5, <1>8, <3>1
  <2>2. ASSUME NEW o \in Node, NEW d \in m_raft_complete'[o] PROVE CompleteTrue(d)
    BY Zenon, <1>7, <1>9 DEF SystemInv, NodesTrue
  <2> QED BY Zenon, <1>1, <1>2, <1>8, <1>9, <1>10, <2>1, <2>2, NodesStep
          DEF SystemInv, NodesTrue
<1>12. ShardsTrue'
  BY Zenon, <1>1, <1>2, ShardsKept DEF SystemInv
<1>13. MintsOnce'
  <2> SUFFICES ASSUME NEW u \in Tx, m_inputs[u] = {} PROVE MintOnce(u)'
    BY Zenon DEF MintsOnce
  <2>1. MintOnce(u) /\ (Minted(u)' => Minted(u))
    BY Zenon, <1>2 DEF SystemInv, MintsOnce
  <2>2. CASE u # t
    <3>1. \A o \in Node : \A d \in m_raft_complete'[o] :
                d.m_tx = u => d \in m_raft_complete[o]
      BY <1>9, <2>2 DEF c
    <3> QED BY Zenon, <1>10, <2>1, <3>1, MintKept
  <2>3. CASE u = t
    <3>1. MintAt(u, n, 1)
      BY Zenon, <2>3 DEF MintAt
    <3>2. \A o \in Node, k \in {1, 2} : MintAt(u, o, k) => o = n /\ k = 1
      BY <2>1, <3>1 DEF MintOnce
    <3>3. \A o \in Node : \A d \in notifications'[o] : d.m_tx # u
      <4> SUFFICES ASSUME NEW o \in Node, NEW d \in notifications'[o], d.m_tx = u
                   PROVE  FALSE
        BY Zenon
      <4>1. d \in notifications[o] /\ MintAt(u, o, 1)
        BY Zenon, <1>10 DEF MintAt
      <4>2. d = m /\ o = n
        BY Zenon, <2>1, <2>3, <3>2, <4>1 DEF MintOnce
      <4> QED BY Zenon, <1>10, <4>2
    <3>4. \A o \in Node : \A d \in m_raft_complete'[o] : d.m_tx = u => o = n /\ d = c
      BY <1>9, <3>2 DEF MintAt
    <3>5. c = [m_tx |-> u, m_oldest_attestation |-> 0]
      BY Zenon, <2>3 DEF c, Oldest
    <3>6. ~Minted(u)'
      BY Zenon, <2>1, <3>1 DEF MintOnce
    <3>7. \A o \in Node, k \in {1, 2} : MintAt(u, o, k)' => o = n /\ k = 2
      BY Zenon, <3>3, <3>4 DEF MintAt
    <3> QED BY Zenon, <3>3, <3>4, <3>5, <3>6, <3>7 DEF MintOnce
  <2> QED BY Zenon, <2>2, <2>3
<1> QED BY Zenon, <1>2, <1>11, <1>12, <1>13 DEF SystemInv

\* What a node replicates keeps the contract of the state machine: it is
\* attested since its oldest attestation, and a mint has not settled
\* (send_complete_txs).
LEMMA SentIsAttested ==
    ASSUME SystemInv, NEW n \in Node, NEW m \in m_raft_complete[n]
    PROVE  /\ m.m_tx \in Attested
           /\ m.m_oldest_attestation \in 0..m_best_height
           /\ AttestedSince(m.m_oldest_attestation, m.m_tx)
<1> USE TransactionsAssumption, AtomizerAssumption
<1>1. CompleteTrue(m)
  BY Zenon DEF SystemInv, NodesTrue
<1>2. m.m_tx \in Attested /\ m.m_oldest_attestation \in 0..m_best_height
  BY <1>1 DEF CompleteTrue, CompleteTx, SystemInv, IInv, AtomizerTypeOK
<1>3. MayMint(m.m_tx)
  <2> SUFFICES ASSUME m_inputs[m.m_tx] = {} PROVE ~Minted(m.m_tx)
    BY Zenon DEF MayMint, Minted
  <2>1. MintOnce(m.m_tx)
    BY Zenon, <1>2 DEF SystemInv, MintsOnce
  <2>2. MintAt(m.m_tx, n, 2)
    BY Zenon DEF MintAt
  <2> QED BY Zenon, <2>1, <2>2 DEF MintOnce
<1> QED BY Zenon, <1>1, <1>2, <1>3 DEF CompleteTrue, AttestedSince

\* A complete transaction that is replicated and executed (send_complete_txs)
\* keeps the invariant.
LEMMA SendStep ==
    ASSUME SystemInv, NEW n \in Node, NEW m \in m_raft_complete[n],
           send_complete_txs(n, m)
    PROVE  SystemInv' /\ AtomizerNext
<1> DEFINE t == m.m_tx
<1>1. /\ UNCHANGED shardVars /\ UNCHANGED <<m_leader, m_raft_txs, notifications>>
      /\ m_raft_complete' = [m_raft_complete EXCEPT ![n] = @ \ {m}]
      /\ insert_complete(m.m_oldest_attestation, t)
  BY Zenon DEF send_complete_txs
<1>2. /\ IInv' /\ m_best_height' <= MaxHeight /\ HistoryFollows'
      /\ HistoryKept
      /\ \A u \in Tx : Minted(u)' => Minted(u) \/ u = t
      /\ AtomizerNext
  BY Zenon, <1>1, SentIsAttested, ChainInsert
<1>3. /\ m_raft_complete' \in [Node -> SUBSET CompleteTx]
      /\ \A o \in Node : m_raft_complete'[o] \subseteq m_raft_complete[o]
      /\ m \notin m_raft_complete'[n]
  BY Zenon, <1>1 DEF SystemInv, NodesTrue
<1>4. NodesTrue'
  BY Zenon, <1>1, <1>2, <1>3, NodesStep DEF SystemInv, NodesTrue
<1>5. ShardsTrue'
  BY Zenon, <1>1, <1>2, ShardsKept DEF SystemInv
<1>6. MintsOnce'
  <2> SUFFICES ASSUME NEW u \in Tx, m_inputs[u] = {} PROVE MintOnce(u)'
    BY Zenon DEF MintsOnce
  <2>1. MintOnce(u)
    BY Zenon DEF SystemInv, MintsOnce
  <2>2. CASE u # t
    BY Zenon, <1>1, <1>2, <1>3, <2>1, <2>2, MintKept
  <2>3. CASE u = t
    <3>1. MintAt(u, n, 2)
      BY Zenon, <2>3 DEF MintAt
    <3>2. \A o \in Node, k \in {1, 2} : MintAt(u, o, k) => o = n /\ k = 2
      BY <2>1, <3>1 DEF MintOnce
    <3>3. \A o \in Node : \A d \in m_raft_complete'[o] : d.m_tx # u
      <4> SUFFICES ASSUME NEW o \in Node, NEW d \in m_raft_complete'[o], d.m_tx = u
                   PROVE  FALSE
        BY Zenon
      <4>1. d \in m_raft_complete[o] /\ MintAt(u, o, 2)
        BY Zenon, <1>3 DEF MintAt
      <4>2. d = m /\ o = n
        BY Zenon, <2>1, <2>3, <3>2, <4>1 DEF MintOnce
      <4> QED BY Zenon, <1>3, <4>2
    <3>4. \A o \in Node : \A d \in notifications'[o] : d.m_tx # u
      BY <1>1, <3>2 DEF MintAt
    <3> QED BY Zenon, <3>3, <3>4 DEF MintOnce, MintAt
  <2> QED BY Zenon, <2>2, <2>3
<1> QED BY Zenon, <1>2, <1>4, <1>5, <1>6 DEF SystemInv

\* A mint sent to the leader (client::mint) is its only copy.
LEMMA MintStep ==
    ASSUME SystemInv, NEW t \in Tx, send_mint_tx(t)
    PROVE  SystemInv'
<1> USE TransactionsAssumption, AtomizerAssumption
<1> DEFINE m == [m_tx |-> t, m_attestations |-> {}, m_block_height |-> 0]
<1>1. /\ UNCHANGED atomizerVars /\ UNCHANGED shardVars
      /\ UNCHANGED <<m_leader, m_raft_txs, m_raft_complete>>
      /\ notifications' = [notifications EXCEPT ![m_leader] = @ \cup {m}]
      /\ t \in Attested /\ m_inputs[t] = {} /\ MayMint(t)
      /\ \A n \in Node : /\ m \notin notifications[n]
                         /\ \A c \in m_raft_complete[n] : c.m_tx # t
  BY Zenon DEF send_mint_tx
<1>2. /\ IInv' /\ m_best_height' <= MaxHeight /\ HistoryFollows'
      /\ HistoryKept
      /\ \A u \in Tx : Minted(u)' => Minted(u)
  BY Zenon, <1>1, ChainQuiet
<1>3. NoteTrue(m) /\ m.m_tx = t
  BY <1>1 DEF NoteTrue, Note, SystemInv, IInv, AtomizerTypeOK
<1>4. m \in Note
  BY Zenon, <1>3 DEF NoteTrue
<1> HIDE DEF m
<1>5. /\ notifications' \in [Node -> SUBSET Note]
      /\ \A n \in Node : \A d \in notifications'[n] :
            d \in notifications[n] \/ (n = m_leader /\ d = m)
  BY Zenon, <1>1, <1>4 DEF SystemInv, NodesTrue
<1>6. NodesTrue'
  BY Zenon, <1>1, <1>2, <1>3, <1>5, NodesStep DEF SystemInv, NodesTrue
<1>7. ShardsTrue'
  BY Zenon, <1>1, <1>2, ShardsKept DEF SystemInv
<1>8. MintsOnce'
  <2> SUFFICES ASSUME NEW u \in Tx, m_inputs[u] = {} PROVE MintOnce(u)'
    BY Zenon DEF MintsOnce
  <2>1. MintOnce(u) /\ (Minted(u)' => Minted(u))
    BY Zenon, <1>2 DEF SystemInv, MintsOnce
  <2>2. CASE u # t
    <3>1. \A n \in Node : \A d \in notifications'[n] :
                d.m_tx = u => d \in notifications[n]
      BY Zenon, <1>3, <1>5, <2>2
    <3> QED BY Zenon, <1>1, <2>1, <3>1, MintKept
  <2>3. CASE u = t
    <3>1. \A n \in Node : \A d \in notifications[n] : d.m_tx # u
      BY Zenon, <1>1, <2>1, <2>3 DEF MintOnce, m
    <3>2. \A n \in Node : \A d \in notifications'[n] :
                d.m_tx = u => n = m_leader /\ d = m
      BY Zenon, <1>5, <3>1
    <3>3. \A n \in Node : \A d \in m_raft_complete'[n] : d.m_tx # u
      BY Zenon, <1>1, <2>3
    <3>4. ~Minted(u)'
      BY Zenon, <1>1, <2>1, <2>3 DEF MayMint, Minted
    <3>5. m = [m_tx |-> u, m_attestations |-> {}, m_block_height |-> 0]
      BY Zenon, <2>3 DEF m
    <3>6. \A n \in Node, k \in {1, 2} : MintAt(u, n, k)' => n = m_leader /\ k = 1
      BY Zenon, <3>2, <3>3 DEF MintAt
    <3> QED BY Zenon, <3>2, <3>3, <3>4, <3>5, <3>6 DEF MintOnce
  <2> QED BY Zenon, <2>2, <2>3
<1> QED BY Zenon, <1>2, <1>6, <1>7, <1>8 DEF SystemInv

-----------------------------------------------------------------------------
\* Nothing is on its way when the system starts, and the shards hold their
\* parts of the preseeded UHS (SystemInit).
LEMMA SystemInitHolds == SystemInit => SystemInv
<1> SUFFICES ASSUME SystemInit PROVE SystemInv
  BY Zenon
<1> USE TransactionsAssumption, AtomizerAssumption, AtomizerSystemAssumption
        DEF SystemInit
<1>1. IInv
  BY Zenon, AtomizerInitHolds
<1>2. m_best_height = 0 /\ uhsAt[0] = Seed
  BY Zenon DEF AtomizerInit
<1>3. HistoryFollows /\ m_best_height <= MaxHeight
  BY <1>2 DEF HistoryFollows
<1>4. NodesTrue
  BY DEF NodesTrue, AttsTrue, NotAttested
<1>5. ShardsTrue
  BY <1>2 DEF ShardsTrue, ShardsFollowBlocks
<1>6. MintsOnce
  BY Zenon DEF MintsOnce, MintOnce, MintAt
<1> QED BY Zenon, <1>1, <1>3, <1>4, <1>5, <1>6 DEF SystemInv

\* Every step of the system keeps the invariant, and is a step of the atomizer
\* of module Atomizer or leaves it alone (SystemNext).
LEMMA SystemStepPreserves ==
    SystemInv /\ [SystemNext]_systemVars => SystemInv' /\ [AtomizerNext]_atomizerVars
<1> SUFFICES ASSUME SystemInv, [SystemNext]_systemVars
             PROVE  SystemInv' /\ [AtomizerNext]_atomizerVars
  BY Zenon
<1>1. CASE \E s \in Shard, t \in Tx : request_consumer(s, t)
  BY Zenon, <1>1, RequestStep DEF request_consumer
<1>2. CASE \E s \in Shard : digest_block(s)
  BY Zenon, <1>2, DigestBlockStep DEF digest_block
<1>3. CASE \E s \in Shard : update_snapshot(s)
  BY Zenon, <1>3, SnapshotStep DEF update_snapshot
<1>4. CASE \E n \in Node : \E m \in notifications[n] : tx_notify(n, m)
  BY Zenon, <1>4, NotifyStep DEF tx_notify
<1>5. CASE \E n \in Node : \E m \in m_raft_complete[n] : send_complete_txs(n, m)
  BY Zenon, <1>5, SendStep
<1>6. CASE \E t \in Tx : send_mint_tx(t)
  BY Zenon, <1>6, MintStep DEF send_mint_tx
<1>7. CASE MakeBlock
  BY Zenon, <1>7, BlockStep DEF MakeBlock, AtomizerNext
<1>8. CASE \E n \in Node, restarts \in BOOLEAN : Failover(n, restarts)
  BY Zenon, <1>8, FailoverStep DEF Failover
<1>9. CASE UNCHANGED systemVars
  <2>1. UNCHANGED atomizerVars /\ UNCHANGED nodeVars /\ UNCHANGED shardVars
    BY Zenon, <1>9 DEF systemVars
  <2>2. /\ IInv' /\ m_best_height' <= MaxHeight /\ HistoryFollows'
        /\ HistoryKept
        /\ \A u \in Tx : Minted(u)' => Minted(u)
    BY Zenon, <2>1, ChainQuiet
  <2>3. NodesTrue' /\ ShardsTrue' /\ MintsOnce'
    BY Zenon, <2>1, <2>2, NodesKept, ShardsKept, MintsKept DEF SystemInv, nodeVars
  <2> QED BY Zenon, <2>1, <2>2, <2>3 DEF SystemInv
<1> QED BY Zenon, <1>1, <1>2, <1>3, <1>4, <1>5, <1>6, <1>7, <1>8, <1>9 DEF SystemNext

(***************************************************************************)
(* Whatever notifications are lost, repeated or late, and whoever leads,   *)
(* every shard's database and snapshot is its part of the UHS at the       *)
(* height it names, and every input of what a leader replicates was        *)
(* unspent since the height it replicates it with.                         *)
(***************************************************************************)
THEOREM SystemIsSound == SystemSpec => []SystemSound
<1>1. SystemInv => SystemSound
  BY Zenon DEF SystemInv, SystemSound, SystemTypeOK, CompleteIsAttested, NodesTrue,
         ShardsTrue, CompleteTrue, IInv, Note, CompleteTx
<1> QED BY <1>1, SystemInitHolds, SystemStepPreserves, PTL DEF SystemSpec

(***************************************************************************)
(* Shards, notifications and leaders together implement the atomizer of    *)
(* module Atomizer: the environment that module assumes, in which          *)
(* attestations are true and a mint is sent once, is what they provide.    *)
(***************************************************************************)
THEOREM SystemKeepsContract == SystemSpec => ImplementsAtomizer
<1>1. SystemInit => AtomizerInit
  BY Zenon DEF SystemInit
<1> QED BY <1>1, SystemInitHolds, SystemStepPreserves, PTL
        DEF SystemSpec, ImplementsAtomizer, AtomizerSpec

(***************************************************************************)
(* In the whole architecture no UHS ID is spent by two transactions of the *)
(* blocks, and every input was unspent before its block: the atomizer      *)
(* accepts attestations that are several blocks old, from shards that lag. *)
(***************************************************************************)
THEOREM SystemNeverDoubleSpends == SystemSpec => []NoBlockDoubleSpend
BY SystemKeepsContract, BlocksNeverDoubleSpend, PTL DEF ImplementsAtomizer

\* What the block being built creates is not among what it spends: an output
\* that is in the UHS was created by a transaction that is in a block.
LEMMA CreatesNew ==
    ASSUME IInv
    PROVE  Outputs(m_complete_txs) \cap Inputs(m_complete_txs) = {}
<1> SUFFICES ASSUME NEW id \in Outputs(m_complete_txs),
                    id \in Inputs(m_complete_txs)
             PROVE  FALSE
  BY Zenon
<1> USE TransactionsAssumption DEF IInv, AtomizerTypeOK
<1>1. PICK t \in m_complete_txs : id \in m_uhs_outputs[t]
  BY Zenon, OutputsOf
<1>2. id \in uhsAt[m_best_height] /\ m_best_height \in 0..m_best_height
  BY DEF PendingUnspent
<1>3. id \notin Seed
  BY Zenon, <1>1, OutputsAreFresh
<1>4. PICK g \in 1..m_best_height : id \in Outputs(blocks[g])
  BY Zenon, <1>2, <1>3 DEF Created
<1>5. PICK u \in blocks[g] : id \in m_uhs_outputs[u]
  BY Zenon, <1>4, OutputsOf
<1>6. t = u
  BY Zenon, <1>1, <1>5, OutputsAreFresh
<1> QED BY Zenon, <1>1, <1>5, <1>6 DEF PendingIsNew

\* A step of the atomizer settles the block being built at once, or changes
\* nothing in the UHS (make_block, insert, insert_complete).
LEMMA SettlesAtOnce ==
    ASSUME IInv, [AtomizerNext]_atomizerVars
    PROVE  [Abstract!UHSNext]_(uhsAt[m_best_height])
<1> DEFINE P == m_complete_txs
           U == uhsAt[m_best_height]
<1>1. CASE make_block
  <2>1. (uhsAt[m_best_height])' = (U \cup Outputs(P)) \ Inputs(P)
    BY Zenon, <1>1, MakeBlockHistory
  <2>2. (uhsAt[m_best_height])' = (U \ Inputs(P)) \cup Outputs(P)
    BY Zenon, <2>1, CreatesNew
  <2>3. CASE P = {}
    <3>1. Inputs(P) = {} /\ Outputs(P) = {}
      BY Zenon, <2>3 DEF Inputs, Outputs
    <3> QED BY Zenon, <2>2, <3>1
  <2>4. CASE P # {}
    <3>1. P \in SUBSET Attested
      BY Zenon DEF IInv, AtomizerTypeOK
    <3>2. Abstract!Settle(P)
      BY Zenon, <2>2 DEF Abstract!Settle, Abstract!Conflict, Conflict, Inputs, Outputs,
                  IInv, PendingUnspent
    <3> QED BY Zenon, <2>4, <3>1, <3>2 DEF Abstract!UHSNext
  <2> QED BY Zenon, <2>3, <2>4
<1>2. CASE InsertComplete
  BY Zenon, <1>2 DEF InsertComplete, insert_complete
<1>3. CASE Insert
  BY Zenon, <1>3 DEF Insert, insert
<1>4. CASE UNCHANGED atomizerVars
  BY Zenon, <1>4 DEF atomizerVars
<1> QED BY Zenon, <1>1, <1>2, <1>3, <1>4 DEF AtomizerNext

(***************************************************************************)
(* The atomizer architecture implements the abstract UHS: a transaction    *)
(* settles at the instant its block is made, with all of its inputs        *)
(* unspent and no conflict inside the block, and nothing else changes the  *)
(* UHS.  In particular transactions do not spend outputs of their own      *)
(* block.                                                                  *)
(***************************************************************************)
THEOREM SystemSettlesAtomically == SystemSpec => ImplementsUHS
<1>1. SystemInit => Abstract!UHSInit
  BY Zenon DEF SystemInit, AtomizerInit, Abstract!UHSInit
<1>2. SystemInv /\ [AtomizerNext]_atomizerVars
        => [Abstract!UHSNext]_(uhsAt[m_best_height])
  BY Zenon, SettlesAtOnce DEF SystemInv
<1> QED BY <1>1, <1>2, SystemInitHolds, SystemStepPreserves, PTL
        DEF SystemSpec, ImplementsUHS, Abstract!UHSSpec
=============================================================================

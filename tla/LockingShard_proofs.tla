------------------------- MODULE LockingShard_proofs -------------------------
(***************************************************************************)
(* Proofs about the locking shards under arbitrary requests, for any       *)
(* shards, transactions, batches and batch size.                           *)
(***************************************************************************)
EXTENDS LockingShard, TLAPS

\* The sets the provers need to know only by membership.
LEMMA SubBatchElim ==
    ASSUME NEW f \in SubBatch
    PROVE  /\ DOMAIN f \subseteq Idx
           /\ f \in [DOMAIN f -> Tx]
BY Zenon DEF SubBatch

\* A flag for each of some positions is an answer a shard may give.
LEMMA FlagsIntro ==
    ASSUME NEW I \in SUBSET Idx, NEW f \in [I -> BOOLEAN]
    PROVE  f \in Flags
BY Zenon DEF Flags

\* The entry of a batch that is not prepared is well formed.
LEMMA NotPreparedType ==
    /\ NotPrepared \in [m_txs : SubBatch, m_results : Flags]
    /\ NotPrepared.m_txs = <<>>
    /\ NotPrepared.m_results = <<>>
    /\ DOMAIN NotPrepared.m_txs = {}
    /\ DOMAIN NotPrepared.m_results = {}
<1>1. <<>> \in [{} -> Tx] /\ <<>> \in [{} -> BOOLEAN] /\ {} \in SUBSET Idx
  OBVIOUS
<1>2. <<>> \in SubBatch /\ <<>> \in Flags
  BY Zenon, <1>1 DEF SubBatch, Flags
<1> QED
  BY <1>2 DEF NotPrepared

\* The inputs and outputs of a transaction at a shard are UHS IDs of its range.
LEMMA ShardInputsType ==
    ASSUME NEW s \in Shard, NEW t \in Tx
    PROVE  /\ ShardInputs(s, t) \subseteq UhsId
           /\ ShardOutputs(s, t) \subseteq UhsId
           /\ \A id \in ShardInputs(s, t) \cup ShardOutputs(s, t) :
                hash_in_shard_range(s, id)
BY Zenon, TransactionsAssumption, LockingShardAssumption DEF ShardInputs, ShardOutputs

-----------------------------------------------------------------------------
\* ShardTypeOK is inductive: one lemma per kind of request.
LEMMA TypeInit == ShardInit => ShardTypeOK
<1> SUFFICES ASSUME ShardInit PROVE ShardTypeOK
  BY Zenon
<1> QED
  BY Zenon, NotPreparedType, TransactionsAssumption, LockingShardAssumption
  DEF ShardInit, ShardTypeOK, hash_in_shard_range

\* lock_outputs keeps the shard well formed.
LEMMA TypeLock ==
    ASSUME ShardTypeOK, NEW s \in Shard, NEW d \in Dtx, NEW txs \in SubBatch,
           LockFresh(s, d, txs)
    PROVE  ShardTypeOK'
<1>1. PICK ok \in [DOMAIN txs -> BOOLEAN] :
         LET taken == UNION {ShardInputs(s, txs[i]) :
                               i \in {k \in DOMAIN txs : ok[k]}}
         IN /\ m_uhs' = [m_uhs EXCEPT ![s] = @ \ taken]
            /\ m_locked' = [m_locked EXCEPT ![s] = @ \cup taken]
            /\ m_prepared_dtxs' = [m_prepared_dtxs EXCEPT
                 ![s] = [@ EXCEPT ![d] = [m_txs |-> txs, m_results |-> ok]]]
  BY Zenon DEF LockFresh, Entry
<1> DEFINE taken == UNION {ShardInputs(s, txs[i]) :
                             i \in {k \in DOMAIN txs : ok[k]}}
<1>2. DOMAIN txs \subseteq Idx /\ txs \in [DOMAIN txs -> Tx]
  BY Zenon, SubBatchElim
<1>3. taken \subseteq UhsId /\ \A id \in taken : hash_in_shard_range(s, id)
  BY <1>2, ShardInputsType
<1>4. ok \in Flags /\ DOMAIN ok = DOMAIN txs
  BY Zenon, <1>2, FlagsIntro
<1>5. UNCHANGED <<m_applied_dtxs, m_completed_txs, m_halted>>
  BY Zenon DEF LockFresh
<1> HIDE DEF taken
<1>6. m_uhs' = [m_uhs EXCEPT ![s] = @ \ taken]
      /\ m_locked' = [m_locked EXCEPT ![s] = @ \cup taken]
  BY Zenon, <1>1 DEF taken
<1>7. /\ m_uhs' \in [Shard -> SUBSET UhsId]
      /\ m_locked' \in [Shard -> SUBSET UhsId]
  BY Zenon, <1>3, <1>6 DEF ShardTypeOK
<1>8. \A r \in Shard : \A id \in m_uhs'[r] \cup m_locked'[r] :
         hash_in_shard_range(r, id)
  BY Zenon, <1>3, <1>6 DEF ShardTypeOK
<1>9. [m_txs |-> txs, m_results |-> ok] \in [m_txs : SubBatch, m_results : Flags]
  BY Zenon, <1>4
<1>10. /\ m_prepared_dtxs' \in
            [Shard -> [Dtx -> [m_txs : SubBatch, m_results : Flags]]]
       /\ \A r \in Shard, e \in Dtx :
            DOMAIN m_prepared_dtxs'[r][e].m_results
              = DOMAIN m_prepared_dtxs'[r][e].m_txs
  BY Zenon, <1>1, <1>4, <1>9 DEF ShardTypeOK
<1> QED
  BY Zenon, <1>5, <1>7, <1>8, <1>10 DEF ShardTypeOK, hash_in_shard_range

\* apply_outputs keeps the shard well formed.
LEMMA TypeApply ==
    ASSUME ShardTypeOK, NEW s \in Shard, NEW d \in Dtx, NEW complete \in Flags,
           ApplyPrepared(s, d, complete)
    PROVE  ShardTypeOK'
<1> DEFINE txs == m_prepared_dtxs[s][d].m_txs
           made == Created(s, txs, complete)
           back == Returned(s, txs, complete)
           all == Unlocked(s, txs)
           ids == {t \in {txs[i] : i \in DOMAIN txs} : TxShard[t] = s}
<1>1. /\ m_uhs' = [m_uhs EXCEPT ![s] = @ \cup made \cup back]
      /\ m_locked' = [m_locked EXCEPT ![s] = @ \ all]
      /\ m_completed_txs' = [m_completed_txs EXCEPT ![s] = @ \cup ids]
      /\ m_prepared_dtxs' = [m_prepared_dtxs EXCEPT
             ![s] = [@ EXCEPT ![d] = NotPrepared]]
      /\ m_applied_dtxs' = [m_applied_dtxs EXCEPT ![s] = @ \cup {d}]
      /\ UNCHANGED m_halted
  BY Zenon DEF ApplyPrepared
<1>2. txs \in SubBatch
  BY DEF ShardTypeOK
<1>3. DOMAIN txs \subseteq Idx /\ txs \in [DOMAIN txs -> Tx]
  BY Zenon, <1>2, SubBatchElim
<1>4. made \subseteq UhsId /\ \A id \in made : hash_in_shard_range(s, id)
  BY Zenon, <1>3, ShardInputsType DEF Created
<1>5. back \subseteq m_locked[s]
  BY Zenon DEF Returned
<1>6. ids \subseteq Tx
  BY Zenon, <1>3
<1> HIDE DEF made, back, all, ids
<1>7. /\ m_uhs' \in [Shard -> SUBSET UhsId]
      /\ m_locked' \in [Shard -> SUBSET UhsId]
      /\ m_completed_txs' \in [Shard -> SUBSET Tx]
      /\ m_applied_dtxs' \in [Shard -> SUBSET Dtx]
  BY Zenon, <1>1, <1>4, <1>5, <1>6 DEF ShardTypeOK
<1>8. \A r \in Shard : \A id \in m_uhs'[r] \cup m_locked'[r] :
         hash_in_shard_range(r, id)
  BY Zenon, <1>1, <1>4, <1>5 DEF ShardTypeOK
<1>9. /\ m_prepared_dtxs' \in
           [Shard -> [Dtx -> [m_txs : SubBatch, m_results : Flags]]]
      /\ \A r \in Shard, e \in Dtx :
           DOMAIN m_prepared_dtxs'[r][e].m_results
             = DOMAIN m_prepared_dtxs'[r][e].m_txs
  BY Zenon, <1>1, NotPreparedType DEF ShardTypeOK
<1> QED
  BY Zenon, <1>1, <1>7, <1>8, <1>9 DEF ShardTypeOK, hash_in_shard_range

\* Requests that change none of the maps keep the shard well formed.
LEMMA TypeUnchanged ==
    ASSUME ShardTypeOK, UNCHANGED shardVars
    PROVE  ShardTypeOK'
BY Zenon DEF ShardTypeOK, shardVars, hash_in_shard_range

\* A step is one of the requests, or leaves what the locks depend on alone.
LEMMA StepCases ==
    ASSUME [ShardNext]_shardVars
    PROVE  \/ \E s \in Shard, d \in Dtx, txs \in SubBatch :
                /\ ConflictFree => NoConflict(s, d, txs)
                /\ LockFresh(s, d, txs)
           \/ \E s \in Shard, d \in Dtx, complete \in Flags :
                \/ ApplyPrepared(s, d, complete)
                \/ ApplyFatal(s, d, complete)
           \/ \E s \in Shard, d \in Dtx : discard_dtx(s, d)
           \/ UNCHANGED shardVars
BY Zenon DEF ShardNext, AnyLock, AnyApply, lock_outputs, apply_outputs,
       LockRepeated, ApplyRepeated

\* Every request keeps the shard well formed.
LEMMA TypeStep == ShardTypeOK /\ [ShardNext]_shardVars => ShardTypeOK'
<1> SUFFICES ASSUME ShardTypeOK, [ShardNext]_shardVars
             PROVE  ShardTypeOK'
  BY Zenon
<1>1. CASE \E s \in Shard, d \in Dtx, txs \in SubBatch : LockFresh(s, d, txs)
  BY Zenon, <1>1, TypeLock
<1>2. CASE \E s \in Shard, d \in Dtx, complete \in Flags :
             ApplyPrepared(s, d, complete)
  BY Zenon, <1>2, TypeApply
<1>3. CASE \E s \in Shard, d \in Dtx, complete \in Flags :
             ApplyFatal(s, d, complete)
  BY Zenon, <1>3 DEF ApplyFatal, ShardTypeOK, hash_in_shard_range
<1>4. CASE \E s \in Shard, d \in Dtx : discard_dtx(s, d)
  BY <1>4 DEF discard_dtx, ShardTypeOK, hash_in_shard_range
<1>5. CASE UNCHANGED shardVars
  BY Zenon, <1>5, TypeUnchanged
<1> QED
  BY Zenon, <1>1, <1>2, <1>3, <1>4, <1>5, StepCases

\* A shard stores well-typed entries and only UHS IDs of its own range,
\* whatever requests lock_outputs, apply_outputs and discard_dtx are sent.
THEOREM ShardTypeCorrect == ShardSpec => []ShardTypeOK
<1>1. ShardInit => ShardTypeOK
  BY Zenon, TypeInit
<1>2. ShardTypeOK /\ [ShardNext]_shardVars => ShardTypeOK'
  BY Zenon, TypeStep
<1> QED
  BY <1>1, <1>2, PTL DEF ShardSpec

-----------------------------------------------------------------------------
\* LockHasHolder is inductive relative to ShardTypeOK.
LEMMA HolderLock ==
    ASSUME ShardTypeOK, LockHasHolder, NEW s \in Shard, NEW d \in Dtx,
           NEW txs \in SubBatch, LockFresh(s, d, txs)
    PROVE  LockHasHolder'
<1>1. PICK ok \in [DOMAIN txs -> BOOLEAN] :
         LET taken == UNION {ShardInputs(s, txs[i]) :
                               i \in {k \in DOMAIN txs : ok[k]}}
         IN /\ m_locked' = [m_locked EXCEPT ![s] = @ \cup taken]
            /\ m_prepared_dtxs' = [m_prepared_dtxs EXCEPT
                 ![s] = [@ EXCEPT ![d] = [m_txs |-> txs, m_results |-> ok]]]
  BY Zenon DEF LockFresh, Entry
<1>2. DOMAIN txs \subseteq Idx
  BY Zenon, SubBatchElim
<1>3. \A r \in Shard, e \in Dtx :
         m_prepared_dtxs'[r][e] = IF r = s /\ e = d
                                  THEN [m_txs |-> txs, m_results |-> ok]
                                  ELSE m_prepared_dtxs[r][e]
  BY Zenon, <1>1 DEF ShardTypeOK
<1> SUFFICES ASSUME NEW r \in Shard, NEW id \in m_locked'[r]
             PROVE  \E e \in Dtx, i \in Idx :
                       Holds(r, e, i)' /\ id \in HeldInputs(r, e, i)'
  BY Zenon DEF LockHasHolder
<1>4. CASE id \in m_locked[r]
  <2>1. PICK e \in Dtx, i \in Idx : Holds(r, e, i) /\ id \in HeldInputs(r, e, i)
    BY Zenon, <1>4 DEF LockHasHolder
  <2>2. ~(r = s /\ e = d)
    BY Zenon, <2>1 DEF LockFresh, Prepared, Holds
  <2> QED
    BY <1>3, <2>1, <2>2 DEF Holds, HeldInputs, ShardInputs, hash_in_shard_range
<1>5. CASE id \notin m_locked[r]
  <2>1. r = s /\ \E i \in DOMAIN txs : ok[i] /\ id \in ShardInputs(s, txs[i])
    BY <1>1, <1>5 DEF ShardTypeOK
  <2> QED
    BY <1>2, <1>3, <2>1 DEF Holds, HeldInputs, ShardInputs, hash_in_shard_range
<1> QED
  BY Zenon, <1>4, <1>5

\* apply_outputs leaves no lock behind.
LEMMA HolderApply ==
    ASSUME ShardTypeOK, LockHasHolder, NEW s \in Shard, NEW d \in Dtx,
           NEW complete \in Flags, ApplyPrepared(s, d, complete)
    PROVE  LockHasHolder'
<1> DEFINE txs == m_prepared_dtxs[s][d].m_txs
<1>1. /\ m_locked' = [m_locked EXCEPT ![s] =
              @ \ UNION {ShardInputs(s, txs[i]) : i \in DOMAIN txs}]
      /\ m_prepared_dtxs' = [m_prepared_dtxs EXCEPT
             ![s] = [@ EXCEPT ![d] = NotPrepared]]
  BY Zenon DEF ApplyPrepared, Unlocked
<1>2. \A r \in Shard, e \in Dtx :
         ~(r = s /\ e = d) => m_prepared_dtxs'[r][e] = m_prepared_dtxs[r][e]
  BY Zenon, <1>1 DEF ShardTypeOK
<1> SUFFICES ASSUME NEW r \in Shard, NEW id \in m_locked'[r]
             PROVE  \E e \in Dtx, i \in Idx :
                       Holds(r, e, i)' /\ id \in HeldInputs(r, e, i)'
  BY Zenon DEF LockHasHolder
<1>3. /\ id \in m_locked[r]
      /\ r = s => \A i \in DOMAIN txs : id \notin ShardInputs(s, txs[i])
  BY Zenon, <1>1 DEF ShardTypeOK
<1>4. PICK e \in Dtx, i \in Idx : Holds(r, e, i) /\ id \in HeldInputs(r, e, i)
  BY Zenon, <1>3 DEF LockHasHolder
<1>5. ~(r = s /\ e = d)
  BY Zenon, <1>3, <1>4 DEF Holds, HeldInputs
<1> QED
  BY <1>2, <1>4, <1>5 DEF Holds, HeldInputs, ShardInputs, hash_in_shard_range

\* Steps that leave the locks and the prepared batches alone.
LEMMA LocksUnchanged ==
    ASSUME UNCHANGED <<m_locked, m_prepared_dtxs>>
    PROVE  /\ LockHasHolder => LockHasHolder'
           /\ HolderHasLock => HolderHasLock'
BY DEF LockHasHolder, HolderHasLock, Holds, HeldInputs, ShardInputs,
       hash_in_shard_range

\* No lock is ever orphaned: whatever requests a shard is sent, an ID in
\* m_locked belongs to a prepared batch whose apply_outputs erases the lock.
THEOREM NoOrphanedLock == ShardSpec => []LockHasHolder
<1>1. ShardInit => LockHasHolder
  BY Zenon DEF ShardInit, LockHasHolder
<1>2. ShardTypeOK /\ LockHasHolder /\ [ShardNext]_shardVars => LockHasHolder'
  <2> SUFFICES ASSUME ShardTypeOK, LockHasHolder, [ShardNext]_shardVars
               PROVE  LockHasHolder'
    BY Zenon
  <2>1. CASE \E s \in Shard, d \in Dtx, txs \in SubBatch : LockFresh(s, d, txs)
    BY Zenon, <2>1, HolderLock
  <2>2. CASE \E s \in Shard, d \in Dtx, complete \in Flags :
               ApplyPrepared(s, d, complete)
    BY Zenon, <2>2, HolderApply
  <2>3. CASE UNCHANGED <<m_locked, m_prepared_dtxs>>
    BY Zenon, <2>3, LocksUnchanged
  <2> QED
    BY Zenon, <2>1, <2>2, <2>3, StepCases DEF ApplyFatal, discard_dtx, shardVars
<1> QED
  BY <1>1, <1>2, ShardTypeCorrect, PTL DEF ShardSpec

-----------------------------------------------------------------------------
\* Transactions prepared on one shard share no input.  Without it
\* HolderHasLock is not inductive: an apply would take another's locks.
PreparedDisjoint ==
    \A s \in Shard, d, e \in Dtx :
        \A i \in DOMAIN m_prepared_dtxs[s][d].m_txs,
           j \in DOMAIN m_prepared_dtxs[s][e].m_txs :
            d # e \/ i # j
                => HeldInputs(s, d, i) \cap HeldInputs(s, e, j) = {}

LockInv == ShardTypeOK /\ PreparedDisjoint /\ HolderHasLock

\* lock_outputs keeps the locks of the other prepared batches.
LEMMA LockInvLock ==
    ASSUME LockInv, NEW s \in Shard, NEW d \in Dtx, NEW txs \in SubBatch,
           NoConflict(s, d, txs), LockFresh(s, d, txs)
    PROVE  PreparedDisjoint' /\ HolderHasLock'
<1>1. PICK ok \in [DOMAIN txs -> BOOLEAN] :
         LET taken == UNION {ShardInputs(s, txs[i]) :
                               i \in {k \in DOMAIN txs : ok[k]}}
         IN /\ m_locked' = [m_locked EXCEPT ![s] = @ \cup taken]
            /\ m_prepared_dtxs' = [m_prepared_dtxs EXCEPT
                 ![s] = [@ EXCEPT ![d] = [m_txs |-> txs, m_results |-> ok]]]
  BY Zenon DEF LockFresh, Entry
<1>2. ShardTypeOK
  BY Zenon DEF LockInv
<1>3. \A r \in Shard, e \in Dtx :
         m_prepared_dtxs'[r][e] = IF r = s /\ e = d
                                  THEN [m_txs |-> txs, m_results |-> ok]
                                  ELSE m_prepared_dtxs[r][e]
  BY Zenon, <1>1, <1>2 DEF ShardTypeOK
<1>4. PreparedDisjoint'
  <2> SUFFICES ASSUME NEW r \in Shard, NEW e \in Dtx, NEW g \in Dtx,
                      NEW i \in DOMAIN m_prepared_dtxs'[r][e].m_txs,
                      NEW j \in DOMAIN m_prepared_dtxs'[r][g].m_txs,
                      e # g \/ i # j
               PROVE  ShardInputs(r, m_prepared_dtxs'[r][e].m_txs[i])
                        \cap ShardInputs(r, m_prepared_dtxs'[r][g].m_txs[j]) = {}
    BY Zenon DEF PreparedDisjoint, HeldInputs, ShardInputs, hash_in_shard_range
  <2>1. CASE r # s \/ (e # d /\ g # d)
    <3>1. /\ m_prepared_dtxs'[r][e] = m_prepared_dtxs[r][e]
          /\ m_prepared_dtxs'[r][g] = m_prepared_dtxs[r][g]
      BY Zenon, <1>3, <2>1
    <3> QED
      BY Zenon, <3>1 DEF LockInv, PreparedDisjoint, HeldInputs
  <2>2. CASE r = s /\ e = d /\ g = d
    BY <1>3, <2>2 DEF NoConflict
  <2>3. CASE r = s /\ e = d /\ g # d
    BY <1>3, <2>3 DEF NoConflict
  <2>4. CASE r = s /\ e # d /\ g = d
    <3>1. ShardInputs(s, txs[j])
            \cap ShardInputs(s, m_prepared_dtxs[s][e].m_txs[i]) = {}
      BY <1>3, <2>4 DEF NoConflict
    <3> QED
      BY <1>3, <2>4, <3>1
  <2> QED
    BY Zenon, <2>1, <2>2, <2>3, <2>4
<1>5. HolderHasLock'
  <2> SUFFICES ASSUME NEW r \in Shard, NEW e \in Dtx, NEW i \in Idx,
                      Holds(r, e, i)'
               PROVE  ShardInputs(r, m_prepared_dtxs'[r][e].m_txs[i])
                        \subseteq m_locked'[r]
    BY Zenon DEF HolderHasLock, HeldInputs, ShardInputs, hash_in_shard_range
  <2>1. CASE r = s /\ e = d
    BY <1>1, <1>2, <1>3, <2>1 DEF Holds, ShardTypeOK
  <2>2. CASE ~(r = s /\ e = d)
    <3>1. Holds(r, e, i)
      BY Zenon, <1>3, <2>2 DEF Holds
    <3>2. HeldInputs(r, e, i) \subseteq m_locked[r]
      BY Zenon, <3>1 DEF LockInv, HolderHasLock
    <3>3. m_locked[r] \subseteq m_locked'[r]
      BY Zenon, <1>1, <1>2 DEF ShardTypeOK
    <3> QED
      BY Zenon, <1>3, <2>2, <3>2, <3>3 DEF HeldInputs
  <2> QED
    BY Zenon, <2>1, <2>2
<1> QED
  BY Zenon, <1>4, <1>5

\* apply_outputs keeps the locks of the other prepared batches.
LEMMA LockInvApply ==
    ASSUME LockInv, NEW s \in Shard, NEW d \in Dtx, NEW complete \in Flags,
           ApplyPrepared(s, d, complete)
    PROVE  PreparedDisjoint' /\ HolderHasLock'
<1> DEFINE txs == m_prepared_dtxs[s][d].m_txs
<1>1. /\ m_locked' = [m_locked EXCEPT ![s] =
              @ \ UNION {ShardInputs(s, txs[i]) : i \in DOMAIN txs}]
      /\ m_prepared_dtxs' = [m_prepared_dtxs EXCEPT
             ![s] = [@ EXCEPT ![d] = NotPrepared]]
  BY Zenon DEF ApplyPrepared, Unlocked
<1>2. ShardTypeOK
  BY Zenon DEF LockInv
<1>3. \A r \in Shard, e \in Dtx :
         m_prepared_dtxs'[r][e] = IF r = s /\ e = d THEN NotPrepared
                                  ELSE m_prepared_dtxs[r][e]
  BY Zenon, <1>1, <1>2 DEF ShardTypeOK
<1>4. PreparedDisjoint'
  BY <1>3, NotPreparedType
  DEF LockInv, PreparedDisjoint, HeldInputs, ShardInputs, hash_in_shard_range
<1>5. HolderHasLock'
  <2> SUFFICES ASSUME NEW r \in Shard, NEW e \in Dtx, NEW i \in Idx,
                      Holds(r, e, i)'
               PROVE  ShardInputs(r, m_prepared_dtxs'[r][e].m_txs[i])
                        \subseteq m_locked'[r]
    BY Zenon DEF HolderHasLock, HeldInputs, ShardInputs, hash_in_shard_range
  <2>1. ~(r = s /\ e = d)
    BY Zenon, <1>3, NotPreparedType DEF Holds
  <2>2. Holds(r, e, i)
    BY Zenon, <1>3, <2>1 DEF Holds
  <2>3. HeldInputs(r, e, i) \subseteq m_locked[r]
    BY Zenon, <2>2 DEF LockInv, HolderHasLock
  <2>4. r = s => \A k \in DOMAIN txs :
                    HeldInputs(s, e, i) \cap ShardInputs(s, txs[k]) = {}
    BY Zenon, <2>1, <2>2 DEF LockInv, PreparedDisjoint, Holds, HeldInputs
  <2>5. HeldInputs(r, e, i) \subseteq m_locked'[r]
    BY <1>1, <1>2, <2>3, <2>4 DEF ShardTypeOK
  <2> QED
    BY Zenon, <1>3, <2>1, <2>5 DEF HeldInputs
<1> QED
  BY Zenon, <1>4, <1>5

\* When conflicting transactions are kept out of flight, a transaction that
\* lock_outputs reported as locked keeps its locks until its batch is applied.
THEOREM LocksKept ==
    ASSUME ConflictFree = TRUE
    PROVE  ShardSpec => []HolderHasLock
<1>1. ShardInit => LockInv
  BY TypeInit, NotPreparedType
  DEF ShardInit, LockInv, PreparedDisjoint, HolderHasLock, Holds
<1>2. LockInv /\ [ShardNext]_shardVars => LockInv'
  <2> SUFFICES ASSUME LockInv, [ShardNext]_shardVars
               PROVE  LockInv'
    BY Zenon
  <2>1. ShardTypeOK'
    BY Zenon, TypeStep DEF LockInv
  <2>2. CASE \E s \in Shard, d \in Dtx, txs \in SubBatch :
               NoConflict(s, d, txs) /\ LockFresh(s, d, txs)
    BY Zenon, <2>1, <2>2, LockInvLock DEF LockInv
  <2>3. CASE \E s \in Shard, d \in Dtx, complete \in Flags :
               ApplyPrepared(s, d, complete)
    BY Zenon, <2>1, <2>3, LockInvApply DEF LockInv
  <2>4. CASE UNCHANGED <<m_locked, m_prepared_dtxs>>
    <3>1. PreparedDisjoint'
      BY <2>4 DEF LockInv, PreparedDisjoint, HeldInputs, ShardInputs,
                  hash_in_shard_range
    <3> QED
      BY Zenon, <2>1, <2>4, <3>1, LocksUnchanged DEF LockInv
  <2> QED
    BY Zenon, <2>2, <2>3, <2>4, StepCases DEF ApplyFatal, discard_dtx, shardVars
<1>3. LockInv => HolderHasLock
  BY Zenon DEF LockInv
<1> QED
  BY <1>1, <1>2, <1>3, PTL DEF ShardSpec
=============================================================================

--------------------------- MODULE TwoPhase_proofs ---------------------------
(***************************************************************************)
(* Proofs about the two-phase commit coordinator and its locking shards,   *)
(* for any shards, transactions, batches, batch size and number of         *)
(* failovers.                                                              *)
(*                                                                         *)
(* OneDecision and LockHasHolder hold whatever arrives late, from          *)
(* PhaseInv: what the RSM recorded of a batch, what the leader executes of *)
(* it and the requests that are still under way agree. The other           *)
(* properties need that no request of a failed leader arrives late         *)
(* (ShardInv: what a shard knows of a batch fits the batch's phase) and    *)
(* that clients keep conflicting transactions out of flight (FlightInv:    *)
(* batches that are not decided share no input). HolderHasLock follows     *)
(* from all three.                                                         *)
(***************************************************************************)
EXTENDS TwoPhase, LockingShard_proofs

\* A batch the coordinator can build.
Batch == {b \in Seq(Attested) : Len(b) <= BatchSize}

DtxStates == {"none", "start", "prepare", "commit", "discard"}

ExecType ==
    [m_state : DtxStates, m_full_txs : Batch, m_tx_idxs : [Shard -> SUBSET Idx],
     m_complete_txs : Flags, answered : SUBSET Shard]

CommitType == [m_complete_txs : Flags, m_tx_idxs : [Shard -> SUBSET Idx]]

\* TypeOK with the bound on the size of a batch, without which the flags of a
\* batch have no bound either.
CoordTypeOK ==
    /\ m_prepare_txs \in [Dtx -> Batch]
    /\ m_commit_txs \in [Dtx -> CommitType]
    /\ m_discard_txs \subseteq Dtx
    /\ m_fatal \in BOOLEAN
    /\ m_current_txs \in Batch
    /\ m_exec \in [Dtx -> ExecType]
    /\ m_leader \in {"none", "recovering", "running"}
    /\ failovers \in 0..MaxFailovers
    /\ sealed \in [Dtx -> Batch]
    /\ decided \in [Dtx -> Flags]
    /\ finished \subseteq Dtx

\* The indexes of the transactions of d that shard s takes part in, and the
\* part of d that is sent to s.
Part(d, s) == TxIdxs(sealed[d])[s]

PartOf(d, s) == [i \in Part(d, s) |-> sealed[d][i]]

\* What the RSM has recorded of a batch: at most one phase, with the sealed
\* transactions and the flags decided.
Recorded(d) ==
    /\ sealed[d] = <<>> =>
         /\ m_prepare_txs[d] = <<>> /\ decided[d] = <<>>
         /\ m_exec[d].m_state = "none"
    /\ m_prepare_txs[d] # <<>> => m_prepare_txs[d] = sealed[d] /\ decided[d] = <<>>
    /\ decided[d] # <<>> => DOMAIN decided[d] = DOMAIN sealed[d]
    /\ Committed(d) =>
         /\ m_commit_txs[d].m_complete_txs = decided[d]
         /\ m_commit_txs[d].m_tx_idxs = TxIdxs(sealed[d])
         /\ d \notin m_discard_txs
    /\ d \in m_discard_txs => d \notin finished
    /\ (decided[d] # <<>>) <=> (Committed(d) \/ d \in m_discard_txs \/ d \in finished)
    /\ d \in finished => ~Committed(d)

\* What the leader knows of a batch it executes.
Executed(d) ==
    LET e == m_exec[d]
    IN /\ e.m_state = "start" =>
            /\ m_prepare_txs[d] = <<>> /\ decided[d] = <<>>
       /\ e.m_state = "prepare" =>
            /\ m_prepare_txs[d] # <<>>
            /\ DOMAIN e.m_complete_txs = DOMAIN sealed[d]
       /\ e.m_state \in {"start", "prepare"} =>
            e.m_full_txs = sealed[d] /\ e.m_tx_idxs = TxIdxs(sealed[d])
       /\ e.m_state = "commit" =>
            /\ Committed(d)
            /\ e.m_complete_txs = decided[d]
            /\ e.m_tx_idxs = TxIdxs(sealed[d])
       /\ e.m_state = "discard" => d \in m_discard_txs

\* Requests on their way carry the sealed transactions or the decided flags.
LateSound ==
    \A r \in lateRequests :
        /\ r.phase \in {"prepare", "commit", "discard"}
        /\ r.dtx \in Dtx /\ r.shard \in Shard
        /\ sealed[r.dtx] # <<>>
        /\ r.phase = "prepare" => r.data = PartOf(r.dtx, r.shard)
        /\ r.phase = "commit" =>
             /\ decided[r.dtx] # <<>>
             /\ r.data = [i \in Part(r.dtx, r.shard) |-> decided[r.dtx][i]]

PhaseInv ==
    /\ ShardTypeOK /\ CoordTypeOK
    /\ \A d \in Dtx : Recorded(d) /\ Executed(d)
    /\ LateSound

-----------------------------------------------------------------------------
\* What the provers need to know of batches, flags and indexes.
LEMMA BatchFacts ==
    ASSUME NEW b \in Batch
    PROVE  /\ DOMAIN b \subseteq Idx
           /\ b \in [DOMAIN b -> Attested]
           /\ b \in [DOMAIN b -> Tx]
           /\ b \in Seq(Tx)
           /\ (b = <<>>) <=> (DOMAIN b = {})
BY TransactionsAssumption, LockingShardAssumption DEF Batch, Idx

\* A dtx's decisions are one Boolean for each index (execute_prepare).
LEMMA FlagsFacts ==
    ASSUME NEW f \in Flags
    PROVE  /\ DOMAIN f \subseteq Idx
           /\ f \in [DOMAIN f -> BOOLEAN]
           /\ (f = <<>>) <=> (DOMAIN f = {})
<1>1. PICK I \in SUBSET Idx : f \in [I -> BOOLEAN]
  BY Zenon DEF Flags
<1> QED
  BY <1>1

\* The positions a shard gets of a batch are positions of the batch (add_tx).
LEMMA IdxsFacts ==
    ASSUME NEW b \in Batch
    PROVE  /\ TxIdxs(b) \in [Shard -> SUBSET Idx]
           /\ \A s \in Shard : TxIdxs(b)[s] \subseteq DOMAIN b
BY Zenon, BatchFacts DEF TxIdxs

\* An empty batch, no decisions and no positions are well-formed.
LEMMA EmptyFacts ==
    /\ <<>> \in Batch
    /\ <<>> \in Flags
    /\ NoIdxs \in [Shard -> SUBSET Idx]
    /\ NotCommitted \in CommitType
<1>1. <<>> \in Batch
  BY LockingShardAssumption DEF Batch
<1>2. <<>> \in Flags
  BY Zenon, NotPreparedType DEF NotPrepared
<1> QED
  BY Zenon, <1>1, <1>2 DEF NoIdxs, NotCommitted, CommitType

\* A distributed_tx object, field by field.
LEMMA DtxInFacts ==
    ASSUME NEW state \in DtxStates, NEW txs \in Batch,
           NEW idxs \in [Shard -> SUBSET Idx], NEW complete \in Flags
    PROVE  /\ DtxIn(state, txs, idxs, complete) \in ExecType
           /\ DtxIn(state, txs, idxs, complete).m_state = state
           /\ DtxIn(state, txs, idxs, complete).m_full_txs = txs
           /\ DtxIn(state, txs, idxs, complete).m_tx_idxs = idxs
           /\ DtxIn(state, txs, idxs, complete).m_complete_txs = complete
           /\ DtxIn(state, txs, idxs, complete).answered = {}
BY Zenon DEF DtxIn, ExecType

\* A dtx without an executor is in no phase.
LEMMA NotExecutingFacts ==
    NotExecuting \in ExecType /\ NotExecuting.m_state = "none"
BY DtxInFacts, EmptyFacts DEF NotExecuting, DtxStates

\* The indexes of a batch do not depend on the state.
LEMMA IdxsPrime ==
    ASSUME NEW d \in Dtx
    PROVE  TxIdxs(sealed[d])' = TxIdxs(sealed'[d])
BY Zenon DEF TxIdxs, ActiveIn, ShardInputs, ShardOutputs, hash_in_shard_range

\* Nothing about d changes.
Same(d) ==
    /\ m_prepare_txs'[d] = m_prepare_txs[d]
    /\ m_commit_txs'[d] = m_commit_txs[d]
    /\ d \in m_discard_txs' <=> d \in m_discard_txs
    /\ m_exec'[d] = m_exec[d]
    /\ sealed'[d] = sealed[d]
    /\ decided'[d] = decided[d]
    /\ d \in finished' <=> d \in finished

\* What a dtx recorded and executed outlives a step that leaves the dtx alone.
LEMMA FramePhase ==
    ASSUME NEW d \in Dtx, Recorded(d), Executed(d), Same(d)
    PROVE  Recorded(d)' /\ Executed(d)'
BY Zenon, IdxsPrime DEF Same, Recorded, Executed, Committed

\* Late requests stay sound while the batches they name do not change.
LEMMA FrameLate ==
    ASSUME LateSound, lateRequests' \subseteq lateRequests,
           \A d \in Dtx : sealed[d] # <<>> => sealed'[d] = sealed[d],
           \A d \in Dtx : decided[d] # <<>> => decided'[d] = decided[d]
    PROVE  LateSound'
<1> SUFFICES ASSUME NEW r \in lateRequests'
             PROVE  /\ r.phase \in {"prepare", "commit", "discard"}
                    /\ r.dtx \in Dtx /\ r.shard \in Shard
                    /\ sealed'[r.dtx] # <<>>
                    /\ r.phase = "prepare" => r.data = PartOf(r.dtx, r.shard)'
                    /\ r.phase = "commit" =>
                         /\ decided'[r.dtx] # <<>>
                         /\ r.data = [i \in Part(r.dtx, r.shard)' |->
                                        decided'[r.dtx][i]]
  BY Zenon DEF LateSound
<1>1. r \in lateRequests
  BY Zenon
<1>2. r.dtx \in Dtx /\ r.shard \in Shard /\ sealed[r.dtx] # <<>>
  BY Zenon, <1>1 DEF LateSound
<1>3. sealed'[r.dtx] = sealed[r.dtx]
  BY Zenon, <1>2
<1>4. TxIdxs(sealed[r.dtx])' = TxIdxs(sealed[r.dtx])
  BY Zenon, <1>2, <1>3, IdxsPrime
<1>5. Part(r.dtx, r.shard)' = Part(r.dtx, r.shard)
  BY Zenon, <1>4 DEF Part
<1>6. PartOf(r.dtx, r.shard)' = PartOf(r.dtx, r.shard)
  BY Zenon, <1>3, <1>5 DEF PartOf
<1> QED
  BY Zenon, <1>1, <1>2, <1>3, <1>5, <1>6 DEF LateSound

-----------------------------------------------------------------------------
\* PhaseInv is inductive: one lemma per action.
LEMMA PhaseInit == Init => PhaseInv
<1> SUFFICES ASSUME Init PROVE PhaseInv
  BY Zenon
<1>1. ShardTypeOK
  BY Zenon, TypeInit DEF Init
<1>2. CoordTypeOK
  <2>1. 0 \in 0..MaxFailovers
    BY TwoPhaseAssumption
  <2> QED
    BY Zenon, <2>1, EmptyFacts, NotExecutingFacts DEF Init, CoordInit, CoordTypeOK
<1>3. ASSUME NEW d \in Dtx PROVE Recorded(d) /\ Executed(d)
  BY Zenon, NotExecutingFacts DEF Init, CoordInit, Recorded, Executed, Committed
<1>4. LateSound
  BY Zenon DEF Init, CoordInit, LateSound
<1> QED
  BY Zenon, <1>1, <1>2, <1>3, <1>4 DEF PhaseInv

\* execute_transaction adds an attested transaction to the current batch.
LEMMA PhaseSubmit ==
    ASSUME PhaseInv, NEW t \in Tx, execute_transaction(t)
    PROVE  PhaseInv'
<1>1. UNCHANGED <<shardVars, m_prepare_txs, m_commit_txs, m_discard_txs, m_fatal,
                  m_exec, m_leader, lateRequests, failovers, sealed, decided,
                  finished>>
  BY Zenon DEF execute_transaction, smVars, historyVars
<1>2. ShardTypeOK'
  BY Zenon, <1>1, TypeUnchanged DEF PhaseInv
<1>3. m_current_txs' \in Batch
  <2>1. m_current_txs \in Seq(Attested) /\ Len(m_current_txs) < BatchSize
        /\ t \in Attested /\ m_current_txs' = Append(m_current_txs, t)
    BY Zenon DEF execute_transaction, PhaseInv, CoordTypeOK, Batch
  <2> QED
    BY <2>1, LockingShardAssumption DEF Batch
<1>4. CoordTypeOK'
  BY Zenon, <1>1, <1>3 DEF PhaseInv, CoordTypeOK
<1>5. \A e \in Dtx : Recorded(e)' /\ Executed(e)'
  BY Zenon, <1>1, FramePhase DEF PhaseInv, Same
<1>6. LateSound'
  BY Zenon, <1>1, FrameLate DEF PhaseInv
<1> QED
  BY Zenon, <1>2, <1>4, <1>5, <1>6 DEF PhaseInv

\* batch_executor_func seals the current batch under an unused dtx ID.
LEMMA PhaseSeal ==
    ASSUME PhaseInv, NEW d \in Dtx, SealBatch(d)
    PROVE  PhaseInv'
<1> DEFINE new == DtxIn("start", m_current_txs, TxIdxs(m_current_txs), <<>>)
<1>1. /\ UNCHANGED <<shardVars, m_prepare_txs, m_commit_txs, m_discard_txs,
                     m_fatal, m_leader, lateRequests, failovers, decided, finished>>
      /\ m_exec' = [m_exec EXCEPT ![d] = new]
      /\ sealed' = [sealed EXCEPT ![d] = m_current_txs]
      /\ m_current_txs' = <<>>
      /\ m_current_txs # <<>> /\ sealed[d] = <<>>
  BY Zenon DEF SealBatch, smVars
<1>2. CoordTypeOK /\ ShardTypeOK /\ LateSound
      /\ \A e \in Dtx : Recorded(e) /\ Executed(e)
  BY Zenon DEF PhaseInv
<1>3. m_current_txs \in Batch
  BY Zenon, <1>2 DEF CoordTypeOK
<1>4. /\ new \in ExecType /\ new.m_state = "start"
      /\ new.m_full_txs = m_current_txs
      /\ new.m_tx_idxs = TxIdxs(m_current_txs)
  BY <1>3, DtxInFacts, IdxsFacts, EmptyFacts DEF DtxStates
<1> HIDE DEF new
<1>5. CoordTypeOK'
  BY Zenon, <1>1, <1>2, <1>3, <1>4, EmptyFacts DEF CoordTypeOK
<1>6. m_exec'[d] = new /\ sealed'[d] = m_current_txs
  BY Zenon, <1>1, <1>2 DEF CoordTypeOK
<1>7. TxIdxs(sealed[d])' = TxIdxs(m_current_txs)
  BY Zenon, <1>6, IdxsPrime
<1>8. Recorded(d)' /\ Executed(d)'
  <2>1. m_prepare_txs[d] = <<>> /\ decided[d] = <<>>
    BY Zenon, <1>1, <1>2 DEF Recorded
  <2>2. ~Committed(d) /\ d \notin m_discard_txs /\ d \notin finished
    BY Zenon, <1>2, <2>1 DEF Recorded
  <2>3. Recorded(d)'
    BY Zenon, <1>1, <1>6, <2>1, <2>2 DEF Recorded, Committed
  <2>4. Executed(d)'
    BY Zenon, <1>1, <1>4, <1>6, <1>7, <2>1, <2>2 DEF Executed, Committed
  <2> QED
    BY Zenon, <2>3, <2>4
<1>9. ASSUME NEW e \in Dtx, e # d PROVE Recorded(e)' /\ Executed(e)'
  <2>1. Same(e)
    BY Zenon, <1>1, <1>2, <1>9 DEF Same, CoordTypeOK
  <2> QED
    BY Zenon, <1>2, <2>1, FramePhase
<1>10. LateSound'
  BY Zenon, <1>1, <1>2, FrameLate DEF CoordTypeOK
<1> QED
  BY Zenon, <1>1, <1>2, <1>5, <1>8, <1>9, <1>10, TypeUnchanged DEF PhaseInv

\* distributed_tx::prepare records the sealed transactions.
LEMMA PhasePrepare ==
    ASSUME PhaseInv, NEW d \in Dtx, prepare(d)
    PROVE  PhaseInv' /\ ~m_fatal'
<1> DEFINE full == m_exec[d].m_full_txs
           new == DtxIn("prepare", full, m_exec[d].m_tx_idxs, AllTrue(full))
<1>1. CoordTypeOK /\ ShardTypeOK /\ LateSound
      /\ \A e \in Dtx : Recorded(e) /\ Executed(e)
  BY Zenon DEF PhaseInv
<1>2. m_exec[d] \in ExecType /\ m_exec[d].m_state = "start"
  BY Zenon, <1>1 DEF prepare, CoordTypeOK
<1>3. full = sealed[d] /\ m_exec[d].m_tx_idxs = TxIdxs(sealed[d])
      /\ m_prepare_txs[d] = <<>> /\ decided[d] = <<>> /\ full \in Batch
  BY Zenon, <1>1, <1>2 DEF Executed, ExecType
<1>4. sealed[d] # <<>> /\ ~Committed(d) /\ d \notin m_discard_txs /\ d \notin finished
  BY Zenon, <1>1, <1>2, <1>3 DEF Recorded
<1>5. /\ UNCHANGED <<shardVars, m_current_txs, m_commit_txs, m_discard_txs,
                     m_leader, lateRequests, failovers, sealed, decided, finished>>
      /\ m_exec' = [m_exec EXCEPT ![d] = new]
      /\ m_prepare_txs' = [m_prepare_txs EXCEPT ![d] = full]
      /\ m_fatal' = FALSE
  BY Zenon, <1>3 DEF prepare, sm_prepare, Enter, historyVars
<1>6. AllTrue(full) \in Flags /\ DOMAIN AllTrue(full) = DOMAIN full
  BY Zenon, <1>3, BatchFacts, FlagsIntro DEF AllTrue
<1>7. /\ new \in ExecType /\ new.m_state = "prepare"
      /\ new.m_full_txs = full
      /\ new.m_tx_idxs = m_exec[d].m_tx_idxs
      /\ new.m_complete_txs = AllTrue(full)
  BY <1>2, <1>3, <1>6, DtxInFacts DEF DtxStates, ExecType
<1> HIDE DEF new, full
<1>8. CoordTypeOK'
  BY Zenon, <1>1, <1>3, <1>5, <1>7 DEF CoordTypeOK
<1>9. m_exec'[d] = new /\ m_prepare_txs'[d] = full /\ sealed'[d] = sealed[d]
  BY Zenon, <1>1, <1>5 DEF CoordTypeOK
<1>10. TxIdxs(sealed[d])' = TxIdxs(sealed[d])
  BY Zenon, <1>9, IdxsPrime
<1>11. Recorded(d)'
  BY Zenon, <1>1, <1>3, <1>4, <1>5, <1>9, <1>10 DEF Recorded, Committed
<1>12. Executed(d)'
  BY Zenon, <1>3, <1>4, <1>5, <1>6, <1>7, <1>9, <1>10 DEF Executed, Committed
<1>13. ASSUME NEW e \in Dtx, e # d PROVE Recorded(e)' /\ Executed(e)'
  <2>1. Same(e)
    BY Zenon, <1>1, <1>5, <1>13 DEF Same, CoordTypeOK
  <2> QED
    BY Zenon, <1>1, <2>1, FramePhase
<1>14. LateSound'
  BY Zenon, <1>1, <1>5, FrameLate
<1> QED
  BY Zenon, <1>1, <1>5, <1>8, <1>11, <1>12, <1>13, <1>14, TypeUnchanged DEF PhaseInv

\* distributed_tx::commit records the flags, once.
LEMMA PhaseCommit ==
    ASSUME PhaseInv, NEW d \in Dtx, commit(d)
    PROVE  /\ PhaseInv' /\ ~m_fatal'
           /\ decided[d] = <<>> /\ ~Committed(d) /\ m_prepare_txs[d] = sealed[d]
           /\ m_prepare_txs' = [m_prepare_txs EXCEPT ![d] = <<>>]
           /\ decided'[d] = m_exec[d].m_complete_txs /\ Committed(d)'
<1> DEFINE full == m_exec[d].m_full_txs
           complete == m_exec[d].m_complete_txs
           idxs == m_exec[d].m_tx_idxs
           new == DtxIn("commit", full, idxs, complete)
           rec == [m_complete_txs |-> complete, m_tx_idxs |-> idxs]
<1>1. CoordTypeOK /\ ShardTypeOK /\ LateSound
      /\ \A e \in Dtx : Recorded(e) /\ Executed(e)
  BY Zenon DEF PhaseInv
<1>2. m_exec[d] \in ExecType /\ m_exec[d].m_state = "prepare"
  BY Zenon, <1>1 DEF commit, CoordTypeOK
<1>3. /\ full = sealed[d] /\ idxs = TxIdxs(sealed[d]) /\ full \in Batch
      /\ m_prepare_txs[d] # <<>> /\ m_prepare_txs[d] = sealed[d]
      /\ decided[d] = <<>>
      /\ DOMAIN complete = DOMAIN sealed[d]
  BY Zenon, <1>1, <1>2 DEF Executed, Recorded, ExecType
<1>4. ~Committed(d) /\ d \notin m_discard_txs /\ d \notin finished
  BY Zenon, <1>1, <1>3 DEF Recorded
<1>5. /\ UNCHANGED <<shardVars, m_current_txs, m_discard_txs,
                     m_leader, lateRequests, failovers, sealed, finished>>
      /\ m_exec' = [m_exec EXCEPT ![d] = new]
      /\ m_prepare_txs' = [m_prepare_txs EXCEPT ![d] = <<>>]
      /\ m_commit_txs' = [m_commit_txs EXCEPT ![d] = rec]
      /\ decided' = [decided EXCEPT ![d] = complete]
      /\ m_fatal' = FALSE
  BY Zenon, <1>3, <1>4 DEF commit, sm_commit, Enter, Committed
<1>6. complete \in Flags /\ complete # <<>> /\ idxs \in [Shard -> SUBSET Idx]
  BY <1>2, <1>3, BatchFacts DEF ExecType
<1>7. /\ new \in ExecType /\ new.m_state = "commit"
      /\ new.m_tx_idxs = idxs /\ new.m_complete_txs = complete
  BY <1>3, <1>6, DtxInFacts DEF DtxStates
<1>8. /\ rec \in CommitType
      /\ rec.m_complete_txs = complete /\ rec.m_tx_idxs = idxs
      /\ rec # NotCommitted
  BY Zenon, <1>6 DEF NotCommitted, CommitType
<1> HIDE DEF new, full, complete, idxs, rec
<1>9. CoordTypeOK'
  BY Zenon, <1>1, <1>3, <1>5, <1>6, <1>7, <1>8, EmptyFacts DEF CoordTypeOK
<1>10. /\ m_exec'[d] = new /\ m_prepare_txs'[d] = <<>> /\ sealed'[d] = sealed[d]
       /\ m_commit_txs'[d] = rec /\ decided'[d] = complete
  BY Zenon, <1>1, <1>5 DEF CoordTypeOK
<1>11. TxIdxs(sealed[d])' = TxIdxs(sealed[d])
  BY Zenon, <1>10, IdxsPrime
<1>12. NotCommitted' = NotCommitted
  BY Zenon DEF NotCommitted, NoIdxs
<1>13. Recorded(d)'
  BY Zenon, <1>3, <1>4, <1>5, <1>6, <1>8, <1>10, <1>11, <1>12 DEF Recorded, Committed
<1>14. Executed(d)' /\ Committed(d)'
  BY Zenon, <1>3, <1>4, <1>5, <1>6, <1>7, <1>8, <1>10, <1>11, <1>12 DEF Executed, Committed
<1>15. ASSUME NEW e \in Dtx, e # d PROVE Recorded(e)' /\ Executed(e)'
  <2>1. Same(e)
    BY Zenon, <1>1, <1>5, <1>15 DEF Same, CoordTypeOK
  <2> QED
    BY Zenon, <1>1, <2>1, FramePhase
<1>16. LateSound'
  <2>1. \A e \in Dtx : decided[e] # <<>> => decided'[e] = decided[e]
    BY Zenon, <1>1, <1>3, <1>5 DEF CoordTypeOK
  <2> QED
    BY Zenon, <1>1, <1>5, <2>1, FrameLate
<1>17. PhaseInv'
  BY Zenon, <1>1, <1>5, <1>9, <1>13, <1>14, <1>15, <1>16, TypeUnchanged DEF PhaseInv
<1> QED
  BY Zenon, <1>3, <1>4, <1>5, <1>10, <1>14, <1>17 DEF complete

\* distributed_tx::discard moves a committed batch to the discard phase.
LEMMA PhaseDiscard ==
    ASSUME PhaseInv, NEW d \in Dtx, discard(d)
    PROVE  PhaseInv' /\ ~m_fatal' /\ ~Committed(d)'
<1> DEFINE full == m_exec[d].m_full_txs
           complete == m_exec[d].m_complete_txs
           idxs == m_exec[d].m_tx_idxs
           new == DtxIn("discard", full, idxs, complete)
<1>1. CoordTypeOK /\ ShardTypeOK /\ LateSound
      /\ \A e \in Dtx : Recorded(e) /\ Executed(e)
  BY Zenon DEF PhaseInv
<1>2. m_exec[d] \in ExecType /\ m_exec[d].m_state = "commit"
  BY Zenon, <1>1 DEF discard, CoordTypeOK
<1>3. Committed(d)
  BY Zenon, <1>1, <1>2 DEF Executed
<1>4. /\ d \notin m_discard_txs /\ d \notin finished /\ decided[d] # <<>>
      /\ m_prepare_txs[d] = <<>>
  BY Zenon, <1>1, <1>3 DEF Recorded
<1>5. /\ UNCHANGED <<shardVars, m_current_txs, m_prepare_txs, m_leader,
                     lateRequests, failovers, sealed, decided, finished>>
      /\ m_exec' = [m_exec EXCEPT ![d] = new]
      /\ m_commit_txs' = [m_commit_txs EXCEPT ![d] = NotCommitted]
      /\ m_discard_txs' = m_discard_txs \cup {d}
      /\ m_fatal' = FALSE
  BY Zenon, <1>3 DEF discard, sm_discard, Enter, historyVars
<1>6. new \in ExecType /\ new.m_state = "discard"
  BY <1>2, DtxInFacts DEF DtxStates, ExecType
<1> HIDE DEF new, full, complete, idxs
<1>7. CoordTypeOK'
  BY Zenon, <1>1, <1>5, <1>6, EmptyFacts DEF CoordTypeOK
<1>8. /\ m_exec'[d] = new /\ m_commit_txs'[d] = NotCommitted
      /\ sealed'[d] = sealed[d]
  BY Zenon, <1>1, <1>5 DEF CoordTypeOK
<1>9. NotCommitted' = NotCommitted /\ TxIdxs(sealed[d])' = TxIdxs(sealed[d])
  BY Zenon, <1>8, IdxsPrime DEF NotCommitted, NoIdxs
<1>10. Recorded(d)'
  BY Zenon, <1>1, <1>4, <1>5, <1>6, <1>8, <1>9 DEF Recorded, Committed
<1>11. Executed(d)' /\ ~Committed(d)'
  BY Zenon, <1>5, <1>6, <1>8, <1>9 DEF Executed, Committed
<1>12. ASSUME NEW e \in Dtx, e # d PROVE Recorded(e)' /\ Executed(e)'
  <2>1. Same(e)
    BY Zenon, <1>1, <1>5, <1>12 DEF Same, CoordTypeOK
  <2> QED
    BY Zenon, <1>1, <2>1, FramePhase
<1>13. LateSound'
  BY Zenon, <1>1, <1>5, FrameLate
<1> QED
  BY Zenon, <1>1, <1>5, <1>7, <1>10, <1>11, <1>12, <1>13, TypeUnchanged DEF PhaseInv

\* The end of distributed_tx::discard: the batch is done.
LEMMA PhaseDone ==
    ASSUME PhaseInv, NEW d \in Dtx, done(d)
    PROVE  PhaseInv' /\ ~m_fatal'
<1>1. CoordTypeOK /\ ShardTypeOK /\ LateSound
      /\ \A e \in Dtx : Recorded(e) /\ Executed(e)
  BY Zenon DEF PhaseInv
<1>2. d \in m_discard_txs
  BY Zenon, <1>1 DEF done, Executed
<1>3. ~Committed(d) /\ decided[d] # <<>> /\ m_prepare_txs[d] = <<>>
  BY Zenon, <1>1, <1>2 DEF Recorded
<1>4. /\ UNCHANGED <<shardVars, m_current_txs, m_prepare_txs, m_commit_txs,
                     m_leader, lateRequests, failovers, sealed, decided>>
      /\ m_exec' = [m_exec EXCEPT ![d] = NotExecuting]
      /\ m_discard_txs' = m_discard_txs \ {d}
      /\ finished' = finished \cup {d}
      /\ m_fatal' = FALSE
  BY Zenon, <1>2 DEF done, sm_done
<1>5. CoordTypeOK'
  BY Zenon, <1>1, <1>4, NotExecutingFacts DEF CoordTypeOK
<1>6. m_exec'[d].m_state = "none" /\ sealed'[d] = sealed[d]
  BY Zenon, <1>1, <1>4, NotExecutingFacts DEF CoordTypeOK
<1>7. NotCommitted' = NotCommitted /\ TxIdxs(sealed[d])' = TxIdxs(sealed[d])
  BY Zenon, <1>6, IdxsPrime DEF NotCommitted, NoIdxs
<1>8. Recorded(d)'
  BY Zenon, <1>1, <1>2, <1>3, <1>4, <1>6, <1>7 DEF Recorded, Committed
<1>9. Executed(d)'
  BY Zenon, <1>6 DEF Executed
<1>10. ASSUME NEW e \in Dtx, e # d PROVE Recorded(e)' /\ Executed(e)'
  <2>1. Same(e)
    BY Zenon, <1>1, <1>4, <1>10 DEF Same, CoordTypeOK
  <2> QED
    BY Zenon, <1>1, <2>1, FramePhase
<1>11. LateSound'
  BY Zenon, <1>1, <1>4, FrameLate
<1> QED
  BY Zenon, <1>1, <1>4, <1>5, <1>8, <1>9, <1>10, <1>11, TypeUnchanged DEF PhaseInv

\* What is sent to a shard: its part of the batch, or the flags of that part.
LEMMA PartFacts ==
    ASSUME CoordTypeOK, NEW d \in Dtx, NEW s \in Shard
    PROVE  /\ Part(d, s) \subseteq DOMAIN sealed[d]
           /\ Part(d, s) \subseteq Idx
           /\ PartOf(d, s) \in SubBatch
           /\ DOMAIN PartOf(d, s) = Part(d, s)
           /\ \A i \in Part(d, s) : PartOf(d, s)[i] = sealed[d][i]
<1>1. sealed[d] \in Batch
  BY Zenon DEF CoordTypeOK
<1>2. Part(d, s) \subseteq DOMAIN sealed[d] /\ Part(d, s) \subseteq Idx
  BY Zenon, <1>1, IdxsFacts, BatchFacts DEF Part
<1>3. sealed[d] \in [DOMAIN sealed[d] -> Tx]
  BY Zenon, <1>1, BatchFacts
<1>4. PartOf(d, s) \in [Part(d, s) -> Tx]
  BY Zenon, <1>2, <1>3 DEF PartOf
<1>5. PartOf(d, s) \in SubBatch
  BY Zenon, <1>2, <1>4 DEF SubBatch
<1> QED
  BY Zenon, <1>2, <1>4, <1>5 DEF PartOf

FlagsOf(d, s) == [i \in Part(d, s) |-> decided[d][i]]

\* The decisions a shard is sent are one for each transaction of its part
\* (distributed_tx::commit).
LEMMA FlagsOfFacts ==
    ASSUME CoordTypeOK, NEW d \in Dtx, NEW s \in Shard,
           DOMAIN decided[d] = DOMAIN sealed[d]
    PROVE  FlagsOf(d, s) \in Flags /\ DOMAIN FlagsOf(d, s) = Part(d, s)
<1>1. decided[d] \in [DOMAIN sealed[d] -> BOOLEAN]
  BY Zenon, FlagsFacts DEF CoordTypeOK
<1>2. FlagsOf(d, s) \in [Part(d, s) -> BOOLEAN]
  BY Zenon, <1>1, PartFacts DEF FlagsOf
<1> QED
  BY Zenon, <1>2, PartFacts, FlagsIntro

\* What an executor sends is the shard's part of the sealed batch, or of the
\* decisions (prepare, commit).
LEMMA PayloadFacts ==
    ASSUME PhaseInv, NEW d \in Dtx, NEW s \in Shard
    PROVE  /\ m_exec[d].m_state = "prepare" => Payload(d, s) = PartOf(d, s)
           /\ m_exec[d].m_state = "commit" =>
                /\ decided[d] # <<>>
                /\ Payload(d, s) = FlagsOf(d, s)
<1>1. Executed(d) /\ Recorded(d)
  BY Zenon DEF PhaseInv
<1>2. ASSUME m_exec[d].m_state = "prepare" PROVE Payload(d, s) = PartOf(d, s)
  <2>1. m_exec[d].m_full_txs = sealed[d] /\ m_exec[d].m_tx_idxs = TxIdxs(sealed[d])
    BY Zenon, <1>1, <1>2 DEF Executed
  <2> QED
    BY Zenon, <1>2, <2>1 DEF Payload, PartOf, Part
<1>3. ASSUME m_exec[d].m_state = "commit"
      PROVE  decided[d] # <<>> /\ Payload(d, s) = FlagsOf(d, s)
  <2>1. /\ m_exec[d].m_complete_txs = decided[d]
        /\ m_exec[d].m_tx_idxs = TxIdxs(sealed[d]) /\ Committed(d)
    BY Zenon, <1>1, <1>3 DEF Executed
  <2>2. decided[d] # <<>>
    BY Zenon, <1>1, <2>1 DEF Recorded
  <2> QED
    BY Zenon, <1>3, <2>1, <2>2 DEF Payload, FlagsOf, Part
<1> QED
  BY Zenon, <1>2, <1>3

\* What a request does to a shard.
LEMMA RequestCases ==
    ASSUME NEW s, NEW d, NEW phase, NEW data, process_request(s, d, phase, data)
    PROVE  /\ ~m_halted[s]
           /\ \/ phase = "prepare" /\ LockFresh(s, d, data)
              \/ phase = "prepare" /\ Prepared(s, d) /\ UNCHANGED shardVars
              \/ phase = "commit" /\ ApplyPrepared(s, d, data)
              \/ phase = "commit" /\ ~Prepared(s, d) /\ d \in m_applied_dtxs[s]
                                  /\ UNCHANGED shardVars
              \/ phase = "commit" /\ ApplyFatal(s, d, data)
              \/ phase = "discard" /\ discard_dtx(s, d)
BY Zenon DEF process_request, lock_outputs, apply_outputs, LockRepeated,
       ApplyRepeated, discard_dtx

\* Only a lock request that is not repeated and the apply of a prepared batch
\* change what is locked or prepared (lock_outputs, apply_outputs).
LEMMA LockChanges ==
    ASSUME NEW s, NEW d, NEW phase, NEW data, process_request(s, d, phase, data)
    PROVE  \/ phase = "prepare" /\ LockFresh(s, d, data)
           \/ phase = "commit" /\ ApplyPrepared(s, d, data)
           \/ UNCHANGED <<m_locked, m_prepared_dtxs>>
<1>1. UNCHANGED shardVars => UNCHANGED <<m_locked, m_prepared_dtxs>>
  BY Zenon DEF shardVars
<1>2. ApplyFatal(s, d, data) => UNCHANGED <<m_locked, m_prepared_dtxs>>
  BY Zenon DEF ApplyFatal
<1>3. discard_dtx(s, d) => UNCHANGED <<m_locked, m_prepared_dtxs>>
  BY Zenon DEF discard_dtx
<1> QED
  BY Zenon, <1>1, <1>2, <1>3, RequestCases

\* A locking shard that processes a request stays well-formed (lock_outputs,
\* apply_outputs, discard_dtx).
LEMMA RequestType ==
    ASSUME ShardTypeOK, NEW s \in Shard, NEW d \in Dtx, NEW phase, NEW data,
           phase = "prepare" => data \in SubBatch,
           phase = "commit" => data \in Flags,
           process_request(s, d, phase, data)
    PROVE  ShardTypeOK'
<1>1. CASE phase = "prepare" /\ LockFresh(s, d, data)
  BY Zenon, <1>1, TypeLock
<1>2. CASE phase = "commit" /\ ApplyPrepared(s, d, data)
  BY Zenon, <1>2, TypeApply
<1>3. CASE UNCHANGED shardVars
  BY Zenon, <1>3, TypeUnchanged
<1>4. CASE ApplyFatal(s, d, data)
  BY Zenon, <1>4 DEF ApplyFatal, ShardTypeOK, hash_in_shard_range
<1>5. CASE discard_dtx(s, d)
  BY Zenon, <1>5 DEF discard_dtx, ShardTypeOK, hash_in_shard_range
<1> QED
  BY Zenon, <1>1, <1>2, <1>3, <1>4, <1>5, RequestCases

\* The RPCs of the leader are well typed.
LEMMA LeaderRequestType ==
    ASSUME PhaseInv, NEW d \in Dtx, NEW s \in Shard,
           process_request(s, d, m_exec[d].m_state, Payload(d, s))
    PROVE  ShardTypeOK'
<1>1. CoordTypeOK /\ ShardTypeOK /\ Recorded(d)
  BY Zenon DEF PhaseInv
<1>2. m_exec[d].m_state = "prepare" => Payload(d, s) \in SubBatch
  BY Zenon, <1>1, PayloadFacts, PartFacts
<1>3. m_exec[d].m_state = "commit" => Payload(d, s) \in Flags
  BY Zenon, <1>1, PayloadFacts, FlagsOfFacts DEF Recorded
<1> QED
  BY Zenon, <1>1, <1>2, <1>3, RequestType

\* A lost answer leaves the coordinator alone.
LEMMA PhaseLost ==
    ASSUME PhaseInv, NEW d \in Dtx, NEW s \in Shard, AnswerLost(d, s)
    PROVE  PhaseInv'
<1>1. ShardTypeOK'
  BY Zenon, LeaderRequestType DEF AnswerLost
<1>2. UNCHANGED <<m_prepare_txs, m_commit_txs, m_discard_txs, m_fatal,
                  m_current_txs, m_exec, m_leader, lateRequests, failovers,
                  sealed, decided, finished>>
  BY Zenon DEF AnswerLost, coordVars, smVars, leaderVars, historyVars
<1>3. CoordTypeOK'
  BY Zenon, <1>2 DEF PhaseInv, CoordTypeOK
<1>4. \A e \in Dtx : Recorded(e)' /\ Executed(e)'
  BY Zenon, <1>2, FramePhase DEF PhaseInv, Same
<1>5. LateSound'
  BY Zenon, <1>2, FrameLate DEF PhaseInv
<1> QED
  BY Zenon, <1>1, <1>3, <1>4, <1>5 DEF PhaseInv

\* An answer changes the flags of the transactions it names and nothing else.
LEMMA PhaseAnswer ==
    ASSUME PhaseInv, NEW d \in Dtx, NEW s \in Shard, AnswerReceived(d, s)
    PROVE  /\ PhaseInv'
           /\ m_exec'[d].m_state = m_exec[d].m_state
           /\ m_exec'[d].m_tx_idxs = m_exec[d].m_tx_idxs
           /\ m_exec'[d].answered = m_exec[d].answered \cup {s}
           /\ m_exec'[d].m_complete_txs =
                IF m_exec[d].m_state = "prepare"
                THEN MergeResults(d, m_prepared_dtxs'[s][d].m_results)
                ELSE m_exec[d].m_complete_txs
           /\ \A e \in Dtx : e # d => m_exec'[e] = m_exec[e]
<1> DEFINE merged == MergeResults(d, m_prepared_dtxs'[s][d].m_results)
           complete == IF m_exec[d].m_state = "prepare" THEN merged
                       ELSE m_exec[d].m_complete_txs
           new == [m_state |-> m_exec[d].m_state,
                   m_full_txs |-> m_exec[d].m_full_txs,
                   m_tx_idxs |-> m_exec[d].m_tx_idxs,
                   m_complete_txs |-> complete,
                   answered |-> m_exec[d].answered \cup {s}]
<1>1. CoordTypeOK /\ ShardTypeOK /\ LateSound
      /\ \A e \in Dtx : Recorded(e) /\ Executed(e)
  BY Zenon DEF PhaseInv
<1>2. ShardTypeOK'
  BY Zenon, LeaderRequestType DEF AnswerReceived
<1>3. /\ UNCHANGED <<m_prepare_txs, m_commit_txs, m_discard_txs, m_current_txs,
                     m_leader, lateRequests, failovers, sealed, decided, finished>>
      /\ m_exec' = [m_exec EXCEPT ![d] = new]
      /\ m_fatal' \in BOOLEAN
  BY Zenon DEF AnswerReceived, smVars, historyVars
<1>4. m_exec[d] \in ExecType
  BY Zenon, <1>1 DEF CoordTypeOK
<1>5. /\ DOMAIN merged = DOMAIN m_exec[d].m_complete_txs
      /\ merged \in Flags
  <2>1. m_exec[d].m_complete_txs \in Flags
    BY Zenon, <1>4 DEF ExecType
  <2>2. merged \in [DOMAIN m_exec[d].m_complete_txs -> BOOLEAN]
    BY Zenon, <2>1, FlagsFacts DEF MergeResults
  <2> QED
    BY Zenon, <2>1, <2>2, FlagsFacts, FlagsIntro
<1> HIDE DEF merged
<1>6. complete \in Flags /\ DOMAIN complete = DOMAIN m_exec[d].m_complete_txs
  BY Zenon, <1>4, <1>5 DEF ExecType
<1>7. /\ new \in ExecType /\ new.m_state = m_exec[d].m_state
      /\ new.m_full_txs = m_exec[d].m_full_txs
      /\ new.m_tx_idxs = m_exec[d].m_tx_idxs
      /\ new.m_complete_txs = complete
      /\ new.answered = m_exec[d].answered \cup {s}
  BY Zenon, <1>4, <1>6 DEF ExecType
<1>8. m_exec[d].m_state = "commit" => complete = m_exec[d].m_complete_txs
  BY Zenon
<1> HIDE DEF new, complete
<1>9. CoordTypeOK'
  BY Zenon, <1>1, <1>3, <1>7 DEF CoordTypeOK
<1>10. m_exec'[d] = new /\ sealed'[d] = sealed[d]
  BY Zenon, <1>1, <1>3 DEF CoordTypeOK
<1>11. NotCommitted' = NotCommitted /\ TxIdxs(sealed[d])' = TxIdxs(sealed[d])
  BY Zenon, <1>10, IdxsPrime DEF NotCommitted, NoIdxs
<1>12. Recorded(d)'
  BY Zenon, <1>1, <1>3, <1>7, <1>10, <1>11 DEF Recorded, Committed
<1>13. Executed(d)'
  BY Zenon, <1>1, <1>3, <1>6, <1>7, <1>8, <1>10, <1>11 DEF Executed, Committed
<1>14. ASSUME NEW e \in Dtx, e # d PROVE Recorded(e)' /\ Executed(e)'
  <2>1. Same(e)
    BY Zenon, <1>1, <1>3, <1>14 DEF Same, CoordTypeOK
  <2> QED
    BY Zenon, <1>1, <2>1, FramePhase
<1>15. LateSound'
  BY Zenon, <1>1, <1>3, FrameLate
<1>16. PhaseInv'
  BY Zenon, <1>2, <1>9, <1>12, <1>13, <1>14, <1>15 DEF PhaseInv
<1>17. \A e \in Dtx : e # d => m_exec'[e] = m_exec[e]
  BY Zenon, <1>1, <1>3 DEF CoordTypeOK
<1> QED
  BY Zenon, <1>7, <1>10, <1>16, <1>17 DEF complete, merged

\* A request of a failed leader leaves the coordinator alone.
LEMMA PhaseLate ==
    ASSUME PhaseInv, NEW r \in lateRequests, LateRequest(r)
    PROVE  PhaseInv'
<1>1. CoordTypeOK /\ ShardTypeOK /\ LateSound
      /\ \A e \in Dtx : Recorded(e) /\ Executed(e)
  BY Zenon DEF PhaseInv
<1>2. r.dtx \in Dtx /\ r.shard \in Shard
  BY Zenon, <1>1 DEF LateSound
<1>3. r.phase = "prepare" => r.data \in SubBatch
  BY Zenon, <1>1, <1>2, PartFacts DEF LateSound
<1>4. r.phase = "commit" => r.data \in Flags
  BY Zenon, <1>1, <1>2, FlagsOfFacts DEF LateSound, Recorded, FlagsOf
<1>5. ShardTypeOK'
  BY Zenon, <1>1, <1>2, <1>3, <1>4, RequestType DEF LateRequest
<1>6. /\ UNCHANGED <<m_prepare_txs, m_commit_txs, m_discard_txs, m_fatal,
                     m_current_txs, m_exec, m_leader, failovers, sealed,
                     decided, finished>>
      /\ lateRequests' \subseteq lateRequests
  BY Zenon DEF LateRequest, smVars, historyVars
<1>7. CoordTypeOK'
  BY Zenon, <1>1, <1>6 DEF CoordTypeOK
<1>8. \A e \in Dtx : Recorded(e)' /\ Executed(e)'
  BY Zenon, <1>1, <1>6, FramePhase DEF Same
<1>9. LateSound'
  BY Zenon, <1>1, <1>6, FrameLate
<1> QED
  BY Zenon, <1>5, <1>7, <1>8, <1>9 DEF PhaseInv

\* A leader's outstanding RPCs carry what the RSM has recorded.
OutstandingOf(d) ==
    {[phase |-> m_exec[d].m_state, dtx |-> d, shard |-> s,
      data |-> Payload(d, s)] : s \in Unanswered(d)}

\* A request in flight, late or not, carries what was sealed and decided.
LEMMA OutstandingFacts ==
    ASSUME PhaseInv, NEW r \in Outstanding
    PROVE  /\ r.phase \in {"prepare", "commit", "discard"}
           /\ r.dtx \in Dtx /\ r.shard \in Shard
           /\ sealed[r.dtx] # <<>>
           /\ r.phase = "prepare" => r.data = PartOf(r.dtx, r.shard)
           /\ r.phase = "commit" =>
                decided[r.dtx] # <<>> /\ r.data = FlagsOf(r.dtx, r.shard)
<1>1. PICK d \in Dtx :
        /\ m_exec[d].m_state \in {"prepare", "commit", "discard"}
        /\ r \in OutstandingOf(d)
  BY Zenon DEF Outstanding, OutstandingOf
<1>2. PICK s \in Unanswered(d) :
         r = [phase |-> m_exec[d].m_state, dtx |-> d, shard |-> s,
              data |-> Payload(d, s)]
  BY Zenon, <1>1 DEF OutstandingOf
<1>3. s \in Shard
  BY Zenon, <1>2 DEF Unanswered, Participants
<1>4. r.phase = m_exec[d].m_state /\ r.dtx = d /\ r.shard = s
      /\ r.data = Payload(d, s)
  BY Zenon, <1>2
<1>5. sealed[d] # <<>>
  BY Zenon, <1>1 DEF PhaseInv, Recorded
<1> QED
  BY Zenon, <1>1, <1>3, <1>4, <1>5, PayloadFacts

\* A new leader starts from nothing.
LEMMA PhaseFails ==
    ASSUME PhaseInv, LeaderFails
    PROVE  PhaseInv'
<1>1. CoordTypeOK /\ ShardTypeOK /\ LateSound
      /\ \A e \in Dtx : Recorded(e) /\ Executed(e)
  BY Zenon DEF PhaseInv
<1>2. /\ UNCHANGED <<shardVars, m_prepare_txs, m_commit_txs, m_discard_txs,
                     m_fatal, sealed, decided, finished>>
      /\ m_current_txs' = <<>>
      /\ m_exec' = [d \in Dtx |-> NotExecuting]
      /\ m_leader' = "none"
      /\ lateRequests' \subseteq lateRequests \cup Outstanding
      /\ failovers' = failovers + 1 /\ failovers < MaxFailovers
  BY Zenon DEF LeaderFails, smVars, historyVars
<1>3. failovers' \in 0..MaxFailovers
  BY <1>1, <1>2, TwoPhaseAssumption DEF CoordTypeOK
<1>4. CoordTypeOK'
  BY Zenon, <1>1, <1>2, <1>3, EmptyFacts, NotExecutingFacts DEF CoordTypeOK
<1>5. ASSUME NEW e \in Dtx PROVE Recorded(e)' /\ Executed(e)'
  <2>1. m_exec'[e].m_state = "none"
    BY Zenon, <1>2, NotExecutingFacts
  <2>2. NotCommitted' = NotCommitted /\ TxIdxs(sealed[e])' = TxIdxs(sealed[e])
    BY Zenon, <1>2, IdxsPrime DEF NotCommitted, NoIdxs
  <2> QED
    BY Zenon, <1>1, <1>2, <2>1, <2>2 DEF Recorded, Executed, Committed
<1>6. LateSound'
  <2> SUFFICES ASSUME NEW r \in lateRequests \cup Outstanding
               PROVE  /\ r.phase \in {"prepare", "commit", "discard"}
                      /\ r.dtx \in Dtx /\ r.shard \in Shard
                      /\ sealed[r.dtx] # <<>>
                      /\ r.phase = "prepare" => r.data = PartOf(r.dtx, r.shard)
                      /\ r.phase = "commit" =>
                           decided[r.dtx] # <<>> /\ r.data = FlagsOf(r.dtx, r.shard)
    BY Zenon, <1>2 DEF LateSound, FlagsOf, Part, PartOf
  <2>1. CASE r \in lateRequests
    BY Zenon, <1>1, <2>1 DEF LateSound, FlagsOf
  <2>2. CASE r \in Outstanding
    BY Zenon, <2>2, OutstandingFacts
  <2> QED
    BY Zenon, <2>1, <2>2
<1> QED
  BY Zenon, <1>1, <1>2, <1>4, <1>5, <1>6, TypeUnchanged DEF PhaseInv

\* recovery_func takes every unfinished batch up where the RSM left it.
LEMMA RecoveredFacts ==
    ASSUME PhaseInv, NEW d \in Dtx
    PROVE  LET e == RecoveredDtx(d)
           IN /\ e \in ExecType /\ e.answered = {}
              /\ m_prepare_txs[d] # <<>> =>
                   /\ e.m_state = "prepare"
                   /\ e.m_full_txs = sealed[d] /\ e.m_tx_idxs = TxIdxs(sealed[d])
                   /\ DOMAIN e.m_complete_txs = DOMAIN sealed[d]
              /\ Committed(d) =>
                   /\ e.m_state = "commit" /\ e.m_tx_idxs = TxIdxs(sealed[d])
                   /\ e.m_complete_txs = decided[d]
              /\ d \in m_discard_txs => e.m_state = "discard"
              /\ m_prepare_txs[d] = <<>> /\ ~Committed(d) /\ d \notin m_discard_txs
                   => e.m_state = "none"
<1>1. CoordTypeOK /\ Recorded(d)
  BY Zenon DEF PhaseInv
<1>2. CASE m_prepare_txs[d] # <<>>
  <2>1. /\ m_prepare_txs[d] = sealed[d] /\ sealed[d] \in Batch
        /\ ~Committed(d) /\ d \notin m_discard_txs
    BY Zenon, <1>1, <1>2 DEF Recorded, CoordTypeOK
  <2>2. RecoveredDtx(d) = recover_prepare(d)
    BY Zenon, <1>2, <2>1 DEF RecoveredDtx
  <2>3. AllTrue(sealed[d]) \in Flags /\ DOMAIN AllTrue(sealed[d]) = DOMAIN sealed[d]
    BY Zenon, <2>1, BatchFacts, FlagsIntro DEF AllTrue
  <2> QED
    BY <1>2, <2>1, <2>2, <2>3, DtxInFacts, IdxsFacts DEF recover_prepare, DtxStates
<1>3. CASE Committed(d)
  <2>1. m_prepare_txs[d] = <<>> /\ d \notin m_discard_txs
    BY Zenon, <1>1, <1>3 DEF Recorded
  <2>2. RecoveredDtx(d) = recover_commit(d)
    BY Zenon, <1>3, <2>1 DEF RecoveredDtx
  <2>3. /\ m_commit_txs[d].m_complete_txs = decided[d]
        /\ m_commit_txs[d].m_tx_idxs = TxIdxs(sealed[d])
        /\ decided[d] \in Flags /\ sealed[d] \in Batch
    BY Zenon, <1>1, <1>3 DEF Recorded, CoordTypeOK
  <2> DEFINE x == DtxIn("commit", <<>>, TxIdxs(sealed[d]), decided[d])
  <2>4. RecoveredDtx(d) = x
    BY Zenon, <2>2, <2>3 DEF recover_commit
  <2>5. TxIdxs(sealed[d]) \in [Shard -> SUBSET Idx] /\ <<>> \in Batch
    BY Zenon, <2>3, IdxsFacts, EmptyFacts
  <2>6. "commit" \in DtxStates
    BY Zenon DEF DtxStates
  <2>7. /\ x \in ExecType /\ x.m_state = "commit" /\ x.m_tx_idxs = TxIdxs(sealed[d])
        /\ x.m_complete_txs = decided[d] /\ x.answered = {}
    BY <2>3, <2>5, <2>6, DtxInFacts
  <2> HIDE DEF x
  <2> QED
    BY Zenon, <1>3, <2>1, <2>4, <2>7
<1>4. CASE m_prepare_txs[d] = <<>> /\ ~Committed(d) /\ d \in m_discard_txs
  <2>1. RecoveredDtx(d) = recover_discard(d)
    BY Zenon, <1>4 DEF RecoveredDtx
  <2> QED
    BY <1>4, <2>1, DtxInFacts, EmptyFacts DEF recover_discard, DtxStates
<1>5. CASE m_prepare_txs[d] = <<>> /\ ~Committed(d) /\ d \notin m_discard_txs
  <2>1. RecoveredDtx(d) = NotExecuting
    BY Zenon, <1>5 DEF RecoveredDtx
  <2> QED
    BY <1>5, <2>1, DtxInFacts, EmptyFacts DEF NotExecuting, DtxStates
<1> QED
  BY Zenon, <1>2, <1>3, <1>4, <1>5

\* Recovery starts the executors from what raft replicated (recovery_func).
LEMMA PhaseRecovery ==
    ASSUME PhaseInv, recovery_func
    PROVE  PhaseInv'
<1>1. CoordTypeOK /\ ShardTypeOK /\ LateSound
      /\ \A e \in Dtx : Recorded(e) /\ Executed(e)
  BY Zenon DEF PhaseInv
<1>2. /\ UNCHANGED <<shardVars, m_prepare_txs, m_commit_txs, m_discard_txs,
                     m_fatal, m_current_txs, lateRequests, failovers, sealed,
                     decided, finished>>
      /\ m_exec' = [d \in Dtx |-> RecoveredDtx(d)]
      /\ m_leader' = "recovering"
  BY Zenon DEF recovery_func, smVars, historyVars
<1>3. CoordTypeOK'
  BY Zenon, <1>1, <1>2, RecoveredFacts DEF CoordTypeOK
<1>4. ASSUME NEW e \in Dtx PROVE Recorded(e)' /\ Executed(e)'
  <2>1. m_exec'[e] = RecoveredDtx(e)
    BY Zenon, <1>2
  <2>2. NotCommitted' = NotCommitted /\ TxIdxs(sealed[e])' = TxIdxs(sealed[e])
    BY Zenon, <1>2, IdxsPrime DEF NotCommitted, NoIdxs
  <2>3. Recorded(e)'
    BY Zenon, <1>1, <1>2, <2>1, <2>2, RecoveredFacts DEF Recorded, Committed
  <2>4. Executed(e)'
    BY Zenon, <1>1, <1>2, <2>1, <2>2, RecoveredFacts DEF Recorded, Executed, Committed
  <2> QED
    BY Zenon, <2>3, <2>4
<1>5. LateSound'
  BY Zenon, <1>1, <1>2, FrameLate
<1> QED
  BY Zenon, <1>1, <1>2, <1>3, <1>4, <1>5, TypeUnchanged DEF PhaseInv

\* A leader whose dtxs have all been recovered starts to serve (start).
LEMMA PhaseRecovered ==
    ASSUME PhaseInv, Recovered
    PROVE  PhaseInv'
<1>1. /\ UNCHANGED <<shardVars, m_prepare_txs, m_commit_txs, m_discard_txs,
                     m_fatal, m_current_txs, m_exec, lateRequests, failovers,
                     sealed, decided, finished>>
      /\ m_leader' = "running"
  BY Zenon DEF Recovered, smVars, historyVars
<1>2. CoordTypeOK'
  BY Zenon, <1>1 DEF PhaseInv, CoordTypeOK
<1>3. \A e \in Dtx : Recorded(e)' /\ Executed(e)'
  BY Zenon, <1>1, FramePhase DEF PhaseInv, Same
<1>4. LateSound'
  BY Zenon, <1>1, FrameLate DEF PhaseInv
<1> QED
  BY Zenon, <1>1, <1>2, <1>3, <1>4, TypeUnchanged DEF PhaseInv

\* Nothing changes in a step that changes no variable.
LEMMA PhaseStutter ==
    ASSUME PhaseInv, UNCHANGED vars
    PROVE  PhaseInv'
<1>1. UNCHANGED <<shardVars, m_prepare_txs, m_commit_txs, m_discard_txs, m_fatal,
                  m_current_txs, m_exec, m_leader, lateRequests, failovers,
                  sealed, decided, finished>>
  BY Zenon DEF vars, coordVars, smVars, leaderVars, historyVars
<1>2. CoordTypeOK'
  BY Zenon, <1>1 DEF PhaseInv, CoordTypeOK
<1>3. \A e \in Dtx : Recorded(e)' /\ Executed(e)'
  BY Zenon, <1>1, FramePhase DEF PhaseInv, Same
<1>4. LateSound'
  BY Zenon, <1>1, FrameLate DEF PhaseInv
<1> QED
  BY Zenon, <1>1, <1>2, <1>3, <1>4, TypeUnchanged DEF PhaseInv

\* The phase invariant is preserved by every step.
LEMMA PhaseStep == PhaseInv /\ [Next]_vars => PhaseInv'
BY Zenon, PhaseSubmit, PhaseSeal, PhasePrepare, PhaseCommit, PhaseDiscard, PhaseDone,
   PhaseLost, PhaseAnswer, PhaseLate, PhaseFails, PhaseRecovery,
   PhaseRecovered, PhaseStutter
DEF Next, Execute

\* All leaders apply one decision, for any number of shards, batches and
\* failovers, with and without conflicting transactions and late requests:
\* every apply request on its way carries the flags the RSM recorded.
THEOREM DecisionsAgree == Spec => []OneDecision
<1>1. PhaseInv => OneDecision
  <2> SUFFICES ASSUME PhaseInv, NEW r \in lateRequests \cup Outstanding,
                      r.phase = "commit", NEW i \in DOMAIN r.data
               PROVE  i \in DOMAIN decided[r.dtx] /\ r.data[i] = decided[r.dtx][i]
    BY Zenon DEF OneDecision
  <2>1. /\ r.dtx \in Dtx /\ r.shard \in Shard
        /\ decided[r.dtx] # <<>> /\ r.data = FlagsOf(r.dtx, r.shard)
    BY Zenon, OutstandingFacts DEF PhaseInv, LateSound, FlagsOf
  <2>2. DOMAIN decided[r.dtx] = DOMAIN sealed[r.dtx]
    BY Zenon, <2>1 DEF PhaseInv, Recorded
  <2> QED
    BY Zenon, <2>1, <2>2, PartFacts DEF PhaseInv, FlagsOf
<1> QED
  BY <1>1, PhaseInit, PhaseStep, PTL DEF Spec

-----------------------------------------------------------------------------
\* Without late requests: what the shards know of a batch.
ShardPhase(d, s) ==
    LET e == m_exec[d]
        p == m_prepared_dtxs[s][d]
    IN /\ Prepared(s, d) =>
            /\ p.m_txs = PartOf(d, s)
            /\ m_prepare_txs[d] # <<>> \/ Committed(d)
            /\ \A i \in Part(d, s) : Settles(d, i) => p.m_results[i]
       /\ e.m_state = "prepare" /\ s \in e.answered =>
            /\ Prepared(s, d)
            /\ \A i \in Part(d, s) : e.m_complete_txs[i] => p.m_results[i]
       /\ e.m_state = "commit" /\ s \in e.answered => ~Prepared(s, d)
       /\ Committed(d) /\ Part(d, s) # {} => Prepared(s, d) \/ d \in m_applied_dtxs[s]
       /\ d \in m_applied_dtxs[s] => decided[d] # <<>> /\ Part(d, s) # {}

\* As long as no leader has failed a batch is discarded on all participants.
NoFailoverYet(d) ==
    LET e == m_exec[d]
    IN failovers = 0 =>
        /\ m_leader # "running" => sealed[d] = <<>>
        /\ e.m_state = "discard" => e.m_tx_idxs = TxIdxs(sealed[d])
        /\ \A s \in Shard :
             d \in finished \/ (e.m_state = "discard" /\ s \in e.answered)
                => d \notin m_applied_dtxs[s]

ShardInv ==
    /\ lateRequests = {}
    /\ NoFatal
    /\ \A d \in Dtx : NoFailoverYet(d)
    /\ \A d \in Dtx, s \in Shard : ShardPhase(d, s)


\* What an RPC of the leader does: the shard locks, applies or forgets its
\* part of the batch, and never meets m_logger->fatal.
LEMMA LeaderRequest ==
    ASSUME PhaseInv, ShardInv, NEW d \in Dtx, NEW s \in Unanswered(d),
           process_request(s, d, m_exec[d].m_state, Payload(d, s))
    PROVE  /\ s \in Shard
           /\ Part(d, s) # {} \/ m_exec[d].m_state = "discard"
           /\ \A r \in Shard : ~m_halted'[r]
           /\ \A r \in Shard, e \in Dtx : e # d \/ r # s =>
                /\ m_prepared_dtxs'[r][e] = m_prepared_dtxs[r][e]
                /\ e \in m_applied_dtxs'[r] <=> e \in m_applied_dtxs[r]
           /\ \/ /\ m_exec[d].m_state = "prepare"
                 /\ m_prepared_dtxs'[s][d].m_txs = PartOf(d, s)
                 /\ m_applied_dtxs' = m_applied_dtxs
              \/ /\ m_exec[d].m_state = "commit"
                 /\ DOMAIN m_prepared_dtxs'[s][d].m_txs = {}
                 /\ d \in m_applied_dtxs'[s]
              \/ /\ m_exec[d].m_state = "discard"
                 /\ m_prepared_dtxs' = m_prepared_dtxs
                 /\ d \notin m_applied_dtxs'[s]
<1>1. CoordTypeOK /\ ShardTypeOK /\ Recorded(d) /\ Executed(d)
  BY Zenon DEF PhaseInv
<1>2. s \in Shard /\ m_exec[d].m_tx_idxs[s] # {}
  BY Zenon DEF Unanswered, Participants
<1>3. ShardPhase(d, s) /\ \A r \in Shard : ~m_halted[r]
  BY Zenon, <1>2 DEF ShardInv, NoFatal
<1>4. CASE m_exec[d].m_state = "prepare"
  <2>1. Payload(d, s) = PartOf(d, s) /\ Part(d, s) # {}
    BY Zenon, <1>1, <1>2, <1>4, PayloadFacts DEF Executed, Part
  <2>2. CASE LockFresh(s, d, PartOf(d, s))
    <3>1. PICK ok : m_prepared_dtxs' = [m_prepared_dtxs EXCEPT
                       ![s] = [@ EXCEPT ![d] = Entry(PartOf(d, s), ok)]]
      BY Zenon, <2>2 DEF LockFresh
    <3>2. m_prepared_dtxs'[s][d].m_txs = PartOf(d, s)
      BY Zenon, <1>1, <1>2, <3>1 DEF ShardTypeOK, Entry
    <3>3. \A r \in Shard, e \in Dtx : e # d \/ r # s =>
              m_prepared_dtxs'[r][e] = m_prepared_dtxs[r][e]
      BY Zenon, <1>1, <1>2, <3>1 DEF ShardTypeOK
    <3>4. m_applied_dtxs' = m_applied_dtxs /\ m_halted' = m_halted
      BY Zenon, <2>2 DEF LockFresh
    <3> QED
      BY Zenon, <1>2, <1>3, <1>4, <2>1, <3>2, <3>3, <3>4
  <2>3. CASE Prepared(s, d) /\ UNCHANGED shardVars
    BY Zenon, <1>2, <1>3, <1>4, <2>1, <2>3 DEF shardVars, ShardPhase
  <2>4. \/ LockFresh(s, d, Payload(d, s))
        \/ Prepared(s, d) /\ UNCHANGED shardVars
    BY Zenon, <1>4, RequestCases
  <2> QED
    BY Zenon, <2>1, <2>2, <2>3, <2>4
<1>5. CASE m_exec[d].m_state = "commit"
  <2>1. /\ Payload(d, s) = FlagsOf(d, s) /\ Part(d, s) # {} /\ Committed(d)
        /\ DOMAIN decided[d] = DOMAIN sealed[d]
    BY Zenon, <1>1, <1>2, <1>5, PayloadFacts DEF Executed, Recorded, Part
  <2>2. ~ApplyFatal(s, d, FlagsOf(d, s))
    <3>1. DOMAIN FlagsOf(d, s) = Part(d, s)
      BY Zenon, <1>1, <1>2, <2>1, FlagsOfFacts
    <3>2. Prepared(s, d) => DOMAIN m_prepared_dtxs[s][d].m_txs = Part(d, s)
      BY Zenon, <1>1, <1>2, <1>3, PartFacts DEF ShardPhase
    <3>3. Prepared(s, d) \/ d \in m_applied_dtxs[s]
      BY Zenon, <1>3, <2>1 DEF ShardPhase
    <3> QED
      BY Zenon, <3>1, <3>2, <3>3 DEF ApplyFatal
  <2>3. CASE ApplyPrepared(s, d, FlagsOf(d, s))
    <3>1. /\ m_prepared_dtxs' = [m_prepared_dtxs EXCEPT
                ![s] = [@ EXCEPT ![d] = NotPrepared]]
          /\ m_applied_dtxs' = [m_applied_dtxs EXCEPT ![s] = @ \cup {d}]
          /\ UNCHANGED m_halted
      BY Zenon, <2>3 DEF ApplyPrepared
    <3> QED
      BY Zenon, <1>1, <1>2, <1>3, <1>5, <2>1, <3>1, NotPreparedType DEF ShardTypeOK
  <2>4. CASE ~Prepared(s, d) /\ d \in m_applied_dtxs[s] /\ UNCHANGED shardVars
    BY Zenon, <1>2, <1>3, <1>5, <2>1, <2>4 DEF shardVars, Prepared
  <2> QED
    BY Zenon, <1>5, <2>1, <2>2, <2>3, <2>4, RequestCases
<1>6. CASE m_exec[d].m_state = "discard"
  <2>1. discard_dtx(s, d)
    BY Zenon, <1>6, RequestCases
  <2> QED
    BY Zenon, <1>1, <1>2, <1>3, <1>6, <2>1 DEF discard_dtx, ShardTypeOK
<1> QED
  BY Zenon, <1>4, <1>5, <1>6 DEF process_request

\* The parts of a batch do not change while its sealed transactions do not.
LEMMA PartSame ==
    ASSUME NEW d \in Dtx, NEW s \in Shard, sealed'[d] = sealed[d]
    PROVE  Part(d, s)' = Part(d, s) /\ PartOf(d, s)' = PartOf(d, s)
<1>1. TxIdxs(sealed[d])' = TxIdxs(sealed[d])
  BY Zenon, IdxsPrime
<1>2. Part(d, s)' = Part(d, s)
  BY Zenon, <1>1 DEF Part
<1> QED
  BY Zenon, <1>2 DEF PartOf

\* A step of the coordinator that gives d no new answers.
LEMMA FrameShard ==
    ASSUME NEW d \in Dtx, NEW s \in Shard, ShardPhase(d, s),
           m_prepared_dtxs' = m_prepared_dtxs, m_applied_dtxs' = m_applied_dtxs,
           sealed'[d] = sealed[d], decided'[d] = decided[d],
           m_prepare_txs'[d] = m_prepare_txs[d], m_commit_txs'[d] = m_commit_txs[d],
           m_exec'[d] = m_exec[d] \/ m_exec'[d].m_state \in {"none", "start"}
             \/ m_exec'[d].answered = {}
    PROVE  ShardPhase(d, s)'
<1>1. Part(d, s)' = Part(d, s) /\ PartOf(d, s)' = PartOf(d, s)
  BY Zenon, PartSame
<1>2. NotCommitted' = NotCommitted
  BY Zenon DEF NotCommitted, NoIdxs
<1> QED
  BY Zenon, <1>1, <1>2 DEF ShardPhase, Prepared, Committed, Settles

\* ShardInv is inductive relative to PhaseInv: one lemma per action.
LEMMA ShardInvInit == Init => ShardInv
<1> SUFFICES ASSUME Init PROVE ShardInv
  BY Zenon
<1>1. ASSUME NEW d \in Dtx PROVE NoFailoverYet(d)
  BY Zenon, NotExecutingFacts DEF Init, CoordInit, NoFailoverYet
<1>2. ASSUME NEW d \in Dtx, NEW s \in Shard PROVE ShardPhase(d, s)
  <2>1. ~Prepared(s, d) /\ d \notin m_applied_dtxs[s]
    BY Zenon, NotPreparedType DEF Init, ShardInit, Prepared
  <2>2. m_exec[d].m_state = "none" /\ ~Committed(d)
    BY Zenon, NotExecutingFacts DEF Init, CoordInit, Committed
  <2> QED
    BY Zenon, <2>1, <2>2 DEF ShardPhase
<1>3. NoFatal
  BY Zenon DEF Init, CoordInit, ShardInit, NoFatal
<1> QED
  BY Zenon, <1>1, <1>2, <1>3 DEF ShardInv, Init, CoordInit

\* Steps of the coordinator that change neither a shard nor what it records
\* of a batch, and that give no batch a new answer.
LEMMA ShardInvQuiet ==
    ASSUME ShardInv,
           UNCHANGED <<shardVars, m_prepare_txs, m_commit_txs, m_discard_txs,
                       decided, finished>>,
           lateRequests' = {}, ~m_fatal',
           \A d \in Dtx : NoFailoverYet(d)',
           \A d \in Dtx : sealed'[d] = sealed[d] /\
               (\/ m_exec'[d] = m_exec[d]
                \/ m_exec'[d].m_state \in {"none", "start"}
                \/ m_exec'[d].answered = {})
    PROVE  ShardInv'
<1>1. ASSUME NEW d \in Dtx, NEW s \in Shard PROVE ShardPhase(d, s)'
  BY Zenon, FrameShard DEF ShardInv, shardVars
<1>2. NoFatal'
  BY Zenon DEF ShardInv, NoFatal, shardVars
<1> QED
  BY Zenon, <1>1, <1>2 DEF ShardInv

\* A submitted transaction reaches no shard yet (execute_transaction).
LEMMA ShardInvSubmit ==
    ASSUME ShardInv, NEW t \in Tx, execute_transaction(t)
    PROVE  ShardInv'
<1>1. UNCHANGED <<shardVars, m_prepare_txs, m_commit_txs, m_discard_txs, m_fatal,
                  m_exec, m_leader, lateRequests, failovers, sealed, decided,
                  finished>>
  BY Zenon DEF execute_transaction, smVars, historyVars
<1>2. \A d \in Dtx : NoFailoverYet(d)'
  BY Zenon, <1>1, IdxsPrime DEF ShardInv, NoFailoverYet, shardVars
<1> QED
  BY Zenon, <1>1, <1>2, ShardInvQuiet DEF ShardInv, NoFatal

\* Sealing a batch sends nothing (batch_executor_func).
LEMMA ShardInvSeal ==
    ASSUME PhaseInv, ShardInv, NEW d \in Dtx, SealBatch(d)
    PROVE  ShardInv'
<1> DEFINE new == DtxIn("start", m_current_txs, TxIdxs(m_current_txs), <<>>)
<1>1. /\ UNCHANGED <<shardVars, m_prepare_txs, m_commit_txs, m_discard_txs,
                     m_fatal, m_leader, lateRequests, failovers, decided, finished>>
      /\ m_exec' = [m_exec EXCEPT ![d] = new]
      /\ sealed' = [sealed EXCEPT ![d] = m_current_txs]
      /\ m_leader = "running" /\ sealed[d] = <<>>
  BY Zenon DEF SealBatch, smVars
<1>2. CoordTypeOK /\ Recorded(d)
  BY Zenon DEF PhaseInv
<1>3. m_exec'[d].m_state = "start"
  BY Zenon, <1>1, <1>2 DEF CoordTypeOK, DtxIn
<1> HIDE DEF new
<1>4. /\ m_prepare_txs[d] = <<>> /\ decided[d] = <<>> /\ ~Committed(d)
      /\ d \notin m_discard_txs /\ d \notin finished
  BY Zenon, <1>1, <1>2 DEF Recorded
<1>5. \A e \in Dtx : e # d => m_exec'[e] = m_exec[e] /\ sealed'[e] = sealed[e]
  BY Zenon, <1>1, <1>2 DEF CoordTypeOK
<1>6. NotCommitted' = NotCommitted
  BY Zenon DEF NotCommitted, NoIdxs
<1>7. ASSUME NEW s \in Shard PROVE ShardPhase(d, s)'
  <2>1. ~Prepared(s, d) /\ d \notin m_applied_dtxs[s]
    BY Zenon, <1>4, <1>7 DEF ShardInv, ShardPhase
  <2>2. ~Prepared(s, d)' /\ d \notin m_applied_dtxs'[s] /\ ~Committed(d)'
    BY Zenon, <1>1, <1>4, <1>6, <2>1 DEF shardVars, Prepared, Committed
  <2> QED
    BY Zenon, <1>3, <2>2 DEF ShardPhase
<1>8. ASSUME NEW e \in Dtx, NEW s \in Shard, e # d PROVE ShardPhase(e, s)'
  BY Zenon, <1>1, <1>5, <1>8, FrameShard DEF ShardInv, shardVars
<1>9. ASSUME NEW e \in Dtx PROVE NoFailoverYet(e)'
  <2>1. CASE e = d
    BY Zenon, <1>1, <1>3, <1>4, <2>1 DEF NoFailoverYet
  <2>2. CASE e # d
    <3>1. TxIdxs(sealed[e])' = TxIdxs(sealed[e])
      BY Zenon, <1>5, <2>2, IdxsPrime
    <3> QED
      BY Zenon, <1>1, <1>5, <2>2, <3>1 DEF ShardInv, NoFailoverYet, shardVars
  <2> QED
    BY Zenon, <2>1, <2>2
<1> QED
  BY Zenon, <1>1, <1>7, <1>8, <1>9 DEF ShardInv, NoFatal, shardVars

\* Replicating the prepare command sends nothing (prepare_cb).
LEMMA ShardInvPrepare ==
    ASSUME PhaseInv, ShardInv, NEW d \in Dtx, prepare(d)
    PROVE  ShardInv'
<1>1. PhaseInv' /\ ~m_fatal'
  BY Zenon, PhasePrepare
<1>2. CoordTypeOK /\ Recorded(d) /\ Executed(d) /\ m_exec[d].m_state = "start"
  BY Zenon DEF PhaseInv, prepare
<1>3. /\ UNCHANGED <<shardVars, m_commit_txs, m_discard_txs, m_leader,
                     lateRequests, failovers, sealed, decided, finished>>
      /\ \A e \in Dtx : e # d => m_exec'[e] = m_exec[e]
                                 /\ m_prepare_txs'[e] = m_prepare_txs[e]
  BY Zenon, <1>2 DEF prepare, sm_prepare, Enter, historyVars, CoordTypeOK
<1>4. m_exec'[d].m_state = "prepare" /\ m_exec'[d].answered = {}
  BY Zenon, <1>2 DEF prepare, Enter, CoordTypeOK, DtxIn
<1>5. ~Committed(d) /\ m_prepare_txs[d] = <<>> /\ decided[d] = <<>> /\ d \notin finished
  BY Zenon, <1>2 DEF Executed, Recorded
<1>6. NotCommitted' = NotCommitted
  BY Zenon DEF NotCommitted, NoIdxs
<1>7. ASSUME NEW s \in Shard PROVE ShardPhase(d, s)'
  <2>1. ~Prepared(s, d) /\ d \notin m_applied_dtxs[s]
    BY Zenon, <1>5, <1>7 DEF ShardInv, ShardPhase
  <2>2. ~Prepared(s, d)' /\ d \notin m_applied_dtxs'[s] /\ ~Committed(d)'
    BY Zenon, <1>3, <1>5, <1>6, <2>1 DEF shardVars, Prepared, Committed
  <2> QED
    BY Zenon, <1>4, <2>2 DEF ShardPhase
<1>8. ASSUME NEW e \in Dtx, NEW s \in Shard, e # d PROVE ShardPhase(e, s)'
  BY Zenon, <1>3, <1>8, FrameShard DEF ShardInv, shardVars
<1>9. ASSUME NEW e \in Dtx PROVE NoFailoverYet(e)'
  <2>1. CASE e = d
    BY Zenon, <1>3, <1>4, <1>5, <2>1 DEF ShardInv, NoFailoverYet
  <2>2. CASE e # d
    <3>1. TxIdxs(sealed[e])' = TxIdxs(sealed[e])
      BY Zenon, <1>3, IdxsPrime
    <3> QED
      BY Zenon, <1>3, <2>2, <3>1 DEF ShardInv, NoFailoverYet, shardVars
  <2> QED
    BY Zenon, <2>1, <2>2
<1> QED
  BY Zenon, <1>1, <1>3, <1>7, <1>8, <1>9 DEF ShardInv, NoFatal, shardVars

\* The flags recorded are those every participant has confirmed.
LEMMA ShardInvCommit ==
    ASSUME PhaseInv, ShardInv, NEW d \in Dtx, commit(d)
    PROVE  /\ ShardInv'
           /\ \A s \in Shard : Part(d, s) # {} => Prepared(s, d)
<1>1. /\ PhaseInv' /\ ~m_fatal' /\ Committed(d)'
      /\ decided'[d] = m_exec[d].m_complete_txs /\ decided[d] = <<>>
  BY Zenon, PhaseCommit
<1>2. CoordTypeOK /\ Recorded(d) /\ Executed(d) /\ m_exec[d].m_state = "prepare"
  BY Zenon DEF PhaseInv, commit
<1>3. /\ UNCHANGED <<shardVars, m_discard_txs, m_leader, lateRequests,
                     failovers, sealed, finished>>
      /\ \A e \in Dtx : e # d => /\ m_exec'[e] = m_exec[e]
                                 /\ m_prepare_txs'[e] = m_prepare_txs[e]
                                 /\ m_commit_txs'[e] = m_commit_txs[e]
                                 /\ decided'[e] = decided[e]
  BY Zenon, <1>2 DEF commit, sm_commit, Enter, CoordTypeOK
<1>4. m_exec'[d].m_state = "commit" /\ m_exec'[d].answered = {}
  BY Zenon, <1>2 DEF commit, Enter, CoordTypeOK, DtxIn
<1>5. d \notin finished /\ decided'[d] # <<>>
  BY Zenon, <1>1, <1>2 DEF Recorded, PhaseInv
<1>6. ASSUME NEW s \in Shard
      PROVE  /\ Part(d, s) # {} => Prepared(s, d)
             /\ \A i \in Part(d, s) : m_exec[d].m_complete_txs[i] =>
                  m_prepared_dtxs[s][d].m_results[i]
  <2>1. Part(d, s) # {} => s \in m_exec[d].answered
    BY Zenon, <1>2 DEF Executed, Part, commit, AllAnswered, Unanswered, Participants
  <2> QED
    BY Zenon, <1>2, <2>1 DEF ShardInv, ShardPhase
<1>7. ASSUME NEW s \in Shard PROVE ShardPhase(d, s)'
  <2>1. Part(d, s)' = Part(d, s) /\ PartOf(d, s)' = PartOf(d, s)
    BY Zenon, <1>3, PartSame
  <2>2. m_prepared_dtxs' = m_prepared_dtxs /\ m_applied_dtxs' = m_applied_dtxs
    BY Zenon, <1>3 DEF shardVars
  <2>3. ShardPhase(d, s)
    BY Zenon DEF ShardInv
  <2> QED
    BY Zenon, <1>1, <1>4, <1>5, <1>6, <2>1, <2>2, <2>3 DEF ShardPhase, Prepared, Settles
<1>8. ASSUME NEW e \in Dtx, NEW s \in Shard, e # d PROVE ShardPhase(e, s)'
  BY Zenon, <1>3, <1>8, FrameShard DEF ShardInv, shardVars
<1>9. ASSUME NEW e \in Dtx PROVE NoFailoverYet(e)'
  <2>1. CASE e = d
    BY Zenon, <1>3, <1>4, <1>5, <2>1 DEF ShardInv, NoFailoverYet
  <2>2. CASE e # d
    <3>1. TxIdxs(sealed[e])' = TxIdxs(sealed[e])
      BY Zenon, <1>3, IdxsPrime
    <3> QED
      BY Zenon, <1>3, <2>2, <3>1 DEF ShardInv, NoFailoverYet, shardVars
  <2> QED
    BY Zenon, <2>1, <2>2
<1> QED
  BY Zenon, <1>1, <1>3, <1>6, <1>7, <1>8, <1>9 DEF ShardInv, NoFatal, shardVars

\* When every participant has applied, no shard has the batch prepared.
LEMMA ShardInvDiscard ==
    ASSUME PhaseInv, ShardInv, NEW d \in Dtx, discard(d)
    PROVE  ShardInv'
<1>1. PhaseInv' /\ ~m_fatal' /\ ~Committed(d)'
  BY Zenon, PhaseDiscard
<1>2. CoordTypeOK /\ Recorded(d) /\ Executed(d) /\ m_exec[d].m_state = "commit"
  BY Zenon DEF PhaseInv, discard
<1>3. /\ UNCHANGED <<shardVars, m_prepare_txs, m_leader, lateRequests,
                     failovers, sealed, decided, finished>>
      /\ \A e \in Dtx : e # d => /\ m_exec'[e] = m_exec[e]
                                 /\ m_commit_txs'[e] = m_commit_txs[e]
  BY Zenon, <1>2 DEF discard, sm_discard, Enter, CoordTypeOK, historyVars
<1>4. /\ m_exec'[d].m_state = "discard" /\ m_exec'[d].answered = {}
      /\ m_exec'[d].m_tx_idxs = TxIdxs(sealed[d])
  BY Zenon, <1>2 DEF discard, Enter, CoordTypeOK, DtxIn, Executed
<1>5. d \notin finished
  BY Zenon, <1>2 DEF Recorded, Executed
<1>6. ASSUME NEW s \in Shard PROVE ~Prepared(s, d)
  <2>1. ShardPhase(d, s)
    BY Zenon DEF ShardInv
  <2>2. Part(d, s) # {} => s \in m_exec[d].answered
    BY Zenon, <1>2 DEF Executed, Part, discard, AllAnswered, Unanswered, Participants
  <2>3. Prepared(s, d) => Part(d, s) # {}
    BY Zenon, <1>2, <2>1, PartFacts DEF ShardPhase, Prepared
  <2> QED
    BY Zenon, <1>2, <2>1, <2>2, <2>3 DEF ShardPhase
<1>7. ASSUME NEW s \in Shard PROVE ShardPhase(d, s)'
  <2>1. Part(d, s)' = Part(d, s)
    BY Zenon, <1>3, PartSame
  <2>2. ~Prepared(s, d)' /\ m_applied_dtxs' = m_applied_dtxs
    BY Zenon, <1>3, <1>6 DEF shardVars, Prepared
  <2>3. ShardPhase(d, s)
    BY Zenon DEF ShardInv
  <2> QED
    BY Zenon, <1>1, <1>3, <1>4, <2>1, <2>2, <2>3 DEF ShardPhase
<1>8. ASSUME NEW e \in Dtx, NEW s \in Shard, e # d PROVE ShardPhase(e, s)'
  BY Zenon, <1>3, <1>8, FrameShard DEF ShardInv, shardVars
<1>9. ASSUME NEW e \in Dtx PROVE NoFailoverYet(e)'
  <2>1. TxIdxs(sealed[e])' = TxIdxs(sealed[e])
    BY Zenon, <1>3, IdxsPrime
  <2>2. CASE e = d
    BY Zenon, <1>3, <1>4, <1>5, <2>1, <2>2 DEF ShardInv, NoFailoverYet
  <2>3. CASE e # d
    BY Zenon, <1>3, <2>1, <2>3 DEF ShardInv, NoFailoverYet, shardVars
  <2> QED
    BY Zenon, <2>2, <2>3
<1> QED
  BY Zenon, <1>1, <1>3, <1>7, <1>8, <1>9 DEF ShardInv, NoFatal, shardVars

\* When every participant has forgotten the batch, it is done.
LEMMA ShardInvDone ==
    ASSUME PhaseInv, ShardInv, NEW d \in Dtx, done(d)
    PROVE  ShardInv'
<1>1. PhaseInv' /\ ~m_fatal'
  BY Zenon, PhaseDone
<1>2. CoordTypeOK /\ Recorded(d) /\ Executed(d) /\ m_exec[d].m_state = "discard"
  BY Zenon DEF PhaseInv, done
<1>3. /\ UNCHANGED <<shardVars, m_prepare_txs, m_commit_txs, m_leader,
                     lateRequests, failovers, sealed, decided>>
      /\ finished' = finished \cup {d}
      /\ m_exec'[d].m_state = "none"
      /\ \A e \in Dtx : e # d => m_exec'[e] = m_exec[e]
  BY Zenon, <1>2, NotExecutingFacts DEF done, sm_done, CoordTypeOK
<1>4. ASSUME NEW e \in Dtx, NEW s \in Shard PROVE ShardPhase(e, s)'
  BY Zenon, <1>3, FrameShard DEF ShardInv, shardVars
<1>5. ASSUME NEW e \in Dtx PROVE NoFailoverYet(e)'
  <2>1. TxIdxs(sealed[e])' = TxIdxs(sealed[e]) /\ NoFailoverYet(e)
    BY Zenon, <1>3, IdxsPrime DEF ShardInv
  <2>2. CASE e = d
    <3>1. ASSUME failovers = 0, NEW s \in Shard PROVE d \notin m_applied_dtxs[s]
      <4>1. /\ m_exec[d].m_tx_idxs = TxIdxs(sealed[d])
            /\ s \in m_exec[d].answered => d \notin m_applied_dtxs[s]
        BY Zenon, <1>2, <2>1, <2>2, <3>1 DEF NoFailoverYet
      <4>2. Part(d, s) # {} => s \in m_exec[d].answered
        BY Zenon, <4>1 DEF Part, done, AllAnswered, Unanswered, Participants
      <4> QED
        BY Zenon, <4>1, <4>2 DEF ShardInv, ShardPhase
    <3> QED
      BY Zenon, <1>3, <2>1, <2>2, <3>1 DEF NoFailoverYet, shardVars
  <2>3. CASE e # d
    BY Zenon, <1>3, <2>1, <2>3 DEF NoFailoverYet, shardVars
  <2> QED
    BY Zenon, <2>2, <2>3
<1> QED
  BY Zenon, <1>1, <1>3, <1>4, <1>5 DEF ShardInv, NoFatal, shardVars

\* An RPC keeps what the shard knows of its batch consistent with its phase,
\* whether or not the answer arrives.
LEMMA ShardInvRequest ==
    ASSUME PhaseInv, ShardInv, NEW d \in Dtx, NEW s \in Unanswered(d),
           process_request(s, d, m_exec[d].m_state, Payload(d, s)),
           UNCHANGED <<m_prepare_txs, m_commit_txs, m_discard_txs, m_leader,
                       lateRequests, failovers, sealed, decided, finished>>,
           ~m_fatal',
           \A e \in Dtx : e # d => m_exec'[e] = m_exec[e],
           m_exec'[d].m_state = m_exec[d].m_state,
           m_exec'[d].m_tx_idxs = m_exec[d].m_tx_idxs,
           m_exec'[d].answered \subseteq m_exec[d].answered \cup {s},
           m_exec[d].m_state = "prepare" =>
               \A i \in DOMAIN sealed[d] :
                   m_exec'[d].m_complete_txs[i] => m_exec[d].m_complete_txs[i],
           m_exec[d].m_state = "prepare" /\ s \in m_exec'[d].answered =>
               \A i \in Part(d, s) : m_exec'[d].m_complete_txs[i] =>
                   m_prepared_dtxs'[s][d].m_results[i],
           Prepared(s, d) /\ m_exec[d].m_state = "prepare" =>
               m_prepared_dtxs'[s][d] = m_prepared_dtxs[s][d]
    PROVE  ShardInv'
<1>1. CoordTypeOK /\ ShardTypeOK /\ Recorded(d) /\ Executed(d)
  BY Zenon DEF PhaseInv
<1>2. s \in Shard
  BY Zenon DEF Unanswered, Participants
<1>3. /\ s \in Shard
      /\ Part(d, s) # {} \/ m_exec[d].m_state = "discard"
      /\ \A r \in Shard : ~m_halted'[r]
      /\ \A r \in Shard, e \in Dtx : e # d \/ r # s =>
           /\ m_prepared_dtxs'[r][e] = m_prepared_dtxs[r][e]
           /\ e \in m_applied_dtxs'[r] <=> e \in m_applied_dtxs[r]
      /\ \/ /\ m_exec[d].m_state = "prepare"
            /\ m_prepared_dtxs'[s][d].m_txs = PartOf(d, s)
            /\ m_applied_dtxs' = m_applied_dtxs
         \/ /\ m_exec[d].m_state = "commit"
            /\ DOMAIN m_prepared_dtxs'[s][d].m_txs = {}
            /\ d \in m_applied_dtxs'[s]
         \/ /\ m_exec[d].m_state = "discard"
            /\ m_prepared_dtxs' = m_prepared_dtxs
            /\ d \notin m_applied_dtxs'[s]
  BY Zenon, LeaderRequest
<1>4. NotCommitted' = NotCommitted
  BY Zenon DEF NotCommitted, NoIdxs
<1>5. \A e \in Dtx, r \in Shard :
         Part(e, r)' = Part(e, r) /\ PartOf(e, r)' = PartOf(e, r)
  BY Zenon, PartSame
<1>6. /\ \A e \in Dtx : Committed(e)' <=> Committed(e)
      /\ \A e \in Dtx, i \in Idx : Settles(e, i)' <=> Settles(e, i)
  BY Zenon, <1>4 DEF Committed, Settles
<1>7. ASSUME NEW e \in Dtx, NEW r \in Shard, e # d PROVE ShardPhase(e, r)'
  <2>1. m_prepared_dtxs'[r][e] = m_prepared_dtxs[r][e]
        /\ (e \in m_applied_dtxs'[r] <=> e \in m_applied_dtxs[r])
    BY Zenon, <1>3, <1>7
  <2>2. ShardPhase(e, r)
    BY Zenon DEF ShardInv
  <2> QED
    BY Zenon, <1>4, <1>5, <1>7, <2>1, <2>2 DEF ShardPhase, Prepared, Committed, Settles
<1>8. ASSUME NEW r \in Shard, r # s PROVE ShardPhase(d, r)'
  <2>1. m_prepared_dtxs'[r][d] = m_prepared_dtxs[r][d]
        /\ (d \in m_applied_dtxs'[r] <=> d \in m_applied_dtxs[r])
    BY Zenon, <1>3, <1>8
  <2>2. ShardPhase(d, r)
    BY Zenon DEF ShardInv
  <2>3. Part(d, r) \subseteq DOMAIN sealed[d]
    BY Zenon, <1>1, PartFacts
  <2>4. r \in m_exec'[d].answered => r \in m_exec[d].answered
    BY Zenon, <1>8
  <2> QED
    BY Zenon, <1>4, <1>5, <2>1, <2>2, <2>3, <2>4
    DEF ShardPhase, Prepared, Committed, Settles
<1>9. ShardPhase(d, s)'
  <2>1. ShardPhase(d, s)
    BY Zenon, <1>2 DEF ShardInv
  <2>2. CASE m_exec[d].m_state = "prepare"
    <3>1. m_prepare_txs[d] # <<>> /\ decided[d] = <<>> /\ ~Committed(d)
      BY Zenon, <1>1, <2>2 DEF Executed, Recorded
    <3>2. /\ m_prepared_dtxs'[s][d].m_txs = PartOf(d, s)
          /\ d \notin m_applied_dtxs'[s]
          /\ DOMAIN PartOf(d, s) = Part(d, s) /\ Part(d, s) # {}
      BY Zenon, <1>1, <1>2, <1>3, <2>1, <2>2, <3>1, PartFacts DEF ShardPhase
    <3>3. Prepared(s, d)'
      BY Zenon, <3>2 DEF Prepared
    <3>4. \A i : ~Settles(d, i)'
      BY <3>1 DEF Settles
    <3> QED
      BY Zenon, <1>2, <1>5, <1>6, <2>2, <3>1, <3>2, <3>3, <3>4 DEF ShardPhase
  <2>3. CASE m_exec[d].m_state = "commit"
    <3>1. Committed(d) /\ decided[d] # <<>>
      BY Zenon, <1>1, <2>3 DEF Executed, Recorded
    <3>2. ~Prepared(s, d)' /\ d \in m_applied_dtxs'[s] /\ Part(d, s) # {}
      BY Zenon, <1>3, <2>3 DEF Prepared
    <3> QED
      BY Zenon, <1>2, <1>5, <1>6, <2>3, <3>1, <3>2 DEF ShardPhase
  <2>4. CASE m_exec[d].m_state = "discard"
    <3>1. d \in m_discard_txs /\ ~Committed(d)
      BY Zenon, <1>1, <2>4 DEF Executed, Recorded
    <3>2. m_prepared_dtxs' = m_prepared_dtxs /\ d \notin m_applied_dtxs'[s]
      BY Zenon, <1>3, <2>4
    <3> QED
      BY Zenon, <1>2, <1>5, <1>6, <2>1, <2>4, <3>1, <3>2 DEF ShardPhase, Prepared, Settles
  <2> QED
    BY Zenon, <1>3, <2>2, <2>3, <2>4
<1>10. ASSUME NEW e \in Dtx PROVE NoFailoverYet(e)'
  <2>1. NoFailoverYet(e) /\ TxIdxs(sealed[e])' = TxIdxs(sealed[e])
    BY Zenon, IdxsPrime DEF ShardInv
  <2>2. CASE e # d
    BY Zenon, <1>3, <2>1, <2>2 DEF NoFailoverYet
  <2>3. CASE e = d
    <3>1. m_exec[d].m_state # "discard" => d \notin finished
      BY Zenon, <1>1, <1>3 DEF Executed, Recorded
    <3>2. m_exec[d].m_state = "discard" => d \notin finished
      BY Zenon, <1>1 DEF Executed, Recorded
    <3>3. m_exec[d].m_state = "discard" => d \notin m_applied_dtxs'[s]
      BY Zenon, <1>3
    <3>4. \A r \in Shard : r # s => (d \in m_applied_dtxs'[r] <=> d \in m_applied_dtxs[r])
      BY Zenon, <1>3
    <3> QED
      BY Zenon, <2>1, <2>3, <3>1, <3>2, <3>3, <3>4 DEF NoFailoverYet
  <2> QED
    BY Zenon, <2>2, <2>3
<1>11. \A e \in Dtx, r \in Shard : ShardPhase(e, r)'
  BY Zenon, <1>7, <1>8, <1>9
<1>12. NoFatal' /\ (lateRequests = {})'
  BY Zenon, <1>3 DEF ShardInv, NoFatal
<1> QED
  BY Zenon, <1>10, <1>11, <1>12 DEF ShardInv

\* A batch that is already prepared is not locked again.
LEMMA RepeatedLock ==
    ASSUME NEW d, NEW s, Prepared(s, d), NEW data,
           process_request(s, d, "prepare", data)
    PROVE  m_prepared_dtxs'[s][d] = m_prepared_dtxs[s][d]
BY Zenon DEF process_request, lock_outputs, LockFresh, LockRepeated, shardVars

\* A request whose answer is lost is processed by the shard, and sent again.
LEMMA ShardInvLost ==
    ASSUME PhaseInv, ShardInv, NEW d \in Dtx, NEW s \in Shard, AnswerLost(d, s)
    PROVE  ShardInv'
<1>1. /\ UNCHANGED <<m_prepare_txs, m_commit_txs, m_discard_txs, m_fatal,
                     m_exec, m_leader, lateRequests, failovers,
                     sealed, decided, finished>>
      /\ ~m_fatal /\ s \in Unanswered(d)
      /\ process_request(s, d, m_exec[d].m_state, Payload(d, s))
  BY Zenon DEF AnswerLost, coordVars, smVars, leaderVars, historyVars
<1>2. Prepared(s, d) /\ m_exec[d].m_state = "prepare" =>
          m_prepared_dtxs'[s][d] = m_prepared_dtxs[s][d]
  BY Zenon, <1>1, RepeatedLock
<1>3. ShardPhase(d, s) /\ s \notin m_exec[d].answered
  BY Zenon, <1>1 DEF ShardInv, Unanswered
<1> QED
  BY Zenon, <1>1, <1>2, <1>3, ShardInvRequest

\* An answer to a lock RPC has one result for each transaction of the part.
LEMMA ShardInvAnswer ==
    ASSUME PhaseInv, ShardInv, NEW d \in Dtx, NEW s \in Shard, AnswerReceived(d, s)
    PROVE  ShardInv'
<1> DEFINE results == m_prepared_dtxs'[s][d].m_results
<1>1. /\ UNCHANGED <<m_prepare_txs, m_commit_txs, m_discard_txs,
                     m_leader, lateRequests, failovers, sealed, decided, finished>>
      /\ s \in Unanswered(d)
      /\ process_request(s, d, m_exec[d].m_state, Payload(d, s))
      /\ m_fatal' = (m_exec[d].m_state = "prepare"
                      /\ DOMAIN results # m_exec[d].m_tx_idxs[s])
  BY Zenon DEF AnswerReceived, smVars, historyVars
<1>2. /\ PhaseInv'
      /\ m_exec'[d].m_state = m_exec[d].m_state
      /\ m_exec'[d].m_tx_idxs = m_exec[d].m_tx_idxs
      /\ m_exec'[d].answered = m_exec[d].answered \cup {s}
      /\ m_exec[d].m_state = "prepare" =>
           m_exec'[d].m_complete_txs = MergeResults(d, results)
      /\ \A e \in Dtx : e # d => m_exec'[e] = m_exec[e]
  BY Zenon, PhaseAnswer
<1>3. Prepared(s, d) /\ m_exec[d].m_state = "prepare" =>
          m_prepared_dtxs'[s][d] = m_prepared_dtxs[s][d]
  BY Zenon, <1>1, RepeatedLock
<1>4. ASSUME m_exec[d].m_state = "prepare"
      PROVE  DOMAIN results = Part(d, s) /\ m_exec[d].m_tx_idxs[s] = Part(d, s)
  <2>1. m_prepared_dtxs'[s][d].m_txs = PartOf(d, s)
    BY Zenon, <1>1, <1>4, LeaderRequest
  <2>2. DOMAIN results = DOMAIN m_prepared_dtxs'[s][d].m_txs
    BY Zenon, <1>2 DEF PhaseInv, ShardTypeOK
  <2>3. DOMAIN PartOf(d, s) = Part(d, s)
    BY Zenon, PartFacts DEF PhaseInv
  <2>4. m_exec[d].m_tx_idxs[s] = Part(d, s)
    BY Zenon, <1>4 DEF PhaseInv, Executed, Part
  <2> QED
    BY Zenon, <2>1, <2>2, <2>3, <2>4
<1>5. ~m_fatal'
  BY Zenon, <1>1, <1>4
<1>6. ASSUME m_exec[d].m_state = "prepare"
      PROVE  /\ \A i \in DOMAIN sealed[d] :
                  m_exec'[d].m_complete_txs[i] => m_exec[d].m_complete_txs[i]
             /\ \A i \in Part(d, s) : m_exec'[d].m_complete_txs[i] => results[i]
  <2>1. DOMAIN m_exec[d].m_complete_txs = DOMAIN sealed[d]
    BY Zenon, <1>6 DEF PhaseInv, Executed
  <2>2. Part(d, s) \subseteq DOMAIN sealed[d]
    BY Zenon, PartFacts DEF PhaseInv
  <2> QED
    BY Zenon, <1>2, <1>4, <1>6, <2>1, <2>2 DEF MergeResults
<1> QED
  BY Zenon, <1>1, <1>2, <1>3, <1>5, <1>6, ShardInvRequest

\* The executors of a leader that fails leave the shards as they are (stop).
LEMMA ShardInvFails ==
    ASSUME LateRequests = FALSE, ShardInv, PhaseInv, LeaderFails
    PROVE  ShardInv'
<1>1. /\ UNCHANGED <<shardVars, m_prepare_txs, m_commit_txs, m_discard_txs,
                     m_fatal, sealed, decided, finished>>
      /\ m_exec' = [d \in Dtx |-> NotExecuting]
      /\ lateRequests' = {}
      /\ failovers' = failovers + 1
  BY Zenon DEF LeaderFails, smVars, historyVars
<1>2. failovers' # 0
  BY <1>1, TwoPhaseAssumption DEF PhaseInv, CoordTypeOK
<1>3. \A d \in Dtx : NoFailoverYet(d)' /\ m_exec'[d].m_state = "none"
  BY Zenon, <1>1, <1>2, NotExecutingFacts DEF NoFailoverYet
<1> QED
  BY Zenon, <1>1, <1>3, ShardInvQuiet DEF ShardInv, NoFatal

\* Recovery reads the replicated state and sends nothing (recovery_func).
LEMMA ShardInvRecovery ==
    ASSUME PhaseInv, ShardInv, recovery_func
    PROVE  ShardInv'
<1>1. /\ UNCHANGED <<shardVars, m_prepare_txs, m_commit_txs, m_discard_txs,
                     m_fatal, lateRequests, failovers, sealed, decided, finished>>
      /\ m_exec' = [d \in Dtx |-> RecoveredDtx(d)]
      /\ m_leader = "none"
  BY Zenon DEF recovery_func, smVars, historyVars
<1>2. \A d \in Dtx : m_exec'[d].answered = {}
  BY Zenon, <1>1, RecoveredFacts
<1>3. ASSUME NEW d \in Dtx PROVE NoFailoverYet(d)'
  <2>1. NoFailoverYet(d) /\ Recorded(d)
    BY Zenon DEF ShardInv, PhaseInv
  <2>2. ASSUME failovers = 0
        PROVE  sealed[d] = <<>> /\ m_exec'[d].m_state = "none" /\ d \notin finished
    <3>1. sealed[d] = <<>>
      BY Zenon, <1>1, <2>1, <2>2 DEF NoFailoverYet
    <3>2. /\ m_prepare_txs[d] = <<>> /\ ~Committed(d)
          /\ d \notin m_discard_txs /\ d \notin finished
      BY Zenon, <2>1, <3>1 DEF Recorded
    <3> QED
      BY Zenon, <1>1, <3>1, <3>2, RecoveredFacts
  <2> QED
    BY Zenon, <1>1, <2>2 DEF NoFailoverYet
<1> QED
  BY Zenon, <1>1, <1>2, <1>3, ShardInvQuiet DEF ShardInv, NoFatal

\* The end of recovery sends nothing (start).
LEMMA ShardInvRecovered ==
    ASSUME ShardInv, Recovered
    PROVE  ShardInv'
<1>1. /\ UNCHANGED <<shardVars, m_prepare_txs, m_commit_txs, m_discard_txs,
                     m_fatal, m_exec, lateRequests, failovers, sealed, decided,
                     finished>>
      /\ m_leader' = "running"
  BY Zenon DEF Recovered, smVars, historyVars
<1>2. \A d \in Dtx : NoFailoverYet(d)'
  BY Zenon, <1>1, IdxsPrime DEF ShardInv, NoFailoverYet, shardVars
<1> QED
  BY Zenon, <1>1, <1>2, ShardInvQuiet DEF ShardInv, NoFatal

\* Nothing changes in a step that changes no variable.
LEMMA ShardInvStutter ==
    ASSUME ShardInv, UNCHANGED vars
    PROVE  ShardInv'
<1>1. UNCHANGED <<shardVars, m_prepare_txs, m_commit_txs, m_discard_txs, m_fatal,
                  m_exec, m_leader, lateRequests, failovers, sealed, decided,
                  finished>>
  BY Zenon DEF vars, coordVars, smVars, leaderVars, historyVars
<1>2. \A d \in Dtx : NoFailoverYet(d)'
  BY Zenon, <1>1, IdxsPrime DEF ShardInv, NoFailoverYet, shardVars
<1> QED
  BY Zenon, <1>1, <1>2, ShardInvQuiet DEF ShardInv, NoFatal

\* The shard invariant is preserved by every step, if no request arrives after
\* its coordinator failed.
LEMMA ShardInvStep ==
    ASSUME LateRequests = FALSE, PhaseInv, ShardInv, [Next]_vars
    PROVE  ShardInv'
<1>1. lateRequests = {}
  BY Zenon DEF ShardInv
<1> QED
  BY Zenon, <1>1, ShardInvSubmit, ShardInvSeal, ShardInvPrepare, ShardInvCommit,
     ShardInvDiscard, ShardInvDone, ShardInvLost, ShardInvAnswer,
     ShardInvFails, ShardInvRecovery, ShardInvRecovered, ShardInvStutter
  DEF Next, Execute

-----------------------------------------------------------------------------
\* The batches the leader, its successor or the RSM may still act on.
Live(d) ==
    \/ m_exec[d].m_state # "none" \/ m_prepare_txs[d] # <<>>
    \/ Committed(d) \/ d \in m_discard_txs

\* A leader executes every live batch; without a leader there is no execution.
LeaderKnows(d) ==
    /\ m_leader = "none" => m_exec[d].m_state = "none" /\ m_current_txs = <<>>
    /\ m_leader # "none" /\ Live(d) => m_exec[d].m_state # "none"

Apart(txs, other) ==
    \A i \in DOMAIN txs, j \in DOMAIN other : ~Conflict(txs[i], other[j])

ApartWithin(txs) ==
    \A i, j \in DOMAIN txs : i # j => ~Conflict(txs[i], txs[j])

\* Under ConflictFree, live batches and the current one share no input.
FlightInv ==
    /\ \A d \in Dtx : LeaderKnows(d)
    /\ \A d \in Dtx : Live(d) => ApartWithin(sealed[d])
    /\ \A d, e \in Dtx : d # e /\ Live(d) /\ Live(e) => Apart(sealed[d], sealed[e])
    /\ ApartWithin(m_current_txs)
    /\ \A d \in Dtx : Live(d) => Apart(m_current_txs, sealed[d])

\* Two transactions that share an input conflict, in either order.
LEMMA ConflictSym ==
    ASSUME NEW t, NEW u
    PROVE  Conflict(t, u) <=> Conflict(u, t)
BY Zenon DEF Conflict

\* Apart and ApartWithin do not depend on the state.
LEMMA ApartPrime ==
    ASSUME NEW d \in Dtx, NEW e \in Dtx
    PROVE  /\ Apart(sealed[d], sealed[e])' <=> Apart(sealed'[d], sealed'[e])
           /\ Apart(m_current_txs, sealed[d])' <=> Apart(m_current_txs', sealed'[d])
           /\ ApartWithin(sealed[d])' <=> ApartWithin(sealed'[d])
           /\ ApartWithin(m_current_txs)' <=> ApartWithin(m_current_txs')
BY Zenon DEF Apart, ApartWithin, Conflict

\* An empty batch conflicts with none.
LEMMA ApartEmpty ==
    ASSUME NEW other
    PROVE  Apart(<<>>, other) /\ ApartWithin(<<>>)
BY DEF Apart, ApartWithin

\* A step by which no batch becomes live.
LEMMA FlightQuiet ==
    ASSUME FlightInv, sealed' = sealed,
           m_current_txs' = m_current_txs \/ m_current_txs' = <<>>,
           \A d \in Dtx : Live(d)' => Live(d),
           \A d \in Dtx : LeaderKnows(d)'
    PROVE  FlightInv'
<1>1. \A d \in Dtx : Live(d)' => ApartWithin(sealed[d])'
  BY Zenon, ApartPrime DEF FlightInv
<1>2. \A d, e \in Dtx : d # e /\ Live(d)' /\ Live(e)' => Apart(sealed[d], sealed[e])'
  BY Zenon, ApartPrime DEF FlightInv
<1>3. ApartWithin(m_current_txs)'
  <2>1. ApartWithin(m_current_txs')
    BY Zenon, ApartEmpty DEF FlightInv
  <2> QED
    BY Zenon, <2>1 DEF ApartWithin, Conflict
<1>4. \A d \in Dtx : Live(d)' => Apart(m_current_txs, sealed[d])'
  BY Zenon, ApartPrime, ApartEmpty DEF FlightInv
<1> QED
  BY Zenon, <1>1, <1>2, <1>3, <1>4 DEF FlightInv

\* Initially no batch is in flight.
LEMMA FlightInit == Init => FlightInv
<1> SUFFICES ASSUME Init PROVE FlightInv
  BY Zenon
<1>1. m_current_txs = <<>> /\ \A d \in Dtx : ~Live(d) /\ m_exec[d].m_state = "none"
  BY Zenon, NotExecutingFacts DEF Init, CoordInit, Live, Committed
<1> QED
  BY Zenon, <1>1, ApartEmpty DEF FlightInv, LeaderKnows

\* A transaction is accepted only when nothing in flight spends its inputs.
LEMMA FlightSubmit ==
    ASSUME ConflictFree = TRUE, PhaseInv, FlightInv, NEW t \in Tx,
           execute_transaction(t)
    PROVE  FlightInv'
<1>1. /\ UNCHANGED <<m_prepare_txs, m_commit_txs, m_discard_txs, m_exec,
                     m_leader, sealed>>
      /\ m_current_txs' = Append(m_current_txs, t)
      /\ m_leader = "running" /\ ~ConflictsInFlight(t)
  BY Zenon DEF execute_transaction, smVars, historyVars
<1>2. \A d \in Dtx : Live(d)' <=> Live(d)
  BY Zenon, <1>1 DEF Live, Committed, NotCommitted, NoIdxs
<1>3. \A d \in Dtx : LeaderKnows(d)'
  BY Zenon, <1>1, <1>2 DEF FlightInv, LeaderKnows
<1>4. ASSUME NEW d \in Dtx, Live(d), NEW j \in DOMAIN sealed[d]
      PROVE  ~Conflict(t, sealed[d][j])
  BY Zenon, <1>1, <1>4 DEF FlightInv, LeaderKnows, ConflictsInFlight, InFlight
<1>5. m_current_txs \in Seq(Tx)
  BY Zenon, BatchFacts DEF PhaseInv, CoordTypeOK
<1>6. /\ DOMAIN m_current_txs' = 1..(Len(m_current_txs) + 1)
      /\ \A i \in DOMAIN m_current_txs : m_current_txs'[i] = m_current_txs[i]
      /\ m_current_txs'[Len(m_current_txs) + 1] = t
      /\ \A i \in DOMAIN m_current_txs' :
           i \in DOMAIN m_current_txs \/ i = Len(m_current_txs) + 1
  BY <1>1, <1>5
<1>7. \A i \in DOMAIN m_current_txs : ~Conflict(t, m_current_txs[i])
  BY Zenon, <1>1 DEF ConflictsInFlight
<1>8. ApartWithin(m_current_txs')
  <2>1. ApartWithin(m_current_txs)
    BY Zenon DEF FlightInv
  <2> QED
    BY Zenon, <1>6, <1>7, <2>1, ConflictSym DEF ApartWithin
<1>9. ApartWithin(m_current_txs)'
  BY Zenon, <1>8 DEF ApartWithin, Conflict
<1>10. ASSUME NEW d \in Dtx, Live(d)' PROVE Apart(m_current_txs, sealed[d])'
  <2>1. Apart(m_current_txs, sealed[d])
    BY Zenon, <1>2, <1>10 DEF FlightInv
  <2>2. Apart(m_current_txs', sealed[d])
    BY Zenon, <1>2, <1>4, <1>6, <1>10, <2>1 DEF Apart
  <2> QED
    BY Zenon, <1>1, <2>2, ApartPrime
<1>11. \A d \in Dtx : Live(d)' => ApartWithin(sealed[d])'
  BY Zenon, <1>1, <1>2, ApartPrime DEF FlightInv
<1>12. \A d, e \in Dtx : d # e /\ Live(d)' /\ Live(e)' => Apart(sealed[d], sealed[e])'
  BY Zenon, <1>1, <1>2, ApartPrime DEF FlightInv
<1> QED
  BY Zenon, <1>3, <1>9, <1>10, <1>11, <1>12 DEF FlightInv

\* A sealed batch is as far apart from the others as the current one was.
LEMMA FlightSeal ==
    ASSUME PhaseInv, FlightInv, NEW d \in Dtx, SealBatch(d)
    PROVE  FlightInv'
<1>1. /\ UNCHANGED <<m_prepare_txs, m_commit_txs, m_discard_txs, m_leader>>
      /\ m_current_txs' = <<>>
      /\ m_leader = "running"
      /\ sealed'[d] = m_current_txs
      /\ m_exec'[d].m_state = "start"
      /\ \A e \in Dtx : e # d => sealed'[e] = sealed[e] /\ m_exec'[e] = m_exec[e]
  BY Zenon DEF SealBatch, smVars, PhaseInv, CoordTypeOK, DtxIn
<1>2. \A e \in Dtx : e # d => (Live(e)' <=> Live(e))
  BY Zenon, <1>1 DEF Live, Committed, NotCommitted, NoIdxs
<1>3. \A e \in Dtx : LeaderKnows(e)'
  BY Zenon, <1>1, <1>2 DEF FlightInv, LeaderKnows
<1>4. ApartWithin(m_current_txs)' /\ \A e \in Dtx : Apart(m_current_txs, sealed[e])'
  BY Zenon, <1>1, ApartEmpty, ApartPrime
<1>5. ASSUME NEW e \in Dtx, Live(e)' PROVE ApartWithin(sealed[e])'
  <2>1. ApartWithin(sealed'[e])
    BY Zenon, <1>1, <1>2, <1>5 DEF FlightInv
  <2> QED
    BY Zenon, <2>1, ApartPrime
<1>6. ASSUME NEW e \in Dtx, NEW g \in Dtx, e # g, Live(e)', Live(g)'
      PROVE  Apart(sealed[e], sealed[g])'
  <2>1. CASE e # d /\ g # d
    BY Zenon, <1>1, <1>2, <1>6, <2>1, ApartPrime DEF FlightInv
  <2>2. CASE e = d
    <3>1. Apart(m_current_txs, sealed[g])
      BY Zenon, <1>2, <1>6, <2>2 DEF FlightInv
    <3> QED
      BY Zenon, <1>1, <1>6, <2>2, <3>1, ApartPrime
  <2>3. CASE g = d
    <3>1. Apart(m_current_txs, sealed[e])
      BY Zenon, <1>2, <1>6, <2>3 DEF FlightInv
    <3>2. Apart(sealed[e], m_current_txs)
      BY Zenon, <3>1, ConflictSym DEF Apart
    <3> QED
      BY Zenon, <1>1, <1>6, <2>3, <3>2, ApartPrime
  <2> QED
    BY Zenon, <2>1, <2>2, <2>3
<1> QED
  BY Zenon, <1>3, <1>4, <1>5, <1>6 DEF FlightInv

\* The phases of a batch: it stays live until it is done.
LEMMA FlightExecute ==
    ASSUME PhaseInv, FlightInv, NEW d \in Dtx, Execute(d)
    PROVE  FlightInv'
<1>1. CoordTypeOK /\ Recorded(d) /\ Executed(d)
  BY Zenon DEF PhaseInv
<1>2. UNCHANGED <<sealed, m_current_txs, m_leader>> /\ m_exec[d].m_state # "none"
  BY Zenon DEF Execute, prepare, commit, discard, done, historyVars
<1>3. ASSUME NEW e \in Dtx, e # d
      PROVE  /\ m_prepare_txs'[e] = m_prepare_txs[e]
             /\ m_commit_txs'[e] = m_commit_txs[e]
             /\ e \in m_discard_txs' <=> e \in m_discard_txs
             /\ m_exec'[e] = m_exec[e]
  BY Zenon, <1>1, <1>3 DEF Execute, prepare, commit, discard, done, sm_prepare,
     sm_commit, sm_discard, sm_done, Enter, CoordTypeOK
<1>4. \A e \in Dtx : e # d => (Live(e)' <=> Live(e))
  BY Zenon, <1>3 DEF Live, Committed, NotCommitted, NoIdxs
<1>5. Live(d)' => m_exec'[d].m_state # "none"
  <2>1. CASE prepare(d) \/ commit(d) \/ discard(d)
    BY <1>1, <2>1 DEF prepare, commit, discard, Enter, CoordTypeOK, DtxIn
  <2>2. CASE done(d)
    <3>1. d \in m_discard_txs
      BY Zenon, <1>1, <2>2 DEF done, Executed
    <3>2. ~Committed(d) /\ m_prepare_txs[d] = <<>>
      BY Zenon, <1>1, <3>1 DEF Recorded
    <3>3. /\ m_exec'[d].m_state = "none" /\ m_prepare_txs'[d] = <<>>
          /\ m_commit_txs' = m_commit_txs /\ d \notin m_discard_txs'
      BY Zenon, <1>1, <2>2, <3>2, NotExecutingFacts DEF done, sm_done, CoordTypeOK
    <3> QED
      BY Zenon, <3>2, <3>3 DEF Live, Committed, NotCommitted, NoIdxs
  <2> QED
    BY Zenon, <2>1, <2>2 DEF Execute
<1>6. m_leader # "none"
  BY Zenon, <1>2 DEF FlightInv, LeaderKnows
<1>7. \A e \in Dtx : LeaderKnows(e)'
  BY Zenon, <1>2, <1>3, <1>4, <1>5, <1>6 DEF FlightInv, LeaderKnows
<1>8. \A e \in Dtx : Live(e)' => Live(e)
  BY Zenon, <1>2, <1>4 DEF Live
<1> QED
  BY Zenon, <1>2, <1>7, <1>8, FlightQuiet

\* RPCs change neither what is live nor what is sealed.
LEMMA FlightRequest ==
    ASSUME PhaseInv, FlightInv, NEW d \in Dtx, NEW s \in Shard,
           AnswerLost(d, s) \/ AnswerReceived(d, s)
    PROVE  FlightInv'
<1>1. UNCHANGED <<m_prepare_txs, m_commit_txs, m_discard_txs, m_current_txs,
                  m_leader, sealed>>
  BY Zenon DEF AnswerLost, AnswerReceived, coordVars, smVars, leaderVars, historyVars
<1>2. \A e \in Dtx : m_exec'[e].m_state = m_exec[e].m_state
  BY Zenon, PhaseAnswer DEF AnswerLost, coordVars, leaderVars
<1>3. \A e \in Dtx : Live(e)' <=> Live(e)
  BY Zenon, <1>1, <1>2 DEF Live, Committed, NotCommitted, NoIdxs
<1>4. \A e \in Dtx : LeaderKnows(e)'
  BY Zenon, <1>1, <1>2, <1>3 DEF FlightInv, LeaderKnows
<1> QED
  BY Zenon, <1>1, <1>3, <1>4, FlightQuiet

\* The batches in flight survive the leader: raft has them (stop).
LEMMA FlightFails ==
    ASSUME FlightInv, LeaderFails
    PROVE  FlightInv'
<1>1. /\ UNCHANGED <<m_prepare_txs, m_commit_txs, m_discard_txs, sealed>>
      /\ m_current_txs' = <<>> /\ m_leader' = "none"
      /\ \A d \in Dtx : m_exec'[d].m_state = "none"
  BY Zenon, NotExecutingFacts DEF LeaderFails, smVars, historyVars
<1>2. \A d \in Dtx : Live(d)' => Live(d)
  BY Zenon, <1>1 DEF Live, Committed, NotCommitted, NoIdxs
<1>3. \A d \in Dtx : LeaderKnows(d)'
  BY Zenon, <1>1 DEF LeaderKnows
<1> QED
  BY Zenon, <1>1, <1>2, <1>3, FlightQuiet

\* A recovered batch is one that was in flight (recovery_func).
LEMMA FlightRecovery ==
    ASSUME PhaseInv, FlightInv, recovery_func
    PROVE  FlightInv'
<1>1. /\ UNCHANGED <<m_prepare_txs, m_commit_txs, m_discard_txs, m_current_txs, sealed>>
      /\ m_leader = "none" /\ m_leader' = "recovering"
      /\ \A d \in Dtx : m_exec'[d] = RecoveredDtx(d)
  BY Zenon DEF recovery_func, smVars, historyVars
<1>2. \A d \in Dtx : m_exec[d].m_state = "none"
  BY Zenon, <1>1 DEF FlightInv, LeaderKnows
<1>3. ASSUME NEW d \in Dtx
      PROVE  (Live(d)' <=> Live(d)) /\ (Live(d)' => m_exec'[d].m_state # "none")
  <2>1. Recorded(d)
    BY Zenon DEF PhaseInv
  <2>2. Committed(d)' <=> Committed(d)
    BY Zenon, <1>1 DEF Committed, NotCommitted, NoIdxs
  <2> QED
    BY Zenon, <1>1, <1>2, <2>1, <2>2, RecoveredFacts DEF Live, Recorded
<1>4. \A d \in Dtx : LeaderKnows(d)'
  BY Zenon, <1>1, <1>3 DEF LeaderKnows
<1> QED
  BY Zenon, <1>1, <1>3, <1>4, FlightQuiet

\* The end of recovery and stuttering change no batch.
LEMMA FlightOther ==
    ASSUME FlightInv, Recovered \/ UNCHANGED vars
    PROVE  FlightInv'
<1>1. /\ UNCHANGED <<m_prepare_txs, m_commit_txs, m_discard_txs, m_current_txs,
                     m_exec, sealed>>
      /\ m_leader' = m_leader \/ (m_leader = "recovering" /\ m_leader' = "running")
  BY Zenon DEF Recovered, vars, coordVars, smVars, leaderVars, historyVars
<1>2. \A d \in Dtx : Live(d)' <=> Live(d)
  BY Zenon, <1>1 DEF Live, Committed, NotCommitted, NoIdxs
<1>3. \A d \in Dtx : LeaderKnows(d)'
  BY Zenon, <1>1, <1>2 DEF FlightInv, LeaderKnows
<1> QED
  BY Zenon, <1>1, <1>2, <1>3, FlightQuiet

\* Batches in flight share no input, if none is submitted that conflicts with
\* one in flight.
LEMMA FlightStep ==
    ASSUME ConflictFree = TRUE, PhaseInv, lateRequests = {}, FlightInv, [Next]_vars
    PROVE  FlightInv'
BY Zenon, FlightSubmit, FlightSeal, FlightExecute, FlightRequest, FlightFails,
   FlightRecovery, FlightOther
DEF Next

-----------------------------------------------------------------------------
\* The locks.  A request keeps LockHasHolder whatever it carries; it keeps the
\* locks of the other batches when it conflicts with none of them.
LEMMA RequestHolder ==
    ASSUME ShardTypeOK, LockHasHolder, NEW s \in Shard, NEW d \in Dtx,
           NEW phase, NEW data,
           phase = "prepare" => data \in SubBatch,
           phase = "commit" => data \in Flags,
           process_request(s, d, phase, data)
    PROVE  LockHasHolder'
<1>1. CASE phase = "prepare" /\ LockFresh(s, d, data)
  BY Zenon, <1>1, HolderLock
<1>2. CASE phase = "commit" /\ ApplyPrepared(s, d, data)
  BY Zenon, <1>2, HolderApply
<1>3. CASE UNCHANGED <<m_locked, m_prepared_dtxs>>
  BY Zenon, <1>3, LocksUnchanged
<1> QED
  BY Zenon, <1>1, <1>2, <1>3, LockChanges

\* Only requests change the shards.
LEMMA NextShards ==
    ASSUME [Next]_vars
    PROVE  \/ \E d \in Dtx, s \in Shard : AnswerLost(d, s) \/ AnswerReceived(d, s)
           \/ \E r \in lateRequests : LateRequest(r)
           \/ UNCHANGED shardVars
BY Zenon DEF Next, vars, execute_transaction, SealBatch, Execute, prepare, commit,
       discard, done, LeaderFails, recovery_func, Recovered

\* No lock is orphaned by any coordinator, current or failed: an ID in
\* m_locked belongs to a prepared batch whose apply releases it.
THEOREM NoLockOrphaned == Spec => []LockHasHolder
<1>1. Init => LockHasHolder
  BY Zenon DEF Init, ShardInit, LockHasHolder
<1>2. PhaseInv /\ LockHasHolder /\ [Next]_vars => LockHasHolder'
  <2> SUFFICES ASSUME PhaseInv, LockHasHolder, [Next]_vars PROVE LockHasHolder'
    BY Zenon
  <2>1. CoordTypeOK /\ ShardTypeOK /\ LateSound
        /\ \A e \in Dtx : Recorded(e) /\ Executed(e)
    BY Zenon DEF PhaseInv
  <2>2. ASSUME NEW d \in Dtx, NEW s \in Shard,
               AnswerLost(d, s) \/ AnswerReceived(d, s)
        PROVE  LockHasHolder'
    <3>1. process_request(s, d, m_exec[d].m_state, Payload(d, s))
      BY Zenon, <2>2 DEF AnswerLost, AnswerReceived
    <3>2. m_exec[d].m_state = "prepare" => Payload(d, s) \in SubBatch
      BY Zenon, <2>1, PayloadFacts, PartFacts
    <3>3. m_exec[d].m_state = "commit" => Payload(d, s) \in Flags
      BY Zenon, <2>1, PayloadFacts, FlagsOfFacts DEF Recorded
    <3> QED
      BY Zenon, <2>1, <3>1, <3>2, <3>3, RequestHolder
  <2>3. ASSUME NEW r \in lateRequests, LateRequest(r) PROVE LockHasHolder'
    <3>1. r.dtx \in Dtx /\ r.shard \in Shard
      BY Zenon, <2>1 DEF LateSound
    <3>2. r.phase = "prepare" => r.data \in SubBatch
      BY Zenon, <2>1, <3>1, PartFacts DEF LateSound
    <3>3. r.phase = "commit" => r.data \in Flags
      BY Zenon, <2>1, <3>1, FlagsOfFacts DEF LateSound, Recorded, FlagsOf
    <3> QED
      BY Zenon, <2>1, <2>3, <3>1, <3>2, <3>3, RequestHolder DEF LateRequest
  <2>4. CASE UNCHANGED shardVars
    BY Zenon, <2>4, LocksUnchanged DEF shardVars
  <2> QED
    BY Zenon, <2>2, <2>3, <2>4, NextShards
<1> QED
  BY <1>1, <1>2, PhaseInit, PhaseStep, PTL DEF Spec

\* A lock RPC meets no prepared transaction it conflicts with.
LEMMA NoConflictPart ==
    ASSUME PhaseInv, ShardInv, FlightInv, NEW d \in Dtx, NEW s \in Shard,
           m_exec[d].m_state = "prepare"
    PROVE  NoConflict(s, d, PartOf(d, s))
<1>1. CoordTypeOK /\ Live(d)
  BY Zenon DEF PhaseInv, Live
<1>2. /\ Part(d, s) \subseteq DOMAIN sealed[d] /\ DOMAIN PartOf(d, s) = Part(d, s)
      /\ \A i \in Part(d, s) : PartOf(d, s)[i] = sealed[d][i]
  BY Zenon, <1>1, PartFacts
<1>3. ASSUME NEW t, NEW u, ~Conflict(t, u)
      PROVE  ShardInputs(s, t) \cap ShardInputs(s, u) = {}
  BY Zenon, <1>3 DEF Conflict, ShardInputs
<1>4. ASSUME NEW i \in Part(d, s), NEW j \in Part(d, s), i # j
      PROVE  ~Conflict(sealed[d][i], sealed[d][j])
  BY Zenon, <1>1, <1>2, <1>4 DEF FlightInv, ApartWithin
<1>5. ASSUME NEW e \in Dtx \ {d}, NEW j \in DOMAIN m_prepared_dtxs[s][e].m_txs,
             NEW i \in Part(d, s)
      PROVE  ~Conflict(sealed[d][i], m_prepared_dtxs[s][e].m_txs[j])
  <2>1. /\ m_prepared_dtxs[s][e].m_txs = PartOf(e, s)
        /\ Live(e)
    BY Zenon, <1>5 DEF ShardInv, ShardPhase, Prepared, Live
  <2>2. /\ j \in DOMAIN sealed[e]
        /\ m_prepared_dtxs[s][e].m_txs[j] = sealed[e][j]
    BY <1>1, <1>5, <2>1, PartFacts
  <2>3. Apart(sealed[d], sealed[e])
    BY Zenon, <1>1, <1>5, <2>1 DEF FlightInv
  <2> QED
    BY Zenon, <1>2, <1>5, <2>2, <2>3 DEF Apart
<1> QED
  BY Zenon, <1>2, <1>3, <1>4, <1>5 DEF NoConflict

\* The invariants of a system without late requests whose clients keep
\* conflicting transactions out of flight.
TwoPhaseInv ==
    PhaseInv /\ ShardInv /\ FlightInv /\ PreparedDisjoint /\ HolderHasLock

\* PreparedDisjoint only depends on what is prepared.
LEMMA DisjointUnchanged ==
    ASSUME PreparedDisjoint, m_prepared_dtxs' = m_prepared_dtxs
    PROVE  PreparedDisjoint'
BY DEF PreparedDisjoint, Holds, HeldInputs, ShardInputs, hash_in_shard_range

\* A shard that processes a request takes no lock away from a prepared dtx
\* (lock_outputs, apply_outputs, discard_dtx).
LEMMA LocksRequest ==
    ASSUME TwoPhaseInv, NEW d \in Dtx, NEW s \in Shard,
           process_request(s, d, m_exec[d].m_state, Payload(d, s))
    PROVE  PreparedDisjoint' /\ HolderHasLock'
<1>1. /\ CoordTypeOK /\ ShardTypeOK /\ Recorded(d) /\ LockInv
      /\ PhaseInv /\ ShardInv /\ FlightInv
  BY Zenon DEF TwoPhaseInv, PhaseInv, LockInv
<1>2. CASE m_exec[d].m_state = "prepare" /\ LockFresh(s, d, Payload(d, s))
  <2>1. Payload(d, s) = PartOf(d, s) /\ PartOf(d, s) \in SubBatch
    BY Zenon, <1>1, <1>2, PayloadFacts, PartFacts
  <2>2. NoConflict(s, d, PartOf(d, s))
    BY Zenon, <1>1, <1>2, NoConflictPart
  <2> QED
    BY Zenon, <1>1, <1>2, <2>1, <2>2, LockInvLock
<1>3. CASE m_exec[d].m_state = "commit" /\ ApplyPrepared(s, d, Payload(d, s))
  <2>1. Payload(d, s) \in Flags
    BY Zenon, <1>1, <1>3, PayloadFacts, FlagsOfFacts DEF Recorded
  <2> QED
    BY Zenon, <1>1, <1>3, <2>1, LockInvApply
<1>4. CASE UNCHANGED <<m_locked, m_prepared_dtxs>>
  BY Zenon, <1>4, LocksUnchanged, DisjointUnchanged DEF TwoPhaseInv
<1> QED
  BY Zenon, <1>2, <1>3, <1>4, LockChanges

\* The whole invariant holds initially.
LEMMA TwoPhaseInit == Init => TwoPhaseInv
<1> SUFFICES ASSUME Init PROVE TwoPhaseInv
  BY Zenon
<1>1. PreparedDisjoint /\ HolderHasLock
  BY Zenon, NotPreparedType
  DEF Init, ShardInit, PreparedDisjoint, HolderHasLock, Holds
<1> QED
  BY Zenon, <1>1, PhaseInit, ShardInvInit, FlightInit DEF TwoPhaseInv

\* The whole invariant is preserved by every step.
LEMMA TwoPhaseStep ==
    ASSUME ConflictFree = TRUE, LateRequests = FALSE, TwoPhaseInv, [Next]_vars
    PROVE  TwoPhaseInv'
<1>1. PhaseInv /\ ShardInv /\ FlightInv /\ lateRequests = {}
  BY Zenon DEF TwoPhaseInv, ShardInv
<1>2. PhaseInv' /\ ShardInv' /\ FlightInv'
  BY Zenon, <1>1, PhaseStep, ShardInvStep, FlightStep
<1>3. ASSUME NEW d \in Dtx, NEW s \in Shard,
             AnswerLost(d, s) \/ AnswerReceived(d, s)
      PROVE  PreparedDisjoint' /\ HolderHasLock'
  BY Zenon, <1>3, LocksRequest DEF AnswerLost, AnswerReceived
<1>4. ASSUME UNCHANGED shardVars PROVE PreparedDisjoint' /\ HolderHasLock'
  <2>1. m_prepared_dtxs' = m_prepared_dtxs /\ m_locked' = m_locked
    BY Zenon, <1>4 DEF shardVars
  <2>2. PreparedDisjoint'
    BY Zenon, <2>1, DisjointUnchanged DEF TwoPhaseInv
  <2> QED
    BY Zenon, <2>1, <2>2, LocksUnchanged DEF TwoPhaseInv
<1>5. PreparedDisjoint' /\ HolderHasLock'
  BY Zenon, <1>1, <1>3, <1>4, NextShards
<1> QED
  BY Zenon, <1>2, <1>5 DEF TwoPhaseInv

\* A transaction a shard reported as locked keeps its locks until its batch
\* is applied, through any number of failovers and repeated RPCs.
THEOREM LocksAreKept ==
    ASSUME ConflictFree = TRUE, LateRequests = FALSE
    PROVE  Spec => []HolderHasLock
<1>1. TwoPhaseInv => HolderHasLock
  BY Zenon DEF TwoPhaseInv
<1>2. TwoPhaseInv /\ [Next]_vars => TwoPhaseInv'
  BY Zenon, TwoPhaseStep
<1> QED
  BY <1>1, <1>2, TwoPhaseInit, PTL DEF Spec

\* The phases of a batch are sound for every number of shards, batches and
\* failovers: neither the coordinator nor a shard meets m_logger->fatal, a
\* recorded decision is backed by locks, a batch that is done holds none and,
\* as long as no leader has failed, is forgotten by the shards.
THEOREM PhasesAreSound ==
    ASSUME ConflictFree = TRUE, LateRequests = FALSE
    PROVE  Spec => []PhasesSound
<1>1. TwoPhaseInv => PhasesSound
  <2> SUFFICES ASSUME TwoPhaseInv PROVE PhasesSound
    BY Zenon
  <2>1. /\ CoordTypeOK /\ ShardTypeOK /\ NoFatal /\ HolderHasLock
        /\ lateRequests = {}
        /\ \A d \in Dtx : Recorded(d) /\ NoFailoverYet(d)
        /\ \A d \in Dtx, s \in Shard : ShardPhase(d, s)
    BY Zenon DEF TwoPhaseInv, PhaseInv, ShardInv
  <2>2. TypeOK
    <3>1. Batch \subseteq Seq(Tx) /\ Len(m_current_txs) <= BatchSize
      BY Zenon, <2>1, BatchFacts DEF CoordTypeOK, Batch
    <3> QED
      BY Zenon, <2>1, <3>1 DEF TypeOK, CoordTypeOK, CommitType, ExecType, DtxStates
  <2>3. DecisionBacked
    <3> SUFFICES ASSUME NEW d \in Dtx, NEW i \in Idx, NEW s \in Shard,
                        Settles(d, i), ActiveIn(s, sealed[d][i])
                 PROVE  IF Prepared(s, d)
                        THEN /\ Holds(s, d, i)
                             /\ HeldInputs(s, d, i) \subseteq m_locked[s]
                        ELSE d \in m_applied_dtxs[s] \cup m_discard_txs \cup finished
      BY Zenon DEF DecisionBacked
    <3>1. decided[d] # <<>> /\ DOMAIN decided[d] = DOMAIN sealed[d]
      <4>1. i \in DOMAIN decided[d]
        BY Zenon DEF Settles
      <4>2. decided[d] # <<>>
        BY <4>1
      <4> QED
        BY Zenon, <2>1, <4>2 DEF Recorded
    <3>2. i \in Part(d, s)
      BY Zenon, <3>1 DEF Settles, Part, TxIdxs
    <3>3. CASE Prepared(s, d)
      <4>1. Holds(s, d, i)
        <5>1. m_prepared_dtxs[s][d].m_txs = PartOf(d, s)
          BY Zenon, <2>1, <3>3 DEF ShardPhase
        <5>2. m_prepared_dtxs[s][d].m_results[i]
          BY Zenon, <2>1, <3>2, <3>3 DEF ShardPhase
        <5>3. DOMAIN PartOf(d, s) = Part(d, s)
          BY Zenon, <2>1, PartFacts
        <5> QED
          BY Zenon, <3>2, <5>1, <5>2, <5>3 DEF Holds
      <4> QED
        BY Zenon, <2>1, <3>3, <4>1 DEF HolderHasLock
    <3>4. CASE ~Prepared(s, d)
      BY Zenon, <2>1, <3>1, <3>2, <3>4 DEF ShardPhase, Recorded
    <3> QED
      BY Zenon, <3>3, <3>4
  <2>4. DoneReleasesLocks
    <3> SUFFICES ASSUME NEW d \in finished, NEW s \in Shard PROVE ~Prepared(s, d)
      BY Zenon DEF DoneReleasesLocks
    <3>1. d \in Dtx /\ ~Committed(d) /\ m_prepare_txs[d] = <<>>
      BY Zenon, <2>1 DEF CoordTypeOK, Recorded
    <3> QED
      BY Zenon, <2>1, <3>1 DEF ShardPhase
  <2>5. ForgottenWithoutFailover
    BY Zenon, <2>1 DEF ForgottenWithoutFailover, DoneIsForgotten, NoFailoverYet, CoordTypeOK
  <2> QED
    BY Zenon, <2>1, <2>2, <2>3, <2>4, <2>5 DEF PhasesSound
<1>2. TwoPhaseInv /\ [Next]_vars => TwoPhaseInv'
  BY Zenon, TwoPhaseStep
<1> QED
  BY <1>1, <1>2, TwoPhaseInit, PTL DEF Spec

=============================================================================

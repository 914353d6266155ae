------------------------- MODULE TwoPhaseUHS_proofs -------------------------
(***************************************************************************)
(* Proofs about the unspent hash set that the coordinator and the locking  *)
(* shards keep together: no double spend, and the refinement of the        *)
(* abstract UHS.                                                           *)
(*                                                                         *)
(* The shards apply a batch one after the other, so that between two       *)
(* applies they hold a mixture of old and new. StoreInv says what a shard  *)
(* stores by the batches it has applied: an ID that one of them created    *)
(* and none spent. An input of a batch that settles is then stored, since  *)
(* the shard holds a lock on it, and no other batch can have spent it.     *)
(***************************************************************************)
EXTENDS TwoPhase_proofs

\* The transactions sentinels attest spend something: check_input_count rejects
\* the others.  Mints, which a client signs with the sentinels' keys for the
\* shards of a test network, are excluded: a mint submitted twice settles twice.
SpendsSomething == \A t \in Attested : m_inputs[t] # {}

\* The i-th transaction of d settled, and the shard that stores id has applied
\* the batch (or takes no part in it).
AppliedFor(id, d, i) == Settles(d, i) /\ ~Prepared(HomeShard[id], d)

MadeBy(id, d, i) == AppliedFor(id, d, i) /\ id \in m_uhs_outputs[sealed[d][i]]

SpentBy(id, d, i) == AppliedFor(id, d, i) /\ id \in m_inputs[sealed[d][i]]

\* The shard that stores id has seen it created, or spent.
Made(id) == id \in Seed \/ \E d \in Dtx, i \in Idx : MadeBy(id, d, i)

Spent(id) == \E d \in Dtx, i \in Idx : SpentBy(id, d, i)

\* check_unspent on the shard that stores id.
Stored(id) == check_unspent(HomeShard[id], id)

\* What a shard stores is what was created and not spent; nothing is spent
\* before it is created, and nothing is both locked and unlocked.
StoreOf(id) ==
    /\ Stored(id) <=> Made(id) /\ ~Spent(id)
    /\ Spent(id) => Made(id)
    /\ id \notin m_uhs[HomeShard[id]] \cap m_locked[HomeShard[id]]

StoreInv == \A id \in UhsId : StoreOf(id)

UhsInv == TwoPhaseInv /\ NoDoubleSpend /\ StoreInv

-----------------------------------------------------------------------------
\* A settled transaction is a sealed and attested one.
LEMMA SettledFacts ==
    ASSUME PhaseInv, NEW d \in Dtx, NEW i, Settles(d, i)
    PROVE  /\ decided[d] # <<>> /\ DOMAIN decided[d] = DOMAIN sealed[d]
           /\ i \in Idx /\ i \in DOMAIN sealed[d]
           /\ sealed[d][i] \in Attested /\ sealed[d][i] \in Tx
<1>1. CoordTypeOK /\ Recorded(d) /\ i \in DOMAIN decided[d]
  BY Zenon DEF PhaseInv, Settles
<1>2. sealed[d] \in Batch /\ decided[d] \in Flags
  BY Zenon, <1>1 DEF CoordTypeOK
<1>3. decided[d] # <<>>
  BY Zenon, <1>1, <1>2, FlagsFacts
<1>4. DOMAIN decided[d] = DOMAIN sealed[d]
  BY Zenon, <1>1, <1>3 DEF Recorded
<1> QED
  BY Zenon, <1>1, <1>2, <1>3, <1>4, BatchFacts

\* The shard that stores an input or an output of a transaction of d takes
\* part in d.
LEMMA HomeTakesPart ==
    ASSUME CoordTypeOK, NEW d \in Dtx, NEW i \in DOMAIN sealed[d], NEW id \in UhsId,
           id \in m_inputs[sealed[d][i]] \cup m_uhs_outputs[sealed[d][i]]
    PROVE  HomeShard[id] \in Shard /\ i \in Part(d, HomeShard[id])
<1>1. HomeShard[id] \in Shard
  BY Zenon, LockingShardAssumption
<1>2. ActiveIn(HomeShard[id], sealed[d][i])
  BY Zenon DEF ActiveIn, ShardInputs, ShardOutputs, hash_in_shard_range
<1> QED
  BY Zenon, <1>1, <1>2 DEF Part, TxIdxs

\* No transaction settles twice.
LEMMA SettlesOnce ==
    ASSUME SpendsSomething, PhaseInv, NoDoubleSpend,
           NEW d \in Dtx, NEW e \in Dtx, NEW i, NEW j,
           Settles(d, i), Settles(e, j), sealed[d][i] = sealed[e][j]
    PROVE  d = e /\ i = j
<1>1. i \in Idx /\ j \in Idx /\ sealed[d][i] \in Attested
  BY Zenon, SettledFacts
<1>2. Conflict(sealed[d][i], sealed[e][j])
  BY Zenon, <1>1 DEF Conflict, SpendsSomething
<1> QED
  BY Zenon, <1>1, <1>2 DEF NoDoubleSpend

\* The outputs of a settled transaction that its shard has not applied yet
\* are new.
LEMMA OutputsNew ==
    ASSUME SpendsSomething, PhaseInv, NoDoubleSpend, NEW d \in Dtx, NEW i,
           Settles(d, i), NEW o \in m_uhs_outputs[sealed[d][i]],
           Prepared(HomeShard[o], d)
    PROVE  ~Made(o)
<1> SUFFICES ASSUME Made(o) PROVE FALSE
  BY Zenon
<1>1. sealed[d][i] \in Tx
  BY Zenon, SettledFacts
<1>2. o \notin Seed
  BY Zenon, <1>1, OutputsAreFresh
<1>3. PICK e \in Dtx, j \in Idx : MadeBy(o, e, j)
  BY Zenon, <1>2 DEF Made
<1>4. /\ Settles(e, j) /\ ~Prepared(HomeShard[o], e)
      /\ o \in m_uhs_outputs[sealed[e][j]]
  BY Zenon, <1>3 DEF MadeBy, AppliedFor
<1>5. sealed[e][j] \in Tx
  BY Zenon, <1>4, SettledFacts
<1>6. sealed[d][i] = sealed[e][j]
  BY Zenon, <1>1, <1>4, <1>5, OutputsAreFresh
<1> QED
  BY Zenon, <1>4, <1>6, SettlesOnce

\* The inputs of a transaction a shard reported as locked are locked.
LEMMA InputsLocked ==
    ASSUME TwoPhaseInv, NEW d \in Dtx, NEW i \in DOMAIN sealed[d], NEW id \in UhsId,
           id \in m_inputs[sealed[d][i]], Prepared(HomeShard[id], d),
           m_prepared_dtxs[HomeShard[id]][d].m_results[i]
    PROVE  id \in m_locked[HomeShard[id]]
<1> DEFINE s == HomeShard[id]
<1>1. CoordTypeOK /\ HolderHasLock
  BY Zenon DEF TwoPhaseInv, PhaseInv
<1>2. s \in Shard /\ i \in Part(d, s) /\ i \in Idx
  BY Zenon, <1>1, HomeTakesPart, PartFacts
<1>3. m_prepared_dtxs[s][d].m_txs = PartOf(d, s)
  BY Zenon, <1>2 DEF TwoPhaseInv, ShardInv, ShardPhase
<1>4. Holds(s, d, i) /\ m_prepared_dtxs[s][d].m_txs[i] = sealed[d][i]
  BY <1>1, <1>2, <1>3, PartFacts DEF Holds
<1>5. id \in HeldInputs(s, d, i)
  BY Zenon, <1>4 DEF HeldInputs, ShardInputs, hash_in_shard_range
<1> QED
  BY Zenon, <1>1, <1>2, <1>4, <1>5 DEF HolderHasLock

-----------------------------------------------------------------------------
\* A step that neither settles nor applies anything for id.
LEMMA FrameStore ==
    ASSUME NEW id \in UhsId, StoreOf(id), Stored(id)' <=> Stored(id),
           id \notin m_uhs'[HomeShard[id]] \cap m_locked'[HomeShard[id]],
           \A d \in Dtx, i \in Idx : MadeBy(id, d, i)' <=> MadeBy(id, d, i),
           \A d \in Dtx, i \in Idx : SpentBy(id, d, i)' <=> SpentBy(id, d, i)
    PROVE  StoreOf(id)'
<1>1. Made(id)' <=> Made(id)
  BY Zenon DEF Made
<1>2. Spent(id)' <=> Spent(id)
  BY Zenon DEF Spent
<1> QED
  BY Zenon, <1>1, <1>2 DEF StoreOf

\* Steps that leave the shards' stores and the decisions alone.
LEMMA StoreQuiet ==
    ASSUME UhsInv, UNCHANGED <<m_uhs, m_locked, m_prepared_dtxs, decided>>,
           \A d \in Dtx : decided[d] # <<>> => sealed'[d] = sealed[d]
    PROVE  NoDoubleSpend' /\ StoreInv'
<1>1. PhaseInv /\ NoDoubleSpend /\ StoreInv
  BY Zenon DEF UhsInv, TwoPhaseInv
<1>2. ASSUME NEW d \in Dtx, NEW i
      PROVE  /\ Settles(d, i)' <=> Settles(d, i)
             /\ Settles(d, i) => sealed'[d] = sealed[d]
  BY Zenon, <1>1, SettledFacts DEF Settles
<1>3. NoDoubleSpend'
  BY Zenon, <1>1, <1>2 DEF NoDoubleSpend, Conflict
<1>4. ASSUME NEW id \in UhsId PROVE StoreOf(id)'
  <2>1. Stored(id)' <=> Stored(id)
    BY Zenon DEF Stored, check_unspent
  <2>2. \A d \in Dtx, i \in Idx : /\ MadeBy(id, d, i)' <=> MadeBy(id, d, i)
                                  /\ SpentBy(id, d, i)' <=> SpentBy(id, d, i)
    BY Zenon, <1>2 DEF MadeBy, SpentBy, AppliedFor, Prepared
  <2>3. id \notin m_uhs'[HomeShard[id]] \cap m_locked'[HomeShard[id]]
    BY Zenon, <1>1 DEF StoreInv, StoreOf
  <2> QED
    BY Zenon, <1>1, <2>1, <2>2, <2>3, FrameStore DEF StoreInv
<1> QED
  BY Zenon, <1>3, <1>4 DEF StoreInv

\* When the RSM records a batch, the inputs of its completed transactions are
\* locked for it on every participant.
LEMMA CommitLocked ==
    ASSUME TwoPhaseInv, NEW d \in Dtx, commit(d), NEW i, Settles(d, i)',
           NEW id \in m_inputs[sealed[d][i]]
    PROVE  /\ i \in DOMAIN sealed[d] /\ id \in UhsId /\ HomeShard[id] \in Shard
           /\ id \in m_locked[HomeShard[id]]
<1>1. /\ PhaseInv /\ ShardInv /\ CoordTypeOK
      /\ Recorded(d) /\ Executed(d) /\ m_exec[d].m_state = "prepare"
  BY Zenon DEF TwoPhaseInv, PhaseInv, commit
<1>2. decided'[d] = m_exec[d].m_complete_txs
  BY Zenon, <1>1, PhaseCommit
<1>3. i \in DOMAIN sealed[d] /\ m_exec[d].m_complete_txs[i]
  BY Zenon, <1>1, <1>2 DEF Settles, Executed
<1>4. sealed[d] \in Batch
  BY Zenon, <1>1 DEF CoordTypeOK
<1>5. id \in UhsId
  BY Zenon, <1>3, <1>4, BatchFacts, TransactionsAssumption
<1> DEFINE s == HomeShard[id]
<1>6. s \in Shard /\ i \in Part(d, s)
  BY Zenon, <1>1, <1>3, <1>5, HomeTakesPart
<1>7. Prepared(s, d)
  BY Zenon, <1>1, <1>6, ShardInvCommit
<1>8. s \in m_exec[d].answered
  BY Zenon, <1>1, <1>6 DEF Executed, Part, commit, AllAnswered, Unanswered, Participants
<1>9. m_prepared_dtxs[s][d].m_results[i]
  BY Zenon, <1>1, <1>3, <1>6, <1>8 DEF ShardInv, ShardPhase
<1> QED
  BY Zenon, <1>3, <1>5, <1>6, <1>7, <1>9, InputsLocked

\* The RSM records no second spend: an input that is locked for the batch is
\* not spent, and no other live batch has it.
LEMMA SpendCommit ==
    ASSUME UhsInv, NEW d \in Dtx, commit(d)
    PROVE  NoDoubleSpend'
<1>1. /\ TwoPhaseInv /\ PhaseInv /\ ShardInv /\ FlightInv /\ CoordTypeOK
      /\ NoDoubleSpend /\ StoreInv
  BY Zenon DEF UhsInv, TwoPhaseInv, PhaseInv
<1>2. /\ sealed' = sealed /\ decided[d] = <<>> /\ Live(d)
      /\ \A e \in Dtx : e # d => decided'[e] = decided[e]
  BY Zenon, <1>1, PhaseCommit DEF commit, CoordTypeOK, Live
<1>3. ASSUME NEW e \in Dtx, NEW i, NEW j, e # d, Settles(d, i)', Settles(e, j)
      PROVE  ~Conflict(sealed[d][i], sealed[e][j])
  <2> SUFFICES ASSUME NEW id, id \in m_inputs[sealed[d][i]], id \in m_inputs[sealed[e][j]]
               PROVE  FALSE
    BY Zenon DEF Conflict
  <2> DEFINE s == HomeShard[id]
  <2>1. /\ i \in DOMAIN sealed[d] /\ id \in UhsId /\ s \in Shard
        /\ id \in m_locked[s]
    BY Zenon, <1>1, <1>3, CommitLocked
  <2>2. j \in Idx /\ j \in DOMAIN sealed[e]
    BY Zenon, <1>1, <1>3, SettledFacts
  <2>3. CASE Prepared(s, e)
    <3>1. Live(e)
      BY Zenon, <1>1, <2>1, <2>3 DEF ShardInv, ShardPhase, Live
    <3>2. Apart(sealed[d], sealed[e])
      BY Zenon, <1>1, <1>2, <1>3, <3>1 DEF FlightInv
    <3> QED
      BY Zenon, <2>1, <2>2, <3>2 DEF Apart, Conflict
  <2>4. CASE ~Prepared(s, e)
    <3>1. Spent(id)
      BY Zenon, <1>3, <2>2, <2>4 DEF Spent, SpentBy, AppliedFor
    <3>2. Stored(id)
      BY Zenon, <2>1 DEF Stored, check_unspent
    <3> QED
      BY Zenon, <1>1, <2>1, <3>1, <3>2 DEF StoreInv, StoreOf
  <2> QED
    BY Zenon, <2>3, <2>4
<1>4. ASSUME NEW i, NEW j, i # j, Settles(d, i)', Settles(d, j)'
      PROVE  ~Conflict(sealed[d][i], sealed[d][j])
  <2>1. PhaseInv' /\ DOMAIN decided'[d] = DOMAIN sealed[d]
    BY Zenon, <1>1, <1>2, PhaseCommit DEF PhaseInv, Executed, commit
  <2>2. i \in DOMAIN sealed[d] /\ j \in DOMAIN sealed[d]
    BY Zenon, <1>4, <2>1 DEF Settles
  <2> QED
    BY Zenon, <1>1, <1>2, <1>4, <2>2 DEF FlightInv, ApartWithin
<1>5. ASSUME NEW e \in Dtx, NEW j, e # d PROVE Settles(e, j)' <=> Settles(e, j)
  BY Zenon, <1>2, <1>5 DEF Settles
<1>6. ASSUME NEW x \in Dtx, NEW y \in Dtx, NEW i \in Idx, NEW j \in Idx,
             Settles(x, i)', Settles(y, j)', x # y \/ i # j
      PROVE  ~Conflict(sealed[x][i], sealed[y][j])
  <2>1. CASE x = d /\ y = d
    BY Zenon, <1>4, <1>6, <2>1
  <2>2. CASE x = d /\ y # d
    BY Zenon, <1>3, <1>5, <1>6, <2>2
  <2>3. CASE x # d /\ y = d
    BY Zenon, <1>3, <1>5, <1>6, <2>3, ConflictSym
  <2>4. CASE x # d /\ y # d
    BY Zenon, <1>1, <1>5, <1>6, <2>4 DEF NoDoubleSpend
  <2> QED
    BY Zenon, <2>1, <2>2, <2>3, <2>4
<1> QED
  BY Zenon, <1>2, <1>6 DEF NoDoubleSpend, Conflict

\* A shard that has not applied a batch sees nothing of its decision.
LEMMA StoreCommit ==
    ASSUME UhsInv, NEW d \in Dtx, commit(d)
    PROVE  StoreInv'
<1>1. /\ TwoPhaseInv /\ PhaseInv /\ ShardInv /\ CoordTypeOK /\ StoreInv
  BY Zenon DEF UhsInv, TwoPhaseInv, PhaseInv
<1>2. /\ sealed' = sealed /\ decided[d] = <<>>
      /\ \A e \in Dtx : e # d => decided'[e] = decided[e]
      /\ UNCHANGED <<m_uhs, m_locked, m_prepared_dtxs>>
  BY Zenon, <1>1, PhaseCommit DEF commit, CoordTypeOK, shardVars
<1>3. DOMAIN decided'[d] = DOMAIN sealed[d]
  BY Zenon, <1>1, <1>2, PhaseCommit DEF PhaseInv, Executed, commit
<1>4. ASSUME NEW id \in UhsId PROVE StoreOf(id)'
  <2>1. Stored(id)' <=> Stored(id)
    BY Zenon, <1>2 DEF Stored, check_unspent
  <2>2. ASSUME NEW e \in Dtx, NEW i \in Idx, e # d
        PROVE  /\ MadeBy(id, e, i)' <=> MadeBy(id, e, i)
               /\ SpentBy(id, e, i)' <=> SpentBy(id, e, i)
    BY Zenon, <1>2, <2>2 DEF MadeBy, SpentBy, AppliedFor, Prepared, Settles
  <2>3. ASSUME NEW i \in Idx
        PROVE  /\ ~MadeBy(id, d, i) /\ ~SpentBy(id, d, i)
               /\ ~MadeBy(id, d, i)' /\ ~SpentBy(id, d, i)'
    <3>1. ~Settles(d, i)
      BY <1>2 DEF Settles
    <3>2. ASSUME Settles(d, i)', ~Prepared(HomeShard[id], d)
          PROVE  id \notin m_inputs[sealed[d][i]] \cup m_uhs_outputs[sealed[d][i]]
      <4>1. i \in DOMAIN sealed[d]
        BY Zenon, <1>3, <3>2 DEF Settles
      <4> QED
        BY Zenon, <1>1, <3>2, <4>1, HomeTakesPart, ShardInvCommit
    <3> QED
      BY Zenon, <1>2, <3>1, <3>2 DEF MadeBy, SpentBy, AppliedFor, Prepared
  <2>4. id \notin m_uhs'[HomeShard[id]] \cap m_locked'[HomeShard[id]]
    BY Zenon, <1>1, <1>2 DEF StoreInv, StoreOf
  <2> QED
    BY Zenon, <1>1, <2>1, <2>2, <2>3, <2>4, FrameStore DEF StoreInv
<1> QED
  BY Zenon, <1>4 DEF StoreInv

\* A request changes the store of one shard, and what it knows of one batch.
LEMMA OtherShards ==
    ASSUME UhsInv, NEW d \in Dtx, NEW s \in Shard, NEW id \in UhsId,
           UNCHANGED <<sealed, decided>>,
           \A r \in Shard : r # s => m_uhs'[r] = m_uhs[r] /\ m_locked'[r] = m_locked[r],
           \A r \in Shard, e \in Dtx : e # d \/ r # s =>
               m_prepared_dtxs'[r][e] = m_prepared_dtxs[r][e]
    PROVE  /\ HomeShard[id] # s => StoreOf(id)'
           /\ \A e \in Dtx, i \in Idx : e # d =>
                /\ MadeBy(id, e, i)' <=> MadeBy(id, e, i)
                /\ SpentBy(id, e, i)' <=> SpentBy(id, e, i)
<1> DEFINE h == HomeShard[id]
<1>1. h \in Shard /\ StoreOf(id)
  BY Zenon, LockingShardAssumption DEF UhsInv, StoreInv
<1>2. ASSUME NEW e \in Dtx, NEW i \in Idx, e # d \/ h # s
      PROVE  /\ MadeBy(id, e, i)' <=> MadeBy(id, e, i)
             /\ SpentBy(id, e, i)' <=> SpentBy(id, e, i)
  BY Zenon, <1>1, <1>2 DEF MadeBy, SpentBy, AppliedFor, Prepared, Settles
<1>3. ASSUME h # s PROVE StoreOf(id)'
  <2>1. Stored(id)' <=> Stored(id)
    BY Zenon, <1>1, <1>3 DEF Stored, check_unspent
  <2>2. id \notin m_uhs'[h] \cap m_locked'[h]
    BY Zenon, <1>1, <1>3 DEF StoreOf
  <2> QED
    BY Zenon, <1>1, <1>2, <1>3, <2>1, <2>2, FrameStore
<1> QED
  BY Zenon, <1>2, <1>3

\* lock_outputs moves IDs from the UHS to the locked set and creates none.
LEMMA StoreLock ==
    ASSUME UhsInv, NEW d \in Dtx, NEW s \in Shard, NEW txs,
           decided[d] = <<>>, LockFresh(s, d, txs), UNCHANGED <<sealed, decided>>
    PROVE  StoreInv'
<1>1. ShardTypeOK /\ StoreInv
  BY Zenon DEF UhsInv, TwoPhaseInv, PhaseInv
<1>2. PICK ok \in [DOMAIN txs -> BOOLEAN] :
         /\ \A i \in DOMAIN txs : ok[i] = check_and_lock_tx(s, txs, ok, i)
         /\ LET taken == UNION {ShardInputs(s, txs[i]) :
                                  i \in {k \in DOMAIN txs : ok[k]}}
            IN /\ m_uhs' = [m_uhs EXCEPT ![s] = @ \ taken]
               /\ m_locked' = [m_locked EXCEPT ![s] = @ \cup taken]
         /\ m_prepared_dtxs' = [m_prepared_dtxs EXCEPT
                ![s] = [@ EXCEPT ![d] = Entry(txs, ok)]]
  BY Zenon DEF LockFresh
<1> DEFINE taken == UNION {ShardInputs(s, txs[i]) : i \in {k \in DOMAIN txs : ok[k]}}
<1>3. taken \subseteq m_uhs[s]
  BY Zenon, <1>2 DEF check_and_lock_tx
<1>4. m_uhs'[s] = m_uhs[s] \ taken /\ m_locked'[s] = m_locked[s] \cup taken
  BY Zenon, <1>1, <1>2 DEF ShardTypeOK
<1>5. /\ \A r \in Shard : r # s => m_uhs'[r] = m_uhs[r] /\ m_locked'[r] = m_locked[r]
      /\ \A r \in Shard, e \in Dtx : e # d \/ r # s =>
             m_prepared_dtxs'[r][e] = m_prepared_dtxs[r][e]
  BY Zenon, <1>1, <1>2 DEF ShardTypeOK
<1> HIDE DEF taken
<1>6. ASSUME NEW id \in UhsId, HomeShard[id] = s PROVE StoreOf(id)'
  <2>1. StoreOf(id)
    BY Zenon, <1>1 DEF StoreInv
  <2>2. Stored(id)' <=> Stored(id)
    BY Zenon, <1>3, <1>4, <1>6 DEF Stored, check_unspent
  <2>3. id \notin m_uhs'[HomeShard[id]] \cap m_locked'[HomeShard[id]]
    BY Zenon, <1>4, <1>6, <2>1 DEF StoreOf
  <2>4. \A i \in Idx : /\ MadeBy(id, d, i)' <=> MadeBy(id, d, i)
                       /\ SpentBy(id, d, i)' <=> SpentBy(id, d, i)
    BY DEF MadeBy, SpentBy, AppliedFor, Settles
  <2> QED
    BY <1>5, <2>1, <2>2, <2>3, <2>4, OtherShards, FrameStore
<1> QED
  BY Zenon, <1>5, <1>6, OtherShards DEF StoreInv

\* apply_outputs creates the outputs of the completed transactions, spends
\* their inputs and gives the inputs of the other ones back.
LEMMA StoreApply ==
    ASSUME SpendsSomething, UhsInv, NEW d \in Dtx, NEW s \in Shard,
           decided[d] # <<>>, ApplyPrepared(s, d, FlagsOf(d, s)),
           UNCHANGED <<sealed, decided>>
    PROVE  StoreInv'
<1>1. /\ ShardTypeOK /\ CoordTypeOK /\ PhaseInv /\ ShardInv /\ FlightInv
      /\ TwoPhaseInv /\ StoreInv /\ NoDoubleSpend
      /\ Recorded(d) /\ ShardPhase(d, s)
  BY Zenon DEF UhsInv, TwoPhaseInv, PhaseInv, ShardInv
<1> DEFINE txs == PartOf(d, s)
           flags == FlagsOf(d, s)
<1>2. /\ Prepared(s, d) /\ m_prepared_dtxs[s][d].m_txs = txs
      /\ \A i \in Part(d, s) : Settles(d, i) => m_prepared_dtxs[s][d].m_results[i]
      /\ Live(d)
  BY Zenon, <1>1 DEF ApplyPrepared, ShardPhase, Live
<1>3. /\ Part(d, s) \subseteq DOMAIN sealed[d] /\ DOMAIN txs = Part(d, s)
      /\ Part(d, s) \subseteq Idx
      /\ \A i \in Part(d, s) : txs[i] = sealed[d][i]
  BY Zenon, <1>1, PartFacts
<1>4. DOMAIN decided[d] = DOMAIN sealed[d]
  BY Zenon, <1>1 DEF Recorded
<1>5. \A i \in Part(d, s) : flags[i] <=> Settles(d, i)
  BY Zenon, <1>3, <1>4 DEF FlagsOf, Settles
<1>6. /\ m_uhs'[s] = m_uhs[s] \cup Created(s, txs, flags) \cup Returned(s, txs, flags)
      /\ m_locked'[s] = m_locked[s] \ Unlocked(s, txs)
      /\ DOMAIN m_prepared_dtxs'[s][d].m_txs = {}
  BY Zenon, <1>1, <1>2, NotPreparedType DEF ApplyPrepared, ShardTypeOK
<1>7. /\ \A r \in Shard : r # s => m_uhs'[r] = m_uhs[r] /\ m_locked'[r] = m_locked[r]
      /\ \A r \in Shard, e \in Dtx : e # d \/ r # s =>
             m_prepared_dtxs'[r][e] = m_prepared_dtxs[r][e]
  BY Zenon, <1>1 DEF ApplyPrepared, ShardTypeOK
<1>8. ASSUME NEW id \in UhsId, HomeShard[id] = s PROVE StoreOf(id)'
  <2> DEFINE Out(i) == Settles(d, i) /\ id \in m_uhs_outputs[sealed[d][i]]
             In(i) == Settles(d, i) /\ id \in m_inputs[sealed[d][i]]
             Back(i) == ~Settles(d, i) /\ id \in m_inputs[sealed[d][i]]
  <2>1. StoreOf(id) /\ ~Prepared(s, d)'
    BY Zenon, <1>1, <1>6 DEF StoreInv, Prepared
  <2>2. \A i : /\ Out(i) \/ In(i) => i \in Part(d, s)
               /\ i \in DOMAIN sealed[d] /\ Back(i) => i \in Part(d, s)
    BY Zenon, <1>1, <1>4, <1>8, HomeTakesPart DEF Settles
  <2>3. /\ Made(id)' <=> Made(id) \/ \E i \in Part(d, s) : Out(i)
        /\ Spent(id)' <=> Spent(id) \/ \E i \in Part(d, s) : In(i)
    <3>1. \A e \in Dtx, i \in Idx : e # d =>
             /\ MadeBy(id, e, i)' <=> MadeBy(id, e, i)
             /\ SpentBy(id, e, i)' <=> SpentBy(id, e, i)
      BY Zenon, <1>7, OtherShards
    <3>2. \A i \in Idx : /\ ~MadeBy(id, d, i) /\ ~SpentBy(id, d, i)
                         /\ MadeBy(id, d, i)' <=> Out(i)
                         /\ SpentBy(id, d, i)' <=> In(i)
      BY Zenon, <1>2, <1>8, <2>1 DEF MadeBy, SpentBy, AppliedFor, Settles
    <3> QED
      BY Zenon, <1>3, <2>2, <3>1, <3>2 DEF Made, Spent
  <2>4. (\E i \in Part(d, s) : Out(i)) => ~Made(id)
    BY Zenon, <1>1, <1>2, <1>8, OutputsNew
  <2>5. (\E i \in Part(d, s) : In(i)) => id \in m_locked[s]
    BY Zenon, <1>1, <1>2, <1>3, <1>8, InputsLocked
  <2>6. id \in Created(s, txs, flags) <=> \E i \in Part(d, s) : Out(i)
    BY <1>3, <1>5, <1>8 DEF Created, ShardOutputs, hash_in_shard_range
  <2>7. id \in Unlocked(s, txs) <=> \E i \in Part(d, s) : In(i) \/ Back(i)
    BY <1>3, <1>8 DEF Unlocked, ShardInputs, hash_in_shard_range
  <2>8. ASSUME NEW i \in Part(d, s), NEW j \in Part(d, s), i # j,
               id \in m_inputs[sealed[d][i]]
        PROVE  id \notin m_inputs[sealed[d][j]]
    BY Zenon, <1>1, <1>2, <1>3, <2>8 DEF FlightInv, ApartWithin, Conflict
  <2>9. id \in Returned(s, txs, flags) <=>
           id \in m_locked[s] /\ \E i \in Part(d, s) : Back(i)
    <3>1. id \in Returned(s, txs, flags) <=>
             /\ id \in m_locked[s]
             /\ \E i \in Part(d, s) :
                  /\ Back(i)
                  /\ \A j \in Part(d, s) : j < i => id \notin m_inputs[sealed[d][j]]
      BY <1>3, <1>5, <1>8 DEF Returned, ShardInputs, hash_in_shard_range
    <3>2. \A i, j \in Part(d, s) : j < i => i # j
      BY <1>3 DEF Idx
    <3> QED
      BY Zenon, <2>8, <3>1, <3>2
  <2>10. (\E i \in Part(d, s) : In(i)) => ~ \E i \in Part(d, s) : Back(i)
    BY Zenon, <2>8
  <2> DEFINE out == \E i \in Part(d, s) : Out(i)
             in == \E i \in Part(d, s) : In(i)
             back == \E i \in Part(d, s) : Back(i)
  <2>11. /\ id \in m_uhs'[s] <=> id \in m_uhs[s] \/ out \/ (id \in m_locked[s] /\ back)
         /\ id \in m_locked'[s] <=> id \in m_locked[s] /\ ~in /\ ~back
    BY Zenon, <1>6, <2>6, <2>7, <2>9
  <2>12. /\ Stored(id) <=> id \in m_uhs[s] \/ id \in m_locked[s]
         /\ Stored(id)' <=> id \in m_uhs'[s] \/ id \in m_locked'[s]
    BY Zenon, <1>8 DEF Stored, check_unspent
  <2> HIDE DEF out, in, back
  <2>13. /\ out => ~Made(id)
         /\ in => id \in m_locked[s] /\ ~back
         /\ Made(id)' <=> Made(id) \/ out
         /\ Spent(id)' <=> Spent(id) \/ in
    BY Zenon, <2>3, <2>4, <2>5, <2>10 DEF out, in, back
  <2>14. /\ Stored(id) <=> Made(id) /\ ~Spent(id)
         /\ Spent(id) => Made(id)
         /\ ~(id \in m_uhs[s] /\ id \in m_locked[s])
    BY Zenon, <1>8, <2>1 DEF StoreOf
  <2>15. /\ Stored(id)' <=> Made(id)' /\ ~Spent(id)'
         /\ Spent(id)' => Made(id)'
         /\ ~(id \in m_uhs'[s] /\ id \in m_locked'[s])
    BY Zenon, <2>11, <2>12, <2>13, <2>14
  <2> QED
    BY Zenon, <1>8, <2>15 DEF StoreOf
<1> QED
  BY Zenon, <1>7, <1>8, OtherShards DEF StoreInv

-----------------------------------------------------------------------------
\* What a step can do to the shards' stores and to the decisions.
QuietStep ==
    /\ UNCHANGED <<m_uhs, m_locked, m_prepared_dtxs, decided>>
    /\ \A d \in Dtx : decided[d] # <<>> => sealed'[d] = sealed[d]

LockStep(d, s) ==
    /\ decided[d] = <<>> /\ LockFresh(s, d, PartOf(d, s))
    /\ UNCHANGED <<sealed, decided>>

ApplyStep(d, s) ==
    /\ decided[d] # <<>> /\ ApplyPrepared(s, d, FlagsOf(d, s))
    /\ UNCHANGED <<sealed, decided>>

\* A request of the leader locks, applies or leaves the store alone.
LEMMA RequestSteps ==
    ASSUME PhaseInv, NEW d \in Dtx, NEW s \in Shard,
           process_request(s, d, m_exec[d].m_state, Payload(d, s)),
           UNCHANGED <<sealed, decided>>
    PROVE  QuietStep \/ LockStep(d, s) \/ ApplyStep(d, s)
<1>1. Recorded(d) /\ Executed(d)
  BY Zenon DEF PhaseInv
<1>2. CASE m_exec[d].m_state = "prepare" /\ LockFresh(s, d, Payload(d, s))
  <2>1. decided[d] = <<>> /\ Payload(d, s) = PartOf(d, s)
    BY Zenon, <1>1, <1>2, PayloadFacts DEF Executed, Recorded
  <2> QED
    BY Zenon, <1>2, <2>1 DEF LockStep
<1>3. CASE m_exec[d].m_state = "commit" /\ ApplyPrepared(s, d, Payload(d, s))
  <2>1. decided[d] # <<>> /\ Payload(d, s) = FlagsOf(d, s)
    BY Zenon, <1>3, PayloadFacts
  <2> QED
    BY Zenon, <1>3, <2>1 DEF ApplyStep
<1>4. CASE UNCHANGED <<m_uhs, m_locked, m_prepared_dtxs>>
  BY Zenon, <1>4 DEF QuietStep
<1> DEFINE phase == m_exec[d].m_state
           data == Payload(d, s)
<1>5. CASE UNCHANGED shardVars
  BY Zenon, <1>4, <1>5 DEF shardVars
<1>6. CASE ApplyFatal(s, d, data)
  BY Zenon, <1>4, <1>6 DEF ApplyFatal
<1>7. CASE discard_dtx(s, d)
  BY Zenon, <1>4, <1>7 DEF discard_dtx
<1>8. process_request(s, d, phase, data)
  BY Zenon
<1> HIDE DEF phase, data
<1>9. \/ phase = "prepare" /\ LockFresh(s, d, data)
      \/ phase = "commit" /\ ApplyPrepared(s, d, data)
      \/ UNCHANGED shardVars
      \/ ApplyFatal(s, d, data)
      \/ discard_dtx(s, d)
  BY Zenon, <1>8, RequestCases
<1> QED
  BY Zenon, <1>2, <1>3, <1>5, <1>6, <1>7, <1>9 DEF phase, data

\* For the UHS a step is one of four: nothing changes, a dtx's decisions become
\* final (commit), a shard locks (lock_outputs) or a shard applies
\* (apply_outputs).
LEMMA Steps ==
    ASSUME PhaseInv, lateRequests = {}, [Next]_vars
    PROVE  \/ QuietStep
           \/ \E d \in Dtx : commit(d)
           \/ \E d \in Dtx, s \in Shard : LockStep(d, s) \/ ApplyStep(d, s)
<1>1. ASSUME NEW d \in Dtx, NEW s \in Shard, AnswerLost(d, s) \/ AnswerReceived(d, s)
      PROVE  QuietStep \/ LockStep(d, s) \/ ApplyStep(d, s)
  <2>1. UNCHANGED <<sealed, decided>>
    BY Zenon, <1>1 DEF AnswerLost, AnswerReceived, coordVars, historyVars
  <2> QED
    BY Zenon, <1>1, <2>1, RequestSteps DEF AnswerLost, AnswerReceived
<1>2. ASSUME NEW d \in Dtx, SealBatch(d) PROVE QuietStep
  <2>1. sealed[d] = <<>> => decided[d] = <<>>
    BY Zenon DEF PhaseInv, Recorded
  <2> QED
    BY Zenon, <1>2, <2>1 DEF SealBatch, QuietStep, shardVars, PhaseInv, CoordTypeOK
<1>3. ASSUME NEW d \in Dtx, prepare(d) \/ discard(d) \/ done(d) PROVE QuietStep
  BY Zenon, <1>3 DEF prepare, discard, done, QuietStep, shardVars, historyVars
<1>4. ASSUME \/ \E t \in Tx : execute_transaction(t)
             \/ LeaderFails \/ recovery_func \/ Recovered \/ UNCHANGED vars
      PROVE  QuietStep
  BY Zenon, <1>4 DEF execute_transaction, LeaderFails, recovery_func, Recovered, vars,
     coordVars, QuietStep, shardVars, historyVars
<1> QED
  BY Zenon, <1>1, <1>2, <1>3, <1>4 DEF Next, Execute

\* The invariant holds initially: what is unspent is the seed.
LEMMA UhsInit == Init => UhsInv
<1> SUFFICES ASSUME Init PROVE UhsInv
  BY Zenon
<1>1. ASSUME NEW d \in Dtx, NEW i PROVE ~Settles(d, i)
  BY DEF Init, CoordInit, Settles
<1>2. ASSUME NEW id \in UhsId PROVE StoreOf(id)
  <2>1. /\ Made(id) <=> id \in Seed
        /\ ~Spent(id)
    BY Zenon, <1>1 DEF Made, Spent, MadeBy, SpentBy, AppliedFor
  <2>2. /\ id \in m_uhs[HomeShard[id]] <=> id \in Seed
        /\ id \notin m_locked[HomeShard[id]]
    BY Zenon, LockingShardAssumption DEF Init, ShardInit, hash_in_shard_range
  <2> QED
    BY Zenon, <2>1, <2>2 DEF StoreOf, Stored, check_unspent
<1> QED
  BY Zenon, <1>1, <1>2, TwoPhaseInit DEF UhsInv, StoreInv, NoDoubleSpend

\* The invariant is preserved by every step.
LEMMA UhsStep ==
    ASSUME ConflictFree = TRUE, LateRequests = FALSE, SpendsSomething,
           UhsInv, [Next]_vars
    PROVE  UhsInv'
<1>1. TwoPhaseInv /\ PhaseInv /\ lateRequests = {} /\ NoDoubleSpend
  BY Zenon DEF UhsInv, TwoPhaseInv, ShardInv
<1>2. TwoPhaseInv'
  BY Zenon, <1>1, TwoPhaseStep
<1>3. CASE QuietStep
  BY Zenon, <1>2, <1>3, StoreQuiet DEF QuietStep, UhsInv
<1>4. ASSUME NEW d \in Dtx, commit(d) PROVE UhsInv'
  BY Zenon, <1>2, <1>4, SpendCommit, StoreCommit DEF UhsInv
<1>5. ASSUME UNCHANGED <<sealed, decided>> PROVE NoDoubleSpend'
  BY Zenon, <1>1, <1>5 DEF NoDoubleSpend, Settles, Conflict
<1>6. ASSUME NEW d \in Dtx, NEW s \in Shard, LockStep(d, s) PROVE UhsInv'
  BY Zenon, <1>2, <1>5, <1>6, StoreLock DEF LockStep, UhsInv
<1>7. ASSUME NEW d \in Dtx, NEW s \in Shard, ApplyStep(d, s) PROVE UhsInv'
  BY Zenon, <1>2, <1>5, <1>7, StoreApply DEF ApplyStep, UhsInv
<1> QED
  BY Zenon, <1>1, <1>3, <1>4, <1>6, <1>7, Steps

\* No two transactions that share an input are ever recorded as complete, for
\* every number of shards, batches, transactions and coordinator failovers.
THEOREM NoInputSpentTwice ==
    ASSUME ConflictFree = TRUE, LateRequests = FALSE, SpendsSomething
    PROVE  Spec => []NoDoubleSpend
<1>1. UhsInv => NoDoubleSpend
  BY Zenon DEF UhsInv
<1>2. UhsInv /\ [Next]_vars => UhsInv'
  BY Zenon, UhsStep
<1> QED
  BY <1>1, <1>2, UhsInit, PTL DEF Spec

-----------------------------------------------------------------------------
\* The abstract set holds what some settled transaction created and none spent.
EverMade(id) ==
    \/ id \in Seed
    \/ \E d \in Dtx, i \in Idx :
          Settles(d, i) /\ id \in m_uhs_outputs[sealed[d][i]]

EverSpent(id) ==
    \E d \in Dtx, i \in Idx : Settles(d, i) /\ id \in m_inputs[sealed[d][i]]

\* The transactions that are decided complete and not yet applied on s.
LEMMA DecidedFacts ==
    ASSUME TwoPhaseInv, NEW s \in Shard, NEW t
    PROVE  t \in DecidedOn(s) <=>
             \E d \in Dtx, i \in Idx :
                 Settles(d, i) /\ Prepared(s, d) /\ i \in Part(d, s) /\ t = sealed[d][i]
<1>1. CoordTypeOK /\ PhaseInv /\ ShardInv
  BY Zenon DEF TwoPhaseInv, PhaseInv
<1>2. ASSUME NEW d \in Dtx, Prepared(s, d)
      PROVE  /\ m_prepared_dtxs[s][d].m_txs = PartOf(d, s)
             /\ DOMAIN PartOf(d, s) = Part(d, s) /\ Part(d, s) \subseteq Idx
             /\ \A i \in Part(d, s) : PartOf(d, s)[i] = sealed[d][i]
             /\ Part(d, s) \subseteq DOMAIN sealed[d]
  BY Zenon, <1>1, <1>2, PartFacts DEF ShardInv, ShardPhase
<1>3. ASSUME NEW d \in Dtx, Committed(d)
      PROVE  /\ m_commit_txs[d].m_complete_txs = decided[d]
             /\ DOMAIN decided[d] = DOMAIN sealed[d]
  BY Zenon, <1>1, <1>3 DEF PhaseInv, Recorded
<1>4. ASSUME NEW d \in Dtx, NEW i, Prepared(s, d), Settles(d, i) PROVE Committed(d)
  <2>1. decided[d] # <<>>
    BY Zenon, <1>1, <1>4, SettledFacts
  <2>2. m_prepare_txs[d] = <<>>
    BY Zenon, <1>1, <2>1 DEF PhaseInv, Recorded
  <2> QED
    BY Zenon, <1>1, <1>4, <2>2 DEF ShardInv, ShardPhase
<1>5. t \in DecidedOn(s) <=>
         \E d \in Dtx : /\ Prepared(s, d) /\ Committed(d)
                        /\ \E i \in DOMAIN m_prepared_dtxs[s][d].m_txs :
                             /\ m_commit_txs[d].m_complete_txs[i]
                             /\ t = m_prepared_dtxs[s][d].m_txs[i]
  BY DEF DecidedOn
<1>6. ASSUME NEW d \in Dtx, Prepared(s, d), Committed(d), NEW i \in Part(d, s)
      PROVE  m_commit_txs[d].m_complete_txs[i] <=> Settles(d, i)
  BY Zenon, <1>2, <1>3, <1>6 DEF Settles
<1> QED
  BY <1>2, <1>4, <1>5, <1>6

AbstractView ==
    \A id : /\ id \in abstractUhs <=> id \in UhsId /\ EverMade(id) /\ ~EverSpent(id)
            /\ id \in UhsId /\ EverSpent(id) => EverMade(id)

\* What the refinement mapping says of a state: what has settled and what is
\* unspent, read off the decisions and the shards.
LEMMA AbstractFacts ==
    ASSUME SpendsSomething, UhsInv
    PROVE  AbstractView
<1>1. /\ TwoPhaseInv /\ PhaseInv /\ ShardInv /\ ShardTypeOK /\ CoordTypeOK
      /\ StoreInv /\ NoDoubleSpend
  BY Zenon DEF UhsInv, TwoPhaseInv, PhaseInv
<1> SUFFICES ASSUME NEW id
             PROVE  /\ id \in abstractUhs <=> id \in UhsId /\ EverMade(id) /\ ~EverSpent(id)
                    /\ id \in UhsId /\ EverSpent(id) => EverMade(id)
  BY Zenon DEF AbstractView
<1> DEFINE View(s) == \/ /\ id \in m_uhs[s] \cup m_locked[s]
                         /\ ~ \E t \in DecidedOn(s) : id \in ShardInputs(s, t)
                      \/ \E t \in DecidedOn(s) : id \in ShardOutputs(s, t)
<1>2. id \in abstractUhs <=> \E s \in Shard : View(s)
  BY DEF abstractUhs
<1>3. ASSUME NEW s \in Shard, NEW t \in DecidedOn(s)
      PROVE  t \in Tx
  BY <1>1, DecidedFacts, SettledFacts
<1>4. ASSUME NEW s \in Shard, View(s) PROVE id \in UhsId /\ HomeShard[id] = s
  <2>1. CASE id \in m_uhs[s] \cup m_locked[s]
    BY Zenon, <1>1, <2>1 DEF ShardTypeOK, hash_in_shard_range
  <2>2. CASE \E t \in DecidedOn(s) : id \in ShardOutputs(s, t)
    BY Zenon, <1>3, <2>2, TransactionsAssumption DEF ShardOutputs, hash_in_shard_range
  <2> QED
    BY Zenon, <1>4, <2>1, <2>2
<1>5. ASSUME id \in UhsId
      PROVE  /\ View(HomeShard[id]) <=> EverMade(id) /\ ~EverSpent(id)
             /\ EverSpent(id) => EverMade(id)
  <2> DEFINE s == HomeShard[id]
             PendIn == \E d \in Dtx, i \in Idx :
                         Settles(d, i) /\ Prepared(s, d) /\ id \in m_inputs[sealed[d][i]]
             PendOut == \E d \in Dtx, i \in Idx :
                         Settles(d, i) /\ Prepared(s, d) /\ id \in m_uhs_outputs[sealed[d][i]]
  <2>1. s \in Shard
    BY Zenon, <1>5, LockingShardAssumption
  <2>2. ASSUME NEW d \in Dtx, NEW i \in Idx, Settles(d, i),
               id \in m_inputs[sealed[d][i]] \cup m_uhs_outputs[sealed[d][i]]
        PROVE  i \in Part(d, s)
    BY Zenon, <1>1, <1>5, <2>2, SettledFacts, HomeTakesPart
  <2>3. (\E t \in DecidedOn(s) : id \in ShardInputs(s, t)) <=> PendIn
    BY <1>1, <2>1, <2>2, DecidedFacts DEF ShardInputs, hash_in_shard_range
  <2>4. (\E t \in DecidedOn(s) : id \in ShardOutputs(s, t)) <=> PendOut
    BY <1>1, <2>1, <2>2, DecidedFacts DEF ShardOutputs, hash_in_shard_range
  <2>5. /\ EverMade(id) <=> Made(id) \/ PendOut
        /\ EverSpent(id) <=> Spent(id) \/ PendIn
    BY Zenon DEF EverMade, EverSpent, Made, Spent, MadeBy, SpentBy, AppliedFor
  <2>6. PendOut => ~Made(id)
    BY Zenon, <1>1, OutputsNew
  <2>7. PendIn => Stored(id)
    <3> SUFFICES ASSUME NEW d \in Dtx, NEW i \in Idx, Settles(d, i), Prepared(s, d),
                        id \in m_inputs[sealed[d][i]]
                 PROVE  id \in m_locked[s]
      BY Zenon DEF Stored, check_unspent
    <3>1. i \in Part(d, s) /\ i \in DOMAIN sealed[d]
      BY Zenon, <1>1, <2>2, SettledFacts
    <3>2. m_prepared_dtxs[s][d].m_results[i]
      BY Zenon, <1>1, <2>1, <3>1 DEF ShardInv, ShardPhase
    <3> QED
      BY Zenon, <1>1, <1>5, <3>1, <3>2, InputsLocked
  <2> HIDE DEF PendIn, PendOut
  <2>8. StoreOf(id)
    BY Zenon, <1>1, <1>5 DEF StoreInv
  <2>9. View(s) <=> (Stored(id) /\ ~PendIn) \/ PendOut
    BY Zenon, <2>3, <2>4 DEF Stored, check_unspent
  <2> QED
    BY Zenon, <2>5, <2>6, <2>7, <2>8, <2>9 DEF StoreOf
<1> HIDE DEF View
<1> QED
  BY Zenon, <1>2, <1>4, <1>5, LockingShardAssumption

\* A step that records no decision leaves the abstract set as it is.
LEMMA AbstractStutter ==
    ASSUME UhsInv, AbstractView, AbstractView', decided' = decided,
           \A d \in Dtx : decided[d] # <<>> => sealed'[d] = sealed[d]
    PROVE  abstractUhs' = abstractUhs
<1>1. ASSUME NEW d \in Dtx, NEW i
      PROVE  /\ Settles(d, i)' <=> Settles(d, i)
             /\ Settles(d, i) => sealed'[d] = sealed[d]
  BY Zenon, SettledFacts DEF Settles, UhsInv, TwoPhaseInv
<1>2. ASSUME NEW id
      PROVE  /\ EverMade(id)' <=> EverMade(id)
             /\ EverSpent(id)' <=> EverSpent(id)
  BY Zenon, <1>1 DEF EverMade, EverSpent
<1>3. \A id : id \in abstractUhs' <=> id \in abstractUhs
  BY Zenon, <1>2 DEF AbstractView
<1> QED
  BY Zenon, <1>3

\* When the RSM records a batch, its completed transactions settle at once.
LEMMA AbstractCommit ==
    ASSUME SpendsSomething, UhsInv, UhsInv', AbstractView, AbstractView',
           NEW d \in Dtx, commit(d)
    PROVE  Abstract!UHSNext \/ abstractUhs' = abstractUhs
<1>1. /\ TwoPhaseInv /\ PhaseInv /\ ShardInv /\ FlightInv /\ CoordTypeOK
      /\ NoDoubleSpend /\ StoreInv /\ PhaseInv' /\ NoDoubleSpend'
  BY Zenon DEF UhsInv, TwoPhaseInv, PhaseInv
<1>2. /\ sealed' = sealed /\ decided[d] = <<>> /\ Live(d)
      /\ \A e \in Dtx : e # d => decided'[e] = decided[e]
  BY Zenon, <1>1, PhaseCommit DEF commit, CoordTypeOK, Live
<1>3. DOMAIN decided'[d] = DOMAIN sealed[d] /\ sealed[d] \in Batch
  BY Zenon, <1>1, <1>2, PhaseCommit DEF PhaseInv, Executed, commit, CoordTypeOK
<1> DEFINE S == {sealed[d][i] : i \in {k \in DOMAIN sealed[d] : decided'[d][k]}}
           Ins == UNION {m_inputs[t] : t \in S}
           Outs == UNION {m_uhs_outputs[t] : t \in S}
<1>4. /\ S \subseteq Attested
      /\ \A t : t \in S <=> \E i \in Idx : Settles(d, i)' /\ t = sealed[d][i]
  BY Zenon, <1>3, BatchFacts DEF Settles
<1>5. ASSUME NEW e \in Dtx, NEW i
      PROVE  /\ e # d => (Settles(e, i)' <=> Settles(e, i))
             /\ e = d => ~Settles(e, i)
  BY <1>2 DEF Settles
<1> HIDE DEF S
<1>6. ASSUME NEW id
      PROVE  /\ EverMade(id)' <=> EverMade(id) \/ id \in Outs
             /\ EverSpent(id)' <=> EverSpent(id) \/ id \in Ins
  <2>1. id \in Outs <=> \E i \in Idx : Settles(d, i)' /\ id \in m_uhs_outputs[sealed[d][i]]
    BY <1>4
  <2>2. id \in Ins <=> \E i \in Idx : Settles(d, i)' /\ id \in m_inputs[sealed[d][i]]
    BY <1>4
  <2>3. EverMade(id)' => EverMade(id) \/ id \in Outs
    BY Zenon, <1>2, <1>5, <2>1 DEF EverMade
  <2>4. EverMade(id) \/ id \in Outs => EverMade(id)'
    BY Zenon, <1>2, <1>5, <2>1 DEF EverMade
  <2>5. EverSpent(id)' => EverSpent(id) \/ id \in Ins
    BY Zenon, <1>2, <1>5, <2>2 DEF EverSpent
  <2>6. EverSpent(id) \/ id \in Ins => EverSpent(id)'
    BY Zenon, <1>2, <1>5, <2>2 DEF EverSpent
  <2> QED
    BY Zenon, <2>3, <2>4, <2>5, <2>6
<1>7. ASSUME NEW t \in S, NEW u \in S, t # u PROVE ~Conflict(t, u)
  BY <1>1, <1>2, <1>4, <1>7 DEF NoDoubleSpend, Conflict
<1>8. ASSUME NEW id \in Ins PROVE id \in UhsId /\ EverMade(id) /\ ~EverSpent(id)
  <2>1. PICK i \in Idx : Settles(d, i)' /\ id \in m_inputs[sealed[d][i]]
    BY <1>4, <1>8
  <2>2. id \in UhsId /\ HomeShard[id] \in Shard /\ id \in m_locked[HomeShard[id]]
    BY Zenon, <1>1, <2>1, CommitLocked
  <2>3. Made(id)
    BY Zenon, <1>1, <2>2 DEF StoreInv, StoreOf, Stored, check_unspent
  <2>4. EverMade(id)
    BY Zenon, <2>3 DEF Made, MadeBy, AppliedFor, EverMade
  <2>5. ASSUME NEW e \in Dtx, NEW j \in Idx, Settles(e, j), id \in m_inputs[sealed[e][j]]
        PROVE  FALSE
    <3>1. e # d /\ Settles(e, j)'
      BY Zenon, <1>5, <2>5
    <3>2. ~Conflict(sealed[d][i], sealed[e][j])
      BY Zenon, <1>1, <1>2, <2>1, <3>1 DEF NoDoubleSpend, Conflict
    <3> QED
      BY Zenon, <2>1, <2>5, <3>2 DEF Conflict
  <2> QED
    BY Zenon, <2>2, <2>4, <2>5 DEF EverSpent
<1>9. ASSUME NEW id \in Outs PROVE id \in UhsId /\ ~EverMade(id)
  <2>1. PICK i \in Idx : Settles(d, i)' /\ id \in m_uhs_outputs[sealed[d][i]]
    BY <1>4, <1>9
  <2>2. sealed[d][i] \in Tx /\ sealed[d][i] \in Attested
    BY Zenon, <1>4, <2>1, TransactionsAssumption
  <2>3. id \in UhsId /\ id \notin Seed
    BY Zenon, <2>1, <2>2, OutputsAreFresh, TransactionsAssumption
  <2>4. ASSUME NEW e \in Dtx, NEW j \in Idx, Settles(e, j),
               id \in m_uhs_outputs[sealed[e][j]]
        PROVE  FALSE
    <3>1. e # d /\ Settles(e, j)'
      BY Zenon, <1>5, <2>4
    <3>2. sealed[e][j] = sealed[d][i]
      BY Zenon, <1>1, <2>1, <2>2, <2>4, SettledFacts, OutputsAreFresh
    <3>3. Conflict(sealed[d][i], sealed[e][j])
      BY Zenon, <2>2, <3>2 DEF Conflict, SpendsSomething
    <3> QED
      BY Zenon, <1>1, <1>2, <2>1, <3>1, <3>3 DEF NoDoubleSpend, Conflict
  <2> QED
    BY Zenon, <2>3, <2>4 DEF EverMade
<1>10. abstractUhs' = (abstractUhs \ Ins) \cup Outs
  <2> HIDE DEF Ins, Outs
  <2>1. ASSUME NEW id
        PROVE  id \in abstractUhs' <=> (id \in abstractUhs /\ id \notin Ins) \/ id \in Outs
    <3>1. CASE id \in Outs
      BY Zenon, <1>6, <1>8, <1>9, <3>1 DEF AbstractView
    <3>2. CASE id \notin Outs
      BY Zenon, <1>6, <3>2 DEF AbstractView
    <3> QED
      BY Zenon, <3>1, <3>2
  <2> QED
    BY Zenon, <2>1
<1>11. CASE S = {}
  BY Zenon, <1>10, <1>11
<1>12. CASE S # {}
  <2>1. Ins \subseteq abstractUhs
    BY Zenon, <1>8 DEF AbstractView
  <2>2. Abstract!Settle(S)
    BY Zenon, <1>7, <1>10, <2>1 DEF Abstract!Settle, Abstract!Conflict, Conflict
  <2> QED
    BY Zenon, <1>4, <1>12, <2>2 DEF Abstract!UHSNext
<1> QED
  BY Zenon, <1>11, <1>12

\* The coordinator and its shards implement the abstract UHS: the completed
\* transactions of a batch settle, all at once and only on unspent inputs, when
\* the RSM records the batch; no other step changes what the shards stand for.
THEOREM SettlesAtomically ==
    ASSUME ConflictFree = TRUE, LateRequests = FALSE, SpendsSomething
    PROVE  Spec => ImplementsUHS
<1>1. UhsInv /\ [Next]_vars => UhsInv'
  BY Zenon, UhsStep
<1>2. UhsInv => AbstractView
  BY Zenon, AbstractFacts
<1>3. Init => Abstract!UHSInit
  <2> SUFFICES ASSUME Init PROVE abstractUhs = Seed
    BY Zenon DEF Abstract!UHSInit
  <2>1. AbstractView
    BY Zenon, AbstractFacts, UhsInit
  <2>2. ASSUME NEW d \in Dtx, NEW i PROVE ~Settles(d, i)
    BY DEF Init, CoordInit, Settles
  <2> QED
    BY Zenon, <2>1, <2>2, TransactionsAssumption DEF AbstractView, EverMade, EverSpent
<1>4. UhsInv /\ UhsInv' /\ AbstractView /\ AbstractView' /\ [Next]_vars
        => [Abstract!UHSNext]_abstractUhs
  <2> SUFFICES ASSUME UhsInv, UhsInv', AbstractView, AbstractView', [Next]_vars
               PROVE  Abstract!UHSNext \/ abstractUhs' = abstractUhs
    BY Zenon
  <2>1. PhaseInv /\ lateRequests = {}
    BY Zenon DEF UhsInv, TwoPhaseInv, ShardInv
  <2>2. ASSUME NEW d \in Dtx, commit(d)
        PROVE  Abstract!UHSNext \/ abstractUhs' = abstractUhs
    BY Zenon, <2>2, AbstractCommit
  <2>3. CASE QuietStep
    BY Zenon, <2>3, AbstractStutter DEF QuietStep
  <2>4. CASE \E d \in Dtx, s \in Shard : LockStep(d, s) \/ ApplyStep(d, s)
    BY Zenon, <2>4, AbstractStutter DEF LockStep, ApplyStep
  <2> QED
    BY Zenon, <2>1, <2>2, <2>3, <2>4, Steps
<1> QED
  BY <1>1, <1>2, <1>3, <1>4, UhsInit, PTL DEF Spec, ImplementsUHS, Abstract!UHSSpec
=============================================================================

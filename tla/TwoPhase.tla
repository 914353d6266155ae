------------------------------ MODULE TwoPhase ------------------------------
(***************************************************************************)
(* The two-phase commit architecture: the coordinator cluster              *)
(* (src/src/uhs/twophase/coordinator) executing batches of transactions on *)
(* the locking shards.                                                     *)
(*                                                                         *)
(* The coordinator's replicated state machine (RSM) records the phase each *)
(* batch is in.  The raft leader builds the current batch, seals it under  *)
(* a fresh dtx ID and executes it: lock on every participating shard,      *)
(* apply, discard, with a command to the RSM before each phase.  When the  *)
(* leader fails or is deposed, the next one reads the RSM and executes     *)
(* every unfinished batch from its last recorded phase.                    *)
(*                                                                         *)
(* An unanswered RPC of the leader is repeated until it is answered, so it *)
(* needs no variable: it is a shard of the current phase that has not      *)
(* answered.  Requests of earlier leaders that are still on their way to a *)
(* shard are in lateRequests.                                              *)
(***************************************************************************)
EXTENDS LockingShard, Sequences

CONSTANTS
    MaxFailovers,   \* bound on the number of leader failures
    LateRequests    \* may a shard execute a request of a failed leader late?

ASSUME TwoPhaseAssumption ==
    /\ MaxFailovers \in Nat
    /\ LateRequests \in BOOLEAN

VARIABLES
    m_prepare_txs,  \* RSM: batches in the prepare phase (<<>>: not in it)
    m_commit_txs,   \* RSM: batches in the commit phase
    m_discard_txs,  \* RSM: batches in the discard phase
    m_fatal,        \* the coordinator called m_logger->fatal
    m_current_txs,  \* the batch the leader is building
    m_exec,         \* the distributed_tx objects the leader executes
    m_leader,       \* "none", "recovering" or "running"
    lateRequests,   \* requests of failed leaders not yet executed
    failovers,      \* leader failures so far
    sealed,         \* history: the transactions sealed under a dtx ID
    decided,        \* history: the flags the RSM recorded for a dtx
    finished        \* history: batches the RSM recorded as done

smVars == <<m_prepare_txs, m_commit_txs, m_discard_txs>>
leaderVars == <<m_current_txs, m_exec, m_leader, lateRequests, failovers>>
historyVars == <<sealed, decided, finished>>
coordVars == <<smVars, m_fatal, leaderVars, historyVars>>
vars == <<shardVars, coordVars>>

NoIdxs == [s \in Shard |-> {}]

\* A dtx that is not in the m_commit_txs map.
NotCommitted == [m_complete_txs |-> <<>>, m_tx_idxs |-> NoIdxs]

\* A distributed_tx object that enters a phase: no participant has answered.
DtxIn(state, txs, idxs, complete) ==
    [m_state |-> state, m_full_txs |-> txs, m_tx_idxs |-> idxs,
     m_complete_txs |-> complete, answered |-> {}]

\* A dtx that the leader is not executing.
NotExecuting == DtxIn("none", <<>>, NoIdxs, <<>>)

Committed(d) == m_commit_txs[d] # NotCommitted

CoordInit ==
    /\ m_prepare_txs = [d \in Dtx |-> <<>>]
    /\ m_commit_txs = [d \in Dtx |-> NotCommitted]
    /\ m_discard_txs = {}
    /\ m_fatal = FALSE
    /\ m_current_txs = <<>>
    /\ m_exec = [d \in Dtx |-> NotExecuting]
    /\ m_leader = "none"
    /\ lateRequests = {}
    /\ failovers = 0
    /\ sealed = [d \in Dtx |-> <<>>]
    /\ decided = [d \in Dtx |-> <<>>]
    /\ finished = {}

Init == ShardInit /\ CoordInit

-----------------------------------------------------------------------------
\* state_machine::commit, one operator per command.  A command for a dtx that
\* is not in the preceding phase is fatal: the coordinator stops.
sm_prepare(d, txs) ==
    /\ m_fatal' = (m_prepare_txs[d] # <<>>)
    /\ m_prepare_txs' = [m_prepare_txs EXCEPT ![d] = IF @ = <<>> THEN txs ELSE @]
    /\ UNCHANGED <<m_commit_txs, m_discard_txs>>

sm_commit(d, complete, idxs) ==
    /\ m_fatal' = (m_prepare_txs[d] = <<>>)
    /\ m_prepare_txs' = [m_prepare_txs EXCEPT ![d] = <<>>]
    /\ m_commit_txs' = [m_commit_txs EXCEPT ![d] =
           IF @ = NotCommitted
           THEN [m_complete_txs |-> complete, m_tx_idxs |-> idxs] ELSE @]
    /\ UNCHANGED m_discard_txs

sm_discard(d) ==
    /\ m_fatal' = ~Committed(d)
    /\ m_commit_txs' = [m_commit_txs EXCEPT ![d] = NotCommitted]
    /\ m_discard_txs' = m_discard_txs \cup {d}
    /\ UNCHANGED m_prepare_txs

sm_done(d) ==
    /\ m_fatal' = (d \notin m_discard_txs)
    /\ m_discard_txs' = m_discard_txs \ {d}
    /\ UNCHANGED <<m_prepare_txs, m_commit_txs>>

-----------------------------------------------------------------------------
InFlight(d) ==
    m_exec[d].m_state # "none" \/ m_prepare_txs[d] # <<>> \/ Committed(d)

\* The clients' discipline under ConflictFree: no transaction is submitted
\* while another one with one of its inputs is in flight.
ConflictsInFlight(t) ==
    \/ \E i \in DOMAIN m_current_txs : Conflict(t, m_current_txs[i])
    \/ \E d \in Dtx : InFlight(d) /\ \E i \in DOMAIN sealed[d] : Conflict(t, sealed[d][i])

\* A sentinel submits t; a full batch makes it wait, a duplicate in the
\* current batch is rejected.
execute_transaction(t) ==
    /\ ~m_fatal
    /\ m_leader = "running"
    /\ t \in Attested
    /\ Len(m_current_txs) < BatchSize
    /\ \A i \in DOMAIN m_current_txs : m_current_txs[i] # t
    /\ ConflictFree => ~ConflictsInFlight(t)
    /\ m_current_txs' = Append(m_current_txs, t)
    /\ UNCHANGED <<shardVars, smVars, m_fatal, m_exec, m_leader, lateRequests,
                   failovers, historyVars>>

\* add_tx: the indexes of the transactions each shard takes part in.
TxIdxs(txs) == [s \in Shard |-> {i \in DOMAIN txs : ActiveIn(s, txs[i])}]

\* distributed_tx::prepare starts from all-true flags.
AllTrue(txs) == [i \in DOMAIN txs |-> TRUE]

\* batch_executor_func swaps the current batch for a new one and hands it to
\* an executor thread.
SealBatch(d) ==
    /\ ~m_fatal
    /\ m_leader = "running"
    /\ m_current_txs # <<>>
    /\ sealed[d] = <<>>
    /\ m_exec' = [m_exec EXCEPT ![d] =
           DtxIn("start", m_current_txs, TxIdxs(m_current_txs), <<>>)]
    /\ sealed' = [sealed EXCEPT ![d] = m_current_txs]
    /\ m_current_txs' = <<>>
    /\ UNCHANGED <<shardVars, smVars, m_fatal, m_leader, lateRequests,
                   failovers, decided, finished>>

\* The shards an RPC of the current phase goes to.
Participants(d) == {s \in Shard : m_exec[d].m_tx_idxs[s] # {}}

Unanswered(d) == Participants(d) \ m_exec[d].answered

\* f.get() on the answer of every participant.
AllAnswered(d) == Unanswered(d) = {}

\* The executor enters a phase: its RPCs go out to all participants.
Enter(d, state, complete) ==
    m_exec' = [m_exec EXCEPT ![d] =
        DtxIn(state, m_exec[d].m_full_txs, m_exec[d].m_tx_idxs, complete)]

\* distributed_tx::prepare: prepare_cb, then a lock RPC to each participant.
prepare(d) ==
    /\ ~m_fatal
    /\ m_exec[d].m_state = "start"
    /\ sm_prepare(d, m_exec[d].m_full_txs)
    /\ Enter(d, "prepare", AllTrue(m_exec[d].m_full_txs))
    /\ UNCHANGED <<shardVars, m_current_txs, m_leader, lateRequests, failovers,
                   historyVars>>

\* distributed_tx::commit, once every participant has answered the lock RPC.
commit(d) ==
    LET complete == m_exec[d].m_complete_txs
    IN /\ ~m_fatal
       /\ m_exec[d].m_state = "prepare"
       /\ AllAnswered(d)
       /\ sm_commit(d, complete, m_exec[d].m_tx_idxs)
       /\ Enter(d, "commit", complete)
       /\ decided' = [decided EXCEPT ![d] = complete]
       /\ UNCHANGED <<shardVars, m_current_txs, m_leader, lateRequests,
                      failovers, sealed, finished>>

\* distributed_tx::discard, once every participant has answered the apply RPC.
discard(d) ==
    /\ ~m_fatal
    /\ m_exec[d].m_state = "commit"
    /\ AllAnswered(d)
    /\ sm_discard(d)
    /\ Enter(d, "discard", m_exec[d].m_complete_txs)
    /\ UNCHANGED <<shardVars, m_current_txs, m_leader, lateRequests, failovers,
                   historyVars>>

\* The end of discard: done_cb, then the sentinels get their answers and the
\* executor thread is free again.
done(d) ==
    /\ ~m_fatal
    /\ m_exec[d].m_state = "discard"
    /\ AllAnswered(d)
    /\ sm_done(d)
    /\ m_exec' = [m_exec EXCEPT ![d] = NotExecuting]
    /\ finished' = finished \cup {d}
    /\ UNCHANGED <<shardVars, m_current_txs, m_leader, lateRequests, failovers,
                   sealed, decided>>

-----------------------------------------------------------------------------
\* The data the current phase's RPC of d carries to shard s: the shard's
\* transactions, or their flags.
Payload(d, s) ==
    LET e == m_exec[d]
    IN IF e.m_state = "prepare"
       THEN [i \in e.m_tx_idxs[s] |-> e.m_full_txs[i]]
       ELSE [i \in e.m_tx_idxs[s] |-> e.m_complete_txs[i]]

\* The shard's state machine executes a request: process_request.
process_request(s, d, phase, data) ==
    \/ phase = "prepare" /\ lock_outputs(s, d, data)
    \/ phase = "commit" /\ apply_outputs(s, d, data)
    \/ phase = "discard" /\ discard_dtx(s, d)

\* A participant executes the RPC of the current phase, and the answer is
\* lost or the call has timed out: send_request repeats it.
AnswerLost(d, s) ==
    /\ ~m_fatal
    /\ s \in Unanswered(d)
    /\ process_request(s, d, m_exec[d].m_state, Payload(d, s))
    /\ UNCHANGED coordVars

\* prepare() clears the flag of every transaction a shard could not lock.
\* (Faulty: it does not.)
KeepFlags(d, results) == m_exec[d].m_complete_txs

MergeResults(d, results) ==
    [i \in DOMAIN m_exec[d].m_complete_txs |->
        m_exec[d].m_complete_txs[i] /\ (i \in DOMAIN results => results[i])]

\* A participant executes the RPC and its answer arrives.  A lock answer of
\* the wrong size is fatal to the coordinator; a shard that exits gives none.
AnswerReceived(d, s) ==
    LET results == m_prepared_dtxs'[s][d].m_results
        locking == m_exec[d].m_state = "prepare"
    IN /\ ~m_fatal
       /\ s \in Unanswered(d)
       /\ process_request(s, d, m_exec[d].m_state, Payload(d, s))
       /\ ~m_halted'[s]
       /\ m_exec' = [m_exec EXCEPT ![d] =
              [m_state |-> m_exec[d].m_state,
               m_full_txs |-> m_exec[d].m_full_txs,
               m_tx_idxs |-> m_exec[d].m_tx_idxs,
               m_complete_txs |-> IF locking THEN MergeResults(d, results)
                                  ELSE m_exec[d].m_complete_txs,
               answered |-> m_exec[d].answered \cup {s}]]
       /\ m_fatal' = (locking /\ DOMAIN results # m_exec[d].m_tx_idxs[s])
       /\ UNCHANGED <<smVars, m_current_txs, m_leader, lateRequests, failovers,
                      historyVars>>

-----------------------------------------------------------------------------
\* The RPCs of the current leader that a shard may still receive.
Outstanding ==
    UNION {{[phase |-> m_exec[d].m_state, dtx |-> d, shard |-> s,
             data |-> Payload(d, s)] : s \in Unanswered(d)} :
           d \in {e \in Dtx : m_exec[e].m_state \in {"prepare", "commit", "discard"}}}

\* The leader crashes, or is deposed and stopped: its batches, current batch
\* and callbacks are gone.
LeaderFails ==
    /\ ~m_fatal
    /\ m_leader # "none"
    /\ failovers < MaxFailovers
    /\ failovers' = failovers + 1
    /\ m_leader' = "none"
    /\ m_current_txs' = <<>>
    /\ m_exec' = [d \in Dtx |-> NotExecuting]
    /\ lateRequests' =
           IF LateRequests THEN lateRequests \cup Outstanding ELSE {}
    /\ UNCHANGED <<shardVars, smVars, m_fatal, historyVars>>

\* A request of a failed leader reaches its shard; nobody reads the answer.
LateRequest(r) ==
    /\ process_request(r.shard, r.dtx, r.phase, r.data)
    /\ lateRequests' = lateRequests \ {r}
    /\ UNCHANGED <<smVars, m_fatal, m_current_txs, m_exec, m_leader, failovers,
                   historyVars>>

\* recover_prepare, recover_commit and recover_discard.  The last one leaves
\* m_tx_idxs empty.  (Faulty: a recovered prepare starts from scratch; a
\* recovered commit forgets the recorded flags; batches in the commit phase
\* are not recovered.)
restart_prepare(d) ==
    DtxIn("start", m_prepare_txs[d], TxIdxs(m_prepare_txs[d]), <<>>)

recover_prepare(d) ==
    DtxIn("prepare", m_prepare_txs[d], TxIdxs(m_prepare_txs[d]),
          AllTrue(m_prepare_txs[d]))

commit_all(d) ==
    DtxIn("commit", <<>>, m_commit_txs[d].m_tx_idxs,
          AllTrue(m_commit_txs[d].m_complete_txs))

recover_commit(d) ==
    DtxIn("commit", <<>>, m_commit_txs[d].m_tx_idxs,
          m_commit_txs[d].m_complete_txs)

recover_discard(d) == DtxIn("discard", <<>>, NoIdxs, <<>>)

RecoveredWithoutCommits(d) ==
    CASE m_prepare_txs[d] # <<>> -> recover_prepare(d)
      [] d \in m_discard_txs -> recover_discard(d)
      [] OTHER -> NotExecuting

\* The distributed_tx object recovery_func creates for d, if any.
RecoveredDtx(d) ==
    CASE m_prepare_txs[d] # <<>> -> recover_prepare(d)
      [] Committed(d) -> recover_commit(d)
      [] d \in m_discard_txs -> recover_discard(d)
      [] OTHER -> NotExecuting

\* A node becomes leader: start() reads the RSM and recovery_func executes
\* every unfinished batch before new transactions are accepted.
recovery_func ==
    /\ ~m_fatal
    /\ m_leader = "none"
    /\ m_leader' = "recovering"
    /\ m_exec' = [d \in Dtx |-> RecoveredDtx(d)]
    /\ UNCHANGED <<shardVars, smVars, m_fatal, m_current_txs, lateRequests,
                   failovers, historyVars>>

\* join_execs has returned: start() starts the batch executor and the handler.
Recovered ==
    /\ ~m_fatal
    /\ m_leader = "recovering"
    /\ \A d \in Dtx : m_exec[d].m_state = "none"
    /\ m_leader' = "running"
    /\ UNCHANGED <<shardVars, smVars, m_fatal, m_current_txs, m_exec,
                   lateRequests, failovers, historyVars>>

-----------------------------------------------------------------------------
Execute(d) == prepare(d) \/ commit(d) \/ discard(d) \/ done(d)

Next ==
    \/ \E t \in Tx : execute_transaction(t)
    \/ \E d \in Dtx : SealBatch(d)
    \/ \E d \in Dtx : Execute(d)
    \/ \E d \in Dtx, s \in Shard : AnswerLost(d, s) \/ AnswerReceived(d, s)
    \/ \E r \in lateRequests : LateRequest(r)
    \/ LeaderFails
    \/ recovery_func
    \/ Recovered

Spec == Init /\ [][Next]_vars

(***************************************************************************)
(* Fairness: executor threads are scheduled, send_request repeats a call   *)
(* until it is answered and the network delivers some repetition, and a    *)
(* coordinator cluster without a leader elects one.  Nothing is assumed of *)
(* the clients.                                                            *)
(***************************************************************************)
Fairness ==
    /\ \A d \in Dtx : WF_vars(Execute(d))
    /\ \A d \in Dtx, s \in Shard : WF_vars(AnswerReceived(d, s))
    /\ WF_vars(recovery_func)
    /\ WF_vars(Recovered)

FairSpec == Spec /\ Fairness

-----------------------------------------------------------------------------
\* The type invariant of the coordinator and its shards.
TypeOK ==
    /\ ShardTypeOK
    /\ m_prepare_txs \in [Dtx -> Seq(Tx)]
    /\ m_commit_txs \in [Dtx -> [m_complete_txs : Flags,
                                 m_tx_idxs : [Shard -> SUBSET Idx]]]
    /\ m_discard_txs \subseteq Dtx
    /\ m_fatal \in BOOLEAN
    /\ m_current_txs \in Seq(Tx)
    /\ Len(m_current_txs) <= BatchSize
    /\ m_exec \in
         [Dtx -> [m_state : {"none", "start", "prepare", "commit", "discard"},
                  m_full_txs : Seq(Tx), m_tx_idxs : [Shard -> SUBSET Idx],
                  m_complete_txs : Flags, answered : SUBSET Shard]]
    /\ m_leader \in {"none", "recovering", "running"}
    /\ \A r \in lateRequests :
         r.phase \in {"prepare", "commit", "discard"} /\ r.dtx \in Dtx
           /\ r.shard \in Shard
    /\ failovers \in 0..MaxFailovers
    /\ sealed \in [Dtx -> Seq(Tx)]
    /\ decided \in [Dtx -> Flags]
    /\ finished \subseteq Dtx

\* No sequence of failovers and repeated RPCs makes the program call
\* m_logger->fatal: neither a shard on an apply for a batch it does not know,
\* nor the coordinator on a command for a batch in the wrong phase.
NoFatal == ~m_fatal /\ \A s \in Shard : ~m_halted[s]

\* Settles(d, i): the RSM recorded the i-th transaction of d as complete.
Settles(d, i) == i \in DOMAIN decided[d] /\ decided[d][i]

\* No double spend: the RSM never records two transactions that share an
\* input as complete, in one batch or in two.
NoDoubleSpend ==
    \A d, e \in Dtx, i, j \in Idx :
        Settles(d, i) /\ Settles(e, j) /\ (d # e \/ i # j)
            => ~Conflict(sealed[d][i], sealed[e][j])

\* A commit decision is backed by locks: from the moment the RSM records a
\* transaction as complete, each participating shard either still holds all
\* of its inputs locked for this batch or has executed the apply.
DecisionBacked ==
    \A d \in Dtx, i \in Idx, s \in Shard :
        Settles(d, i) /\ ActiveIn(s, sealed[d][i]) =>
            IF Prepared(s, d)
            THEN Holds(s, d, i) /\ HeldInputs(s, d, i) \subseteq m_locked[s]
            ELSE d \in m_applied_dtxs[s] \cup m_discard_txs \cup finished

\* All leaders apply one decision: every apply RPC a shard may still execute,
\* of the current leader or of a failed one, carries the flags the RSM
\* recorded for the batch.
OneDecision ==
    \A r \in lateRequests \cup Outstanding :
        r.phase = "commit" =>
            \A i \in DOMAIN r.data :
                i \in DOMAIN decided[r.dtx] /\ r.data[i] = decided[r.dtx][i]

\* Once the RSM records a batch as done, no shard has it prepared: none of
\* its inputs can stay locked for it.
DoneReleasesLocks ==
    \A d \in finished, s \in Shard : ~Prepared(s, d)

\* Once a batch is done the shards have forgotten it: the discard RPC has
\* removed it from m_applied_dtxs.
DoneIsForgotten ==
    \A d \in finished, s \in Shard : d \notin m_applied_dtxs[s]

\* The same as long as no leader fails: only the recovery of the discard phase
\* may leave a batch behind in m_applied_dtxs.
ForgottenWithoutFailover == failovers = 0 => DoneIsForgotten

\* The phases of a batch are sound, whoever leads: nothing fatal is met, a
\* decision is backed by locks, and a batch that is done holds none.
PhasesSound ==
    /\ TypeOK /\ NoFatal
    /\ DecisionBacked /\ DoneReleasesLocks /\ ForgottenWithoutFailover

\* A batch the RSM has recorded is finished eventually, whoever leads.
BatchesFinish ==
    \A d \in Dtx : m_prepare_txs[d] # <<>> ~> d \in finished

\* No input stays locked for ever.
LocksReleased ==
    \A s \in Shard, id \in UhsId : id \in m_locked[s] ~> id \notin m_locked[s]

\* Recorded batches end and give their inputs back (recovery_func, execute).
BatchesEnd == BatchesFinish /\ LocksReleased

-----------------------------------------------------------------------------
(***************************************************************************)
(* The two-phase commit system implements the abstract UHS.  A batch       *)
(* settles when the RSM records its flags; until a shard applies them, its *)
(* part of the set is read through the decision.                           *)
(***************************************************************************)
\* The transactions decided complete that shard s has not applied yet.
DecidedOn(s) ==
    UNION {{m_prepared_dtxs[s][d].m_txs[i] :
              i \in {k \in DOMAIN m_prepared_dtxs[s][d].m_txs :
                       m_commit_txs[d].m_complete_txs[k]}} :
           d \in {e \in Dtx : Prepared(s, e) /\ Committed(e)}}

abstractUhs ==
    UNION {((m_uhs[s] \cup m_locked[s])
               \ (UNION {ShardInputs(s, t) : t \in DecidedOn(s)}))
             \cup (UNION {ShardOutputs(s, t) : t \in DecidedOn(s)}) : s \in Shard}

Abstract == INSTANCE UHS WITH uhs <- abstractUhs

\* Every behaviour of coordinator and shards is one in which attested
\* transactions settle atomically and spend only what is unspent.
ImplementsUHS == Abstract!UHSSpec
=============================================================================

-------------------------- MODULE Components_proofs --------------------------
(***************************************************************************)
(* Proofs about components that stand on their own: the threads of a       *)
(* coordinator, the cache of a locking shard's transaction IDs, a sentinel *)
(* and the way of a block from the atomizer to the archiver.               *)
(***************************************************************************)
EXTENDS CoordinatorThreads, CacheSet, Sentinel, BlockFeed,
        FiniteSetTheorems, SequenceTheorems, TLAPS

-----------------------------------------------------------------------------
(***************************************************************************)
(* The coordinator's threads.  That start() meets no thread of an earlier  *)
(* term is inductive once it is said from which point of stop() on each    *)
(* thread is gone, and that it stays gone until start() launches it.       *)
(***************************************************************************)
Stopped ==
    /\ starter \in {"notify", "join_batch", "join_execs", "start", "recover",
                    "launch", "listen"} => handler = "none"
    /\ starter \in {"join_execs", "start", "recover", "launch"} => batcher = "none"
    /\ starter \in {"start", "recover", "launch"} => busy = {}

ThreadsInv == ThreadsTypeOK /\ Stopped

\* A notification leaves the waiters it does not wake (notify_one).
LEMMA NotifyOne ==
    ASSUME NEW W, NEW V \in notify_one(W)
    PROVE  V \subseteq W
BY Zenon DEF notify_one

\* The steps of raft and of the start/stop thread keep the invariant: each
\* call of stop() joins one kind of thread (stop, start).
LEMMA StarterKeeps ==
    ASSUME ThreadsInv, BecomeLeader \/ BecomeFollower \/ quit \/ StarterStep
    PROVE  ThreadsInv'
<1> USE CoordinatorThreadsAssumption
        DEF ThreadsInv, ThreadsTypeOK, Stopped, raftVars, starterVars, batchVars
<1>1. CASE BecomeLeader
  BY Zenon, <1>1 DEF BecomeLeader
<1>2. CASE BecomeFollower
  BY Zenon, <1>2 DEF BecomeFollower
<1>3. CASE quit
  BY Zenon, <1>3 DEF quit
<1>4. CASE LoopTest
  BY Zenon, <1>4 DEF LoopTest
<1>5. CASE TakeFlag
  BY Zenon, <1>5 DEF TakeFlag
<1>6. CASE StopRunning
  BY Zenon, <1>6 DEF StopRunning
<1>7. CASE CloseServer
  BY Zenon, <1>7 DEF CloseServer
<1>8. CASE JoinHandler
  BY Zenon, <1>8 DEF JoinHandler
<1>9. CASE NotifyBatch
  BY Zenon, <1>9, NotifyOne DEF NotifyBatch
<1>10. CASE JoinBatch
  BY Zenon, <1>10 DEF JoinBatch
<1>11. CASE join_execs
  BY Zenon, <1>11 DEF join_execs, AfterStop
<1>12. CASE StartRunning
  BY Zenon, <1>12 DEF StartRunning
<1>13. CASE RecoveryEnds
  BY Zenon, <1>13 DEF RecoveryEnds
<1>14. CASE LaunchBatcher
  BY <1>14 DEF LaunchBatcher
<1>15. CASE LaunchServer
  BY Zenon, <1>15 DEF LaunchServer
<1> QED BY Zenon, <1>1, <1>2, <1>3, <1>4, <1>5, <1>6, <1>7, <1>8, <1>9, <1>10, <1>11,
           <1>12, <1>13, <1>14, <1>15 DEF StarterStep

\* The steps of the handler, the batch executor and the executor threads keep
\* the invariant: a thread that was joined takes none.
LEMMA WorkersKeep ==
    ASSUME ThreadsInv,
           \/ ReceiveTx \/ HandlerStep \/ BatcherStep
           \/ \E x \in ExecThread : ExecDone(x)
           \/ \E w \in {"handler", "batcher"} : SpuriousWakeup(w)
    PROVE  ThreadsInv'
<1> USE CoordinatorThreadsAssumption
        DEF ThreadsInv, ThreadsTypeOK, Stopped, raftVars, starterVars,
            HasSpace, HandlerAwake, BatcherAwake
<1>1. CASE ReceiveTx
  BY Zenon, <1>1 DEF ReceiveTx
<1>2. CASE HandlerExits
  BY Zenon, <1>2 DEF HandlerExits
<1>3. CASE AddTx
  BY <1>3 DEF AddTx
<1>4. CASE NotifyBatcher
  BY Zenon, <1>4, NotifyOne DEF NotifyBatcher
<1>5. CASE AddRefused
  BY Zenon, <1>5 DEF AddRefused
<1>6. CASE WaitForSpace
  BY Zenon, <1>6 DEF WaitForSpace
<1>7. CASE WaitForTxs
  BY Zenon, <1>7 DEF WaitForTxs
<1>8. CASE BatcherExits
  BY Zenon, <1>8 DEF BatcherExits
<1>9. CASE FoundTxs
  BY Zenon, <1>9 DEF FoundTxs
<1>10. CASE SwapBatch
  BY <1>10 DEF SwapBatch
<1>11. CASE NotifyHandler
  BY Zenon, <1>11, NotifyOne DEF NotifyHandler
<1>12. CASE schedule_exec
  BY Zenon, <1>12 DEF schedule_exec
<1>13. CASE \E x \in ExecThread : ExecDone(x)
  BY <1>13 DEF ExecDone
<1>14. CASE \E w \in {"handler", "batcher"} : SpuriousWakeup(w)
  BY <1>14 DEF SpuriousWakeup
<1> QED BY Zenon, <1>1, <1>2, <1>3, <1>4, <1>5, <1>6, <1>7, <1>8, <1>9, <1>10, <1>11,
           <1>12, <1>13, <1>14 DEF HandlerStep, BatcherStep

(***************************************************************************)
(* Whatever leader changes, quit and requests come while it is starting or *)
(* stopping, start() never meets a thread of an earlier term: assigning to *)
(* the joinable m_batch_exec_thread would terminate the process.           *)
(***************************************************************************)
THEOREM StartMeetsNoThreads == ThreadsSpec => []ThreadsSound
<1>1. ThreadsInit => ThreadsInv
  <2> SUFFICES ASSUME ThreadsInit PROVE ThreadsInv
    BY Zenon
  <2>1. {m_running, m_start_flag, m_stop_flag, m_quit, is_leader, closing}
            \subseteq BOOLEAN
    BY Zenon DEF ThreadsInit
  <2>2. m_current_txs \in 0..m_batch_size /\ Stopped
    BY CoordinatorThreadsAssumption DEF ThreadsInit, Stopped
  <2> QED BY <2>1, <2>2, Zenon DEF ThreadsInit, ThreadsInv, ThreadsTypeOK
<1>2. ThreadsInv /\ [ThreadsNext]_threadsVars => ThreadsInv'
  <2> SUFFICES ASSUME ThreadsInv, [ThreadsNext]_threadsVars PROVE ThreadsInv'
    BY Zenon
  <2>1. CASE UNCHANGED threadsVars
    BY Zenon, <2>1 DEF threadsVars, raftVars, starterVars, batchVars, ThreadsInv,
                ThreadsTypeOK, Stopped
  <2>2. CASE ThreadsNext
    BY Zenon, <2>2, StarterKeeps, WorkersKeep DEF ThreadsNext
  <2> QED BY Zenon, <2>1, <2>2
<1>3. ThreadsInv => ThreadsSound
  BY Zenon DEF ThreadsInv, Stopped, ThreadsSound, StartFindsNoThreads
<1> QED BY <1>1, <1>2, <1>3, PTL DEF ThreadsSpec

-----------------------------------------------------------------------------
(***************************************************************************)
(* The cache of transaction IDs.  The inductive invariant says which part  *)
(* of the history the queue is: its last Len(m_eviction_queue) entries,    *)
(* all of them until the queue is full.                                    *)
(***************************************************************************)
QueueIsSuffix ==
    /\ m_eviction_queue \in Seq(Value) /\ added \in Seq(Value)
    /\ Len(m_eviction_queue) <= m_max_size - 1
    /\ Len(m_eviction_queue) <= Len(added)
    /\ Len(m_eviction_queue) \in {m_max_size - 1, Len(added)}
    /\ \A i \in 1..Len(m_eviction_queue) :
            m_eviction_queue[i] = added[Len(added) - Len(m_eviction_queue) + i]

CacheInv ==
    /\ QueueIsSuffix
    /\ m_vals = ToSet(m_eviction_queue)
    /\ IsInjective(m_eviction_queue)

\* A new value at the back of a queue without repetitions.
LEMMA PushFacts ==
    ASSUME NEW q \in Seq(Value), NEW v \in Value, IsInjective(q), v \notin ToSet(q)
    PROVE  /\ Append(q, v) \in Seq(Value)
           /\ Len(Append(q, v)) = Len(q) + 1
           /\ \A i \in 1..Len(q) : Append(q, v)[i] = q[i]
           /\ Append(q, v)[Len(q) + 1] = v
           /\ IsInjective(Append(q, v))
           /\ ToSet(Append(q, v)) = ToSet(q) \cup {v}
<1> DEFINE p == Append(q, v)
<1>1. /\ p \in Seq(Value) /\ Len(p) = Len(q) + 1 /\ p[Len(q) + 1] = v
      /\ \A i \in 1..Len(q) : p[i] = q[i]
      /\ DOMAIN p = 1..(Len(q) + 1) /\ DOMAIN q = 1..Len(q) /\ Len(q) \in Nat
  OBVIOUS
<1> HIDE DEF p
<1>2. ToSet(p) = ToSet(q) \cup {v}
  BY <1>1 DEF ToSet
<1>3. IsInjective(p)
  <2> SUFFICES ASSUME NEW i \in DOMAIN p, NEW j \in DOMAIN p, p[i] = p[j]
               PROVE  i = j
    BY Zenon DEF IsInjective
  <2>1. \A k \in 1..Len(q) : p[k] # v
    BY Zenon, <1>1 DEF ToSet
  <2>2. i \in 1..Len(q) \/ i = Len(q) + 1
    BY <1>1
  <2>3. j \in 1..Len(q) \/ j = Len(q) + 1
    BY <1>1
  <2> QED BY Zenon, <1>1, <2>1, <2>2, <2>3 DEF IsInjective
<1> QED BY Zenon, <1>1, <1>2, <1>3 DEF p

\* The front of a queue without repetitions leaves it, and nothing else does.
LEMMA PopFacts ==
    ASSUME NEW p \in Seq(Value), Len(p) >= 1, IsInjective(p)
    PROVE  /\ Tail(p) \in Seq(Value)
           /\ Len(Tail(p)) = Len(p) - 1
           /\ \A i \in 1..(Len(p) - 1) : Tail(p)[i] = p[i + 1]
           /\ IsInjective(Tail(p))
           /\ ToSet(Tail(p)) = ToSet(p) \ {Head(p)}
<1> DEFINE q == Tail(p)
<1>1. /\ q \in Seq(Value) /\ Len(q) = Len(p) - 1 /\ Len(p) \in Nat
      /\ \A i \in 1..(Len(p) - 1) : q[i] = p[i + 1]
      /\ DOMAIN p = 1..Len(p) /\ DOMAIN q = 1..(Len(p) - 1)
      /\ Head(p) = p[1]
  OBVIOUS
<1> HIDE DEF q
<1>2. IsInjective(q)
  <2> SUFFICES ASSUME NEW i \in DOMAIN q, NEW j \in DOMAIN q, q[i] = q[j]
               PROVE  i = j
    BY Zenon DEF IsInjective
  <2>1. i \in Nat /\ j \in Nat /\ i + 1 \in DOMAIN p /\ j + 1 \in DOMAIN p
    BY <1>1
  <2>2. i + 1 = j + 1
    BY Zenon, <1>1, <2>1 DEF IsInjective
  <2> QED BY <2>1, <2>2
<1>3. ToSet(q) \subseteq ToSet(p) \ {Head(p)}
  <2> SUFFICES ASSUME NEW i \in DOMAIN q PROVE q[i] \in ToSet(p) /\ q[i] # p[1]
    BY Zenon, <1>1 DEF ToSet
  <2>1. i \in Nat /\ i + 1 \in DOMAIN p /\ 1 \in DOMAIN p /\ i + 1 # 1
    BY <1>1
  <2>2. q[i] = p[i + 1]
    BY Zenon, <1>1
  <2> QED BY Zenon, <2>1, <2>2 DEF ToSet, IsInjective
<1>4. ToSet(p) \ {Head(p)} \subseteq ToSet(q)
  <2> SUFFICES ASSUME NEW i \in DOMAIN p, p[i] # p[1] PROVE p[i] \in ToSet(q)
    BY Zenon, <1>1 DEF ToSet
  <2>1. i - 1 \in DOMAIN q /\ (i - 1) + 1 = i
    BY <1>1
  <2>2. q[i - 1] = p[i]
    BY Zenon, <1>1, <2>1
  <2> QED BY Zenon, <2>1, <2>2 DEF ToSet
<1> QED BY Zenon, <1>1, <1>2, <1>3, <1>4 DEF q

\* add, with or without an eviction, keeps the invariant.
LEMMA AddKeeps ==
    ASSUME CacheInv, NEW v \in Value, add(v)
    PROVE  CacheInv'
<1> USE CacheSetAssumption
<1> DEFINE q == m_eviction_queue
           p == Append(q, v)
<1>1. /\ q \in Seq(Value) /\ IsInjective(q) /\ v \notin ToSet(q)
      /\ Len(q) \in Nat /\ Len(added) \in Nat
  BY DEF CacheInv, QueueIsSuffix, add, contains
<1>2. /\ p \in Seq(Value) /\ Len(p) = Len(q) + 1
      /\ \A i \in 1..Len(q) : p[i] = q[i]
      /\ p[Len(q) + 1] = v /\ IsInjective(p) /\ ToSet(p) = ToSet(q) \cup {v}
  BY Zenon, <1>1, PushFacts
<1>3. /\ added' \in Seq(Value) /\ Len(added') = Len(added) + 1
      /\ added'[Len(added) + 1] = v
      /\ \A i \in 1..Len(added) : added'[i] = added[i]
  BY <1>1 DEF add, CacheInv, QueueIsSuffix
<1>4. \A i \in 1..Len(p) : p[i] = added'[Len(added') - Len(p) + i]
  <2> SUFFICES ASSUME NEW i \in 1..Len(p)
               PROVE  p[i] = added'[Len(added') - Len(p) + i]
    BY Zenon
  <2> HIDE DEF p
  <2>1. CASE i = Len(q) + 1
    <3>1. Len(added') - Len(p) + i = Len(added) + 1
      BY <1>1, <1>2, <1>3, <2>1
    <3>2. p[i] = v /\ added'[Len(added) + 1] = v
      BY Zenon, <1>2, <1>3, <2>1
    <3> QED BY Zenon, <3>1, <3>2
  <2>2. CASE i # Len(q) + 1
    <3>1. i \in 1..Len(q)
      BY <1>1, <1>2, <2>2
    <3>2. q[i] = added[Len(added) - Len(q) + i]
      BY Zenon, <3>1 DEF CacheInv, QueueIsSuffix
    <3>3. /\ Len(added') - Len(p) + i = Len(added) - Len(q) + i
          /\ Len(added) - Len(q) + i \in 1..Len(added)
      BY <1>1, <1>2, <1>3, <3>1 DEF CacheInv, QueueIsSuffix
    <3> QED BY Zenon, <1>2, <1>3, <3>1, <3>2, <3>3
  <2> QED BY Zenon, <2>1, <2>2
<1>5. m_vals = ToSet(q)
  BY Zenon DEF CacheInv
<1>6. CASE Len(p) >= m_max_size
  <2>1. m_eviction_queue' = Tail(p) /\ m_vals' = (m_vals \cup {v}) \ {Head(p)}
    BY Zenon, <1>6 DEF add
  <2> HIDE DEF p
  <2>2. /\ Tail(p) \in Seq(Value) /\ Len(Tail(p)) = Len(p) - 1
        /\ \A i \in 1..(Len(p) - 1) : Tail(p)[i] = p[i + 1]
        /\ IsInjective(Tail(p)) /\ ToSet(Tail(p)) = ToSet(p) \ {Head(p)}
    BY <1>1, <1>2, PopFacts
  <2>3. Len(q) = m_max_size - 1 /\ Len(q) <= Len(added)
    BY <1>1, <1>2, <1>6 DEF CacheInv, QueueIsSuffix
  <2>4. ASSUME NEW i \in 1..Len(Tail(p))
        PROVE  Tail(p)[i] = added'[Len(added') - Len(Tail(p)) + i]
    <3>1. i + 1 \in 1..Len(p) /\ i \in 1..(Len(p) - 1)
      BY <1>1, <1>2, <2>2
    <3>2. Len(added') \in Nat /\ Len(p) \in Nat /\ Len(Tail(p)) = Len(p) - 1
      BY <1>1, <1>2, <1>3, <2>2
    <3>3. ASSUME NEW x \in Nat, NEW y \in Nat PROVE x - y + (i + 1) = x - (y - 1) + i
      OBVIOUS
    <3>4. Len(added') - Len(p) + (i + 1) = Len(added') - Len(Tail(p)) + i
      BY Zenon, <3>2, <3>3
    <3> QED BY Zenon, <1>4, <2>2, <3>1, <3>4
  <2>5. QueueIsSuffix'
    BY <1>1, <1>2, <1>3, <2>1, <2>2, <2>3, <2>4 DEF QueueIsSuffix
  <2> QED BY Zenon, <1>2, <1>5, <2>1, <2>2, <2>5 DEF CacheInv
<1>7. CASE ~(Len(p) >= m_max_size)
  <2>1. m_eviction_queue' = p /\ m_vals' = m_vals \cup {v}
    BY Zenon, <1>7 DEF add
  <2>2. Len(q) = Len(added) /\ Len(p) <= m_max_size - 1
    BY <1>1, <1>2, <1>7 DEF CacheInv, QueueIsSuffix
  <2> HIDE DEF p
  <2>3. QueueIsSuffix'
    BY <1>1, <1>2, <1>3, <1>4, <2>1, <2>2 DEF QueueIsSuffix
  <2> QED BY Zenon, <1>2, <1>5, <2>1, <2>3 DEF CacheInv
<1> QED BY Zenon, <1>6, <1>7

(***************************************************************************)
(* check_tx_id knows the transaction IDs added last, however long the      *)
(* shard runs: eviction is in order of insertion, a repeated add neither   *)
(* moves nor duplicates, and the ID just added is there.                   *)
(***************************************************************************)
THEOREM CacheEvictsOldest == CacheSpec => []EvictsOldest
<1>1. CacheInit => CacheInv
  <2> SUFFICES ASSUME CacheInit PROVE CacheInv
    BY Zenon
  <2>1. QueueIsSuffix
    BY CacheSetAssumption DEF CacheInit, QueueIsSuffix
  <2> QED BY <2>1 DEF CacheInit, CacheInv, ToSet, IsInjective
<1>2. CacheInv /\ [CacheNext]_cacheVars => CacheInv'
  <2> SUFFICES ASSUME CacheInv, [CacheNext]_cacheVars PROVE CacheInv'
    BY Zenon
  <2>1. CASE UNCHANGED cacheVars
    BY Zenon, <2>1 DEF cacheVars, CacheInv, QueueIsSuffix, ToSet, IsInjective
  <2>2. CASE CacheNext
    BY Zenon, <2>1, <2>2, AddKeeps DEF CacheNext, AddPresent
  <2> QED BY Zenon, <2>1, <2>2
<1>3. CacheInv => EvictsOldest
  <2> SUFFICES ASSUME CacheInv PROVE EvictsOldest
    BY Zenon
  <2> USE CacheSetAssumption
  <2> DEFINE q == m_eviction_queue
             L == Len(added)
             n == Len(q)
             newest == {k \in DOMAIN added : k > L - n}
  <2>1. /\ q \in Seq(Value) /\ DOMAIN added = 1..L /\ DOMAIN q = 1..n
        /\ \A i \in 1..n : q[i] = added[L - n + i]
    BY DEF CacheInv, QueueIsSuffix
  <2>2. /\ L \in Nat /\ n \in Nat /\ n <= L /\ n <= m_max_size
        /\ m_max_size > 1 /\ added # <<>> => L >= 1 /\ n >= 1
    BY DEF CacheInv, QueueIsSuffix
  <2>3. NewestValues(n) = {added[i] : i \in newest}
    BY Zenon DEF NewestValues
  <2> HIDE DEF L, n
  <2>4. ASSUME NEW i \in newest PROVE added[i] \in ToSet(q)
    <3>1. i \in 1..L /\ i > L - n
      BY Zenon, <2>1
    <3>2. i - (L - n) \in 1..n /\ L - n + (i - (L - n)) = i
      BY <2>2, <3>1
    <3>3. q[i - (L - n)] = added[i]
      BY Zenon, <2>1, <3>2
    <3> QED BY Zenon, <2>1, <3>2, <3>3 DEF ToSet
  <2>5. ASSUME NEW i \in DOMAIN q PROVE q[i] \in {added[k] : k \in newest}
    <3>1. i \in 1..n
      BY Zenon, <2>1
    <3>2. L - n + i \in 1..L /\ L - n + i > L - n
      BY <2>2, <3>1
    <3>3. L - n + i \in newest
      BY Zenon, <2>1, <3>2
    <3> QED BY Zenon, <2>1, <3>1, <3>3
  <2>6. ASSUME m_max_size > 1, added # <<>> PROVE added[L] \in ToSet(q)
    <3>1. L \in 1..L /\ L > L - n
      BY <2>2, <2>6
    <3> QED BY Zenon, <2>1, <2>4, <3>1
  <2> HIDE DEF newest
  <2>7. ToSet(q) = NewestValues(n)
    BY Zenon, <2>3, <2>4, <2>5 DEF ToSet
  <2> QED BY Zenon, <2>2, <2>6, <2>7 DEF EvictsOldest, CacheInv, L, n
<1> QED BY <1>1, <1>2, <1>3, PTL DEF CacheSpec

-----------------------------------------------------------------------------
(***************************************************************************)
(* The sentinel.  The inductive invariant keeps, for every place           *)
(* execute_transaction can be at, what has been validated, collected and   *)
(* answered when it gets there.                                            *)
(***************************************************************************)
Collected ==
    /\ IsFiniteSet(m_attestations)
    /\ \A att \in m_attestations : att.pubkey \in Others \cup {Self} /\ att.verifies
    /\ s_state = "waiting" => \E x \in Others : asked = {x}
    /\ s_state \in {"gather", "waiting", "send", "sent"} => statically_valid
    /\ s_state \in {"send", "sent"} \/ recipients # {} =>
            statically_valid /\ Cardinality(m_attestations) >= m_attestation_threshold
    /\ recipients # {} => s_state = "done"

Answered ==
    /\ s_state = "new" => answers = <<>>
    /\ s_state = "sent" => architecture = "2pc"
    /\ architecture = "2pc" /\ s_state # "done" => answers = <<>>
    /\ s_state = "done" /\ architecture = "2pc" => Len(answers) = 1
    /\ Len(answers) \in {0, 1}

SentinelInv == SentinelTypeOK /\ Collected /\ Answered

\* Attestations stay a finite set of valid ones of known sentinels when that
\* of one of them is added.
LEMMA AttestationAdded ==
    ASSUME IsFiniteSet(m_attestations), NEW x \in Others \cup {Self},
           \A att \in m_attestations : att.pubkey \in Others \cup {Self} /\ att.verifies
    PROVE  LET new == m_attestations \cup {Attestation(x)}
           IN  /\ IsFiniteSet(new)
               /\ \A att \in new : att.pubkey \in Others \cup {Self} /\ att.verifies
<1>1. IsFiniteSet(m_attestations \cup {Attestation(x)})
  BY Zenon, FS_AddElement
<1>2. Attestation(x).pubkey \in Others \cup {Self} /\ Attestation(x).verifies
  BY Zenon DEF Attestation
<1> QED BY Zenon, <1>1, <1>2

\* Where gather_attestations goes on from depends on the number collected.
LEMMA GatherFacts ==
    ASSUME NEW S, IsFiniteSet(S), m_attestation_threshold \in Thresholds
    PROVE  /\ Gather(S) \in {"gather", "send"}
           /\ Gather(S) = "send" => Cardinality(S) >= m_attestation_threshold
<1>1. Cardinality(S) \in Nat /\ m_attestation_threshold \in Nat
  BY Zenon, FS_CardinalityType, SentinelAssumption
<1> QED BY <1>1 DEF Gather

\* The transaction is validated and the sentinel's own attestation is made
\* (execute_transaction).
LEMMA ExecuteKeeps ==
    ASSUME SentinelInv, execute_transaction
    PROVE  SentinelInv'
<1>1. /\ UNCHANGED <<architecture, m_attestation_threshold, requested, asked,
                     online, disconnects, recipients>>
      /\ s_state = "new" /\ asked = {} /\ recipients = {}
  BY Zenon DEF execute_transaction, Collected, settings, SentinelInv, SentinelTypeOK
<1>2. /\ statically_valid' = statically_valid
      /\ statically_valid' \in BOOLEAN /\ coordinator_online' \in BOOLEAN
      /\ answer_lost' = FALSE
  BY Zenon DEF execute_transaction, settings, SentinelInv, SentinelTypeOK
<1>3. m_attestations' = {Attestation(Self)} \/ m_attestations' = {}
  BY Zenon DEF execute_transaction
<1>4. /\ IsFiniteSet(m_attestations')
      /\ \A att \in m_attestations' : att.pubkey \in Others \cup {Self} /\ att.verifies
  <2>1. CASE m_attestations' = {}
    BY Zenon, <2>1, FS_EmptySet
  <2>2. CASE m_attestations' = {Attestation(Self)}
    <3>1. Attestation(Self).pubkey = Self /\ Attestation(Self).verifies
      BY Zenon DEF Attestation
    <3> QED BY Zenon, <2>2, <3>1, FS_Singleton
  <2> QED BY Zenon, <1>3, <2>1, <2>2
<1>5. /\ Gather(m_attestations') \in {"gather", "send"}
      /\ Gather(m_attestations') = "send" =>
            Cardinality(m_attestations') >= m_attestation_threshold
  BY Zenon, <1>4, GatherFacts DEF SentinelInv, SentinelTypeOK
<1>6. /\ s_state' \in {"gather", "send", "done"}
      /\ s_state' = "send" => Cardinality(m_attestations') >= m_attestation_threshold
      /\ s_state' = "done" <=> ~statically_valid
  BY Zenon, <1>5 DEF execute_transaction
<1>7. Collected'
  BY Zenon, <1>1, <1>2, <1>4, <1>6 DEF Collected
<1>8. /\ Len(answers') = 1 \/ answers' = <<>>
      /\ statically_valid /\ architecture = "2pc" => answers' = <<>>
      /\ ~statically_valid => Len(answers') = 1
  BY Zenon DEF execute_transaction, SentinelInv, SentinelTypeOK
<1>9. Answered' /\ Len(answers') <= 1
  <2>1. Len(answers') = 0 \/ Len(answers') = 1
    BY <1>8
  <2>2. architecture = "2pc" =>
            IF s_state' = "done" THEN Len(answers') = 1 ELSE answers' = <<>>
    BY Zenon, <1>6, <1>8
  <2>3. s_state' # "new" /\ s_state' # "sent" /\ UNCHANGED architecture
    BY Zenon, <1>1, <1>6
  <2> QED BY <2>1, <2>2, <2>3 DEF Answered
<1>10. SentinelTypeOK'
  <2>1. {att.pubkey : att \in m_attestations'} \subseteq Others \cup {Self}
    BY Zenon, <1>4
  <2> QED BY Zenon, <1>1, <1>2, <1>6, <1>9, <2>1 DEF SentinelInv, SentinelTypeOK
<1> QED BY Zenon, <1>7, <1>9, <1>10 DEF SentinelInv

\* Another sentinel's attestation is added to those collected
\* (gather_attestations).
LEMMA AttestationKeeps ==
    ASSUME SentinelInv, attestation_received
    PROVE  SentinelInv'
<1>1. /\ UNCHANGED <<architecture, m_attestation_threshold, online, disconnects,
                     recipients, answers>>
      /\ s_state = "waiting" /\ recipients = {}
      /\ asked' = {} /\ requested' = requested \cup asked
  BY Zenon DEF attestation_received, Collected, settings, SentinelInv, SentinelTypeOK
<1>2. /\ statically_valid' = statically_valid
      /\ statically_valid' \in BOOLEAN /\ coordinator_online' \in BOOLEAN
      /\ answer_lost' = FALSE
  BY Zenon DEF attestation_received, settings, SentinelInv, SentinelTypeOK
<1>3. PICK x \in Others : asked = {x}
  BY Zenon, <1>1 DEF SentinelInv, Collected
<1>4. m_attestations' = m_attestations \cup {Attestation(x)}
  BY Zenon, <1>3 DEF attestation_received
<1>5. /\ IsFiniteSet(m_attestations')
      /\ \A att \in m_attestations' : att.pubkey \in Others \cup {Self} /\ att.verifies
  BY Zenon, <1>4, AttestationAdded DEF SentinelInv, Collected
<1>6. /\ s_state' \in {"gather", "send"}
      /\ s_state' = "send" => Cardinality(m_attestations') >= m_attestation_threshold
  <2>1. s_state' = Gather(m_attestations')
    BY Zenon DEF attestation_received
  <2> QED BY Zenon, <1>5, <2>1, GatherFacts DEF SentinelInv, SentinelTypeOK
<1>7. statically_valid
  BY Zenon, <1>1 DEF SentinelInv, Collected
<1>8. Collected'
  BY Zenon, <1>1, <1>2, <1>5, <1>6, <1>7 DEF Collected
<1>9. Answered'
  BY Zenon, <1>1, <1>6 DEF SentinelInv, Answered
<1>10. SentinelTypeOK'
  <2>1. {att.pubkey : att \in m_attestations'} \subseteq Others \cup {Self}
    BY Zenon, <1>5
  <2> QED BY Zenon, <1>1, <1>2, <1>3, <1>6, <2>1 DEF SentinelInv, SentinelTypeOK
<1> QED BY Zenon, <1>8, <1>9, <1>10 DEF SentinelInv

\* A client gets at most one answer (Answered).
LEMMA AnswersBounded ==
    ASSUME Answered'
    PROVE  Len(answers') <= 1
<1> DEFINE n == Len(answers')
<1>1. n \in {0, 1}
  BY Zenon DEF Answered
<1> HIDE DEF n
<1>2. n <= 1
  BY <1>1
<1> QED BY Zenon, <1>2 DEF n

\* The other steps of a sentinel change neither what it collected nor what it
\* knows of the transaction.
LEMMA OtherStepsKeep ==
    ASSUME SentinelInv,
           UNCHANGED <<architecture, m_attestation_threshold, m_attestations>>,
           statically_valid' = statically_valid,
           coordinator_online' \in BOOLEAN, answer_lost' \in BOOLEAN,
           answer_lost' => s_state' \in {"waiting", "sent"},
           requested' = requested, online' \subseteq Others,
           disconnects' \in 0..MaxDisconnects,
           s_state' \in {"new", "gather", "waiting", "send", "sent", "done"},
           asked' \subseteq Others, asked' # {} <=> s_state' = "waiting",
           s_state' = "waiting" => \E x \in Others : asked' = {x},
           s_state' \in {"gather", "waiting", "send", "sent"} => statically_valid,
           s_state' \in {"send", "sent"} \/ recipients' # {} =>
                s_state \in {"send", "sent"} \/ recipients # {},
           recipients' # {} => s_state' = "done",
           recipients' \subseteq DOMAIN m_shard_data,
           Answered'
    PROVE  SentinelInv'
<1>1. statically_valid' \in BOOLEAN
  BY Zenon DEF SentinelInv, SentinelTypeOK
<1>2. SentinelTypeOK'
  <2>1. Len(answers') <= 1
    BY Zenon, AnswersBounded
  <2> QED BY Zenon, <1>1, <2>1 DEF SentinelInv, SentinelTypeOK
<1>3. Collected'
  BY Zenon DEF SentinelInv, Collected
<1> QED BY Zenon, <1>2, <1>3 DEF SentinelInv

\* A transaction is sent to one of the connected shards, if to any
\* (send_compact_tx).
LEMMA RecipientsExist ==
    ASSUME NEW up \in SUBSET DOMAIN m_shard_data, NEW offset,
           NEW to \in Recipients(up, offset)
    PROVE  to \subseteq DOMAIN m_shard_data
BY Zenon DEF Recipients

(***************************************************************************)
(* A sentinel forwards a transaction only with attestations the receiver's *)
(* check_attestations accepts, for every threshold and number of other     *)
(* sentinels, and the client of the two-phase sentinel is answered once    *)
(* and at the end, whatever calls fail and whichever connections are lost. *)
(***************************************************************************)
THEOREM SentinelIsSound == SentinelSpec => []SentinelSound
<1>1. SentinelInit => SentinelInv
  <2> SUFFICES ASSUME SentinelInit PROVE SentinelInv
    BY Zenon
  <2>1. statically_valid \in BOOLEAN /\ coordinator_online \in BOOLEAN
    BY Zenon DEF SentinelInit
  <2>2. Collected
    BY Zenon, FS_EmptySet DEF SentinelInit, Collected
  <2>3. Answered /\ Len(answers) <= 1
    BY DEF SentinelInit, Answered
  <2>4. answer_lost \in BOOLEAN /\ ~answer_lost
    BY Zenon DEF SentinelInit
  <2>5. SentinelTypeOK
    <3>1. disconnects \in 0..MaxDisconnects
      BY SentinelAssumption DEF SentinelInit
    <3>2. /\ s_state = "new" /\ "new" # "waiting"
          /\ m_attestations = {} /\ requested = {} /\ asked = {} /\ recipients = {}
      BY DEF SentinelInit
    <3>3. architecture \in {"atomizer", "2pc"}
      BY Zenon DEF SentinelInit
    <3> QED BY Zenon, <2>1, <2>3, <2>4, <3>1, <3>2, <3>3 DEF SentinelInit, SentinelTypeOK
  <2> QED BY Zenon, <2>2, <2>3, <2>5 DEF SentinelInv
<1>2. SentinelInv /\ [SentinelNext]_sentinelVars => SentinelInv'
  <2> SUFFICES ASSUME SentinelInv, [SentinelNext]_sentinelVars PROVE SentinelInv'
    BY Zenon
  <2>1. CASE execute_transaction
    BY Zenon, <2>1, ExecuteKeeps
  <2>2. CASE attestation_received
    BY Zenon, <2>2, AttestationKeeps
  <2>3. CASE \E x \in Others : validate_transaction_at(x)
    <3>1. Answered'
      BY Zenon, <2>3 DEF validate_transaction_at, settings, SentinelInv, Answered
    <3>2. /\ coordinator_online' \in BOOLEAN /\ answer_lost' \in BOOLEAN
          /\ statically_valid' = statically_valid
          /\ answer_lost' => s_state' \in {"waiting", "sent"}
      BY <2>3, Zenon DEF validate_transaction_at, settings, SentinelInv, SentinelTypeOK
    <3> QED BY Zenon, <2>3, <3>1, <3>2, OtherStepsKeep
            DEF validate_transaction_at, settings, SentinelInv, SentinelTypeOK, Collected
  <2>4. CASE no_attestation_received
    <3>1. Answered'
      BY <2>4 DEF no_attestation_received, settings, SentinelInv, Answered
    <3>2. /\ coordinator_online' \in BOOLEAN /\ answer_lost' \in BOOLEAN
          /\ statically_valid' = statically_valid
          /\ answer_lost' => s_state' \in {"waiting", "sent"}
      BY <2>4, Zenon DEF no_attestation_received, settings, SentinelInv, SentinelTypeOK
    <3> QED BY Zenon, <2>4, <3>1, <3>2, OtherStepsKeep
            DEF no_attestation_received, settings, SentinelInv, SentinelTypeOK, Collected
  <2>5. CASE send_to_shards
    <3>1. Answered'
      BY Zenon, <2>5 DEF send_to_shards, settings, SentinelInv, Answered
    <3>2. /\ coordinator_online' \in BOOLEAN /\ answer_lost' \in BOOLEAN
          /\ statically_valid' = statically_valid
          /\ answer_lost' => s_state' \in {"waiting", "sent"}
      BY <2>5, Zenon DEF send_to_shards, settings, SentinelInv, SentinelTypeOK
    <3>3. recipients' \subseteq DOMAIN m_shard_data
      BY Zenon, <2>5, RecipientsExist DEF send_to_shards
    <3> QED BY Zenon, <2>5, <3>1, <3>2, <3>3, OtherStepsKeep
            DEF send_to_shards, settings, SentinelInv, SentinelTypeOK, Collected
  <2>6. CASE send_to_coordinator
    <3>1. Answered'
      BY Zenon, <2>6 DEF send_to_coordinator, settings, SentinelInv, Answered
    <3>2. /\ coordinator_online' \in BOOLEAN /\ answer_lost' \in BOOLEAN
          /\ statically_valid' = statically_valid
          /\ answer_lost' => s_state' \in {"waiting", "sent"}
      BY <2>6, Zenon DEF send_to_coordinator, settings, SentinelInv, SentinelTypeOK
    <3> QED BY Zenon, <2>6, <3>1, <3>2, OtherStepsKeep
            DEF send_to_coordinator, settings, SentinelInv, SentinelTypeOK, Collected
  <2>7. CASE result_handler
    <3>1. Answered'
      BY <2>7 DEF result_handler, settings, SentinelInv, Answered
    <3>2. /\ coordinator_online' \in BOOLEAN /\ answer_lost' \in BOOLEAN
          /\ statically_valid' = statically_valid
          /\ answer_lost' => s_state' \in {"waiting", "sent"}
      BY <2>7, Zenon DEF result_handler, settings, SentinelInv, SentinelTypeOK
    <3> QED BY Zenon, <2>7, <3>1, <3>2, OtherStepsKeep
            DEF result_handler, settings, SentinelInv, SentinelTypeOK, Collected
  <2>8. CASE Reconnect
    <3>1. Answered'
      BY Zenon, <2>8 DEF Reconnect, settings, SentinelInv, Answered
    <3>2. /\ coordinator_online' \in BOOLEAN /\ answer_lost' \in BOOLEAN
          /\ statically_valid' = statically_valid
          /\ answer_lost' => s_state' \in {"waiting", "sent"}
      BY <2>8, Zenon DEF Reconnect, settings, SentinelInv, SentinelTypeOK
    <3> QED BY Zenon, <2>8, <3>1, <3>2, OtherStepsKeep
            DEF Reconnect, settings, SentinelInv, SentinelTypeOK, Collected
  <2>9. CASE Disconnect
    <3>1. Answered'
      BY Zenon, <2>9 DEF Disconnect, settings, SentinelInv, Answered
    <3>2. /\ coordinator_online' \in BOOLEAN /\ answer_lost' \in BOOLEAN
          /\ statically_valid' = statically_valid
          /\ answer_lost' => s_state' \in {"waiting", "sent"}
      BY <2>9, Zenon DEF Disconnect, settings, SentinelInv, SentinelTypeOK
    <3>3. disconnects' \in 0..MaxDisconnects
      BY <2>9, SentinelAssumption DEF Disconnect, SentinelInv, SentinelTypeOK
    <3> QED BY Zenon, <2>9, <3>1, <3>2, <3>3, OtherStepsKeep
            DEF Disconnect, settings, SentinelInv, SentinelTypeOK, Collected
  <2>10. CASE UNCHANGED sentinelVars
    <3>1. Answered'
      BY Zenon, <2>10 DEF sentinelVars, SentinelInv, Answered
    <3>2. /\ coordinator_online' \in BOOLEAN /\ answer_lost' \in BOOLEAN
          /\ statically_valid' = statically_valid
          /\ answer_lost' => s_state' \in {"waiting", "sent"}
      BY <2>10, Zenon DEF sentinelVars, SentinelInv, SentinelTypeOK
    <3> QED BY Zenon, <2>10, <3>1, <3>2, OtherStepsKeep
            DEF sentinelVars, SentinelInv, SentinelTypeOK, Collected
  <2> QED BY Zenon, <2>1, <2>2, <2>3, <2>4, <2>5, <2>6, <2>7, <2>8, <2>9, <2>10
          DEF SentinelNext, SentinelStep
<1>3. SentinelInv => SentinelSound
  <2> SUFFICES ASSUME SentinelInv PROVE SentinelSound
    BY Zenon
  <2>1. ForwardedIsAttested
    BY Zenon DEF SentinelInv, Collected, ForwardedIsAttested, check_attestations
  <2>2. AnsweredAtTheEnd
    BY Zenon DEF SentinelInv, SentinelTypeOK, Answered, AnsweredAtTheEnd
  <2> QED BY Zenon, <2>1, <2>2 DEF SentinelSound, SentinelInv
<1> QED BY <1>1, <1>2, <1>3, PTL DEF SentinelSpec

-----------------------------------------------------------------------------
(***************************************************************************)
(* The blocks on their way to the archiver.  The inductive invariant adds  *)
(* that a prune request on its way names a block the archiver has stored,  *)
(* so that it only prunes stored blocks.                                   *)
(***************************************************************************)
FeedTyped ==
    /\ made \in Nat
    /\ m_best_height \in Nat
    /\ m_blocks \subseteq Nat
    /\ toArchiver \subseteq Nat
    /\ m_deferred \subseteq Nat
    /\ prune_requests \subseteq Nat

\* A prune request only prunes blocks that are stored.
PruneIsStored == \A h \in prune_requests : h <= m_best_height

FeedInv == FeedTyped /\ BlocksKept /\ ArchiveHasNoGaps /\ PruneIsStored

\* Nothing is made, stored or pruned before the start (FeedInit).
LEMMA FeedInitHolds == FeedInit => FeedInv
  BY DEF FeedInit, FeedInv, FeedTyped, BlocksKept, ArchiveHasNoGaps, PruneIsStored

\* A step that touches neither the chain nor the archive keeps the invariant:
\* shards and the watchtower, and a get_block request that is lost.
LEMMA FeedQuiet ==
    ASSUME FeedInv, UNCHANGED <<made, m_blocks, archiverVars, prune_requests>>
    PROVE  FeedInv'
  BY Zenon DEF FeedInv, FeedTyped, BlocksKept, ArchiveHasNoGaps, PruneIsStored,
         archiverVars

\* What digest_block stores is an interval from the best height, and so the
\* archive stays one; the prune requests it sends are for blocks it stored.
LEMMA ArchiverStep ==
    ASSUME FeedInv, NEW h \in Height, archiver_digest_block(h)
    PROVE  FeedInv'
<1> USE BlockFeedAssumption DEF Height
<1>0. UNCHANGED <<made, m_blocks>> /\ toArchiver' \subseteq Nat
  BY Zenon DEF archiver_digest_block, FeedInv, FeedTyped
<1>1. CASE UNCHANGED <<m_db, m_best_height, m_deferred, requestVars>>
  BY Zenon, <1>0, <1>1 DEF requestVars, FeedInv, FeedTyped, BlocksKept,
     ArchiveHasNoGaps, PruneIsStored
<1>2. CASE /\ h > m_best_height + 1
           /\ m_deferred' = m_deferred \cup {h}
           /\ UNCHANGED <<m_db, m_best_height, prune_requests>>
  BY <1>0, <1>2 DEF FeedInv, FeedTyped, BlocksKept, ArchiveHasNoGaps,
     PruneIsStored
<1>3. ASSUME h = m_best_height + 1, NEW n \in Height, RecursesTo(h, n),
             m_db' = m_db \cup ({h} \cup (m_deferred \cap h..n)),
             m_best_height' = n,
             prune_requests' = request_prune({h} \cup (m_deferred \cap h..n)),
             m_deferred' = m_deferred \ ({h} \cup (m_deferred \cap h..n))
      PROVE  FeedInv'
  <2>1. {h} \cup (m_deferred \cap h..n) = h..n
    BY <1>3 DEF RecursesTo, FeedInv, FeedTyped
  <2>2. m_db' = 1..n /\ m_deferred' \cap m_db' = {}
    BY <1>3, <2>1 DEF RecursesTo, FeedInv, FeedTyped, ArchiveHasNoGaps
  <2>3. \A g \in prune_requests' : g \in Nat /\ g <= n
    BY <1>3, <2>1 DEF RecursesTo, request_prune, FeedInv, FeedTyped, PruneIsStored
  <2>4. BlocksKept'
    BY Zenon, <1>0, <1>3 DEF FeedInv, BlocksKept
  <2>5. FeedTyped'
    BY <1>0, <1>3, <2>3 DEF FeedInv, FeedTyped
  <2>6. ArchiveHasNoGaps' /\ PruneIsStored'
    BY Zenon, <1>3, <2>2, <2>3 DEF ArchiveHasNoGaps, PruneIsStored
  <2> QED BY Zenon, <2>4, <2>5, <2>6
         DEF FeedInv
<1> QED BY Zenon, <1>1, <1>2, <1>3 DEF archiver_digest_block

\* Every step of the system keeps the invariant.
LEMMA FeedStep == FeedInv /\ [FeedNext]_feedVars => FeedInv'
<1> SUFFICES ASSUME FeedInv, [FeedNext]_feedVars PROVE FeedInv'
  BY Zenon
<1> USE DEF FeedInv, FeedTyped, BlocksKept, ArchiveHasNoGaps, PruneIsStored
<1>1. ASSUME NEW toA \in BOOLEAN, NEW toC \in BOOLEAN, make_block(toA, toC)
      PROVE  FeedInv'
  BY <1>1 DEF make_block, requestVars
<1>2. ASSUME NEW h \in Height, get_block(h) PROVE FeedInv'
  BY Zenon, <1>2, BlockFeedAssumption DEF get_block, Height
<1>3. ASSUME NEW h \in Height, prune(h) PROVE FeedInv'
  <2>1. h \in prune_requests /\ h \in Nat /\ h <= m_best_height
    BY Zenon, <1>3 DEF prune
  <2>2. UNCHANGED <<made, m_db, m_best_height, m_deferred, toArchiver>>
    BY Zenon, <1>3 DEF prune, archiverVars
  <2>3. m_blocks' = {g \in m_blocks : g >= h} /\ prune_requests' \subseteq prune_requests
    BY Zenon, <1>3 DEF prune
  <2>4. \A g \in 1..made : g \in m_blocks' \cup m_db
    BY <2>1, <2>3
  <2> QED BY Zenon, <2>2, <2>3, <2>4
<1>4. ASSUME NEW h \in Height, LoseRequest(h) PROVE FeedInv'
  BY Zenon, <1>4, FeedQuiet DEF LoseRequest
<1>5. CASE RestartArchiver
  BY Zenon, <1>5 DEF RestartArchiver, requestVars
<1>6. CASE RestartClient
  BY Zenon, <1>6, FeedQuiet DEF RestartClient, requestVars
<1>7. ASSUME NEW h \in Height, ReceiveBlock(h) PROVE FeedInv'
  BY Zenon, <1>7, FeedQuiet DEF ReceiveBlock, requestVars
<1>8. CASE shard_atomizer_handler
  BY Zenon, <1>8, FeedQuiet DEF shard_atomizer_handler, Digest, requestVars
<1>9. CASE watchtower_atomizer_handler
  BY Zenon, <1>9, FeedQuiet DEF watchtower_atomizer_handler, Digest, requestVars
<1>10. CASE UNCHANGED feedVars
  BY Zenon, <1>10, FeedQuiet DEF feedVars, requestVars
<1> QED BY Zenon, <1>1, <1>2, <1>3, <1>4, <1>5, <1>6, <1>7, <1>8, <1>9, <1>10,
           ArchiverStep DEF FeedNext, FeedProgress

(***************************************************************************)
(* A block stays in the atomizer's state machine until the archiver has    *)
(* stored it, and the archiver's best height says exactly which blocks it  *)
(* can serve.                                                              *)
(***************************************************************************)
THEOREM ArchiveSafe == FeedSpec => []FeedSafe
<1>1. FeedInv => FeedSafe
  BY Zenon DEF FeedInv, FeedSafe
<1> QED BY <1>1, FeedInitHolds, FeedStep, PTL DEF FeedSpec
=============================================================================

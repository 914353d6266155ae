------------------------- MODULE CoordinatorThreads -------------------------
(***************************************************************************)
(* The threads of one coordinator node                                     *)
(* (src/src/uhs/twophase/coordinator/controller.cpp): the RPC server's     *)
(* handler, which adds transactions to the current batch; the batch        *)
(* executor, which swaps the batch out and gives it to an executor thread; *)
(* and the start/stop thread, which starts and joins the others when raft  *)
(* reports a change of leadership.  Handler and batch executor wait on one *)
(* condition variable, m_batch_cv, for opposite conditions.                *)
(*                                                                         *)
(* What a batch does is in module TwoPhase: here it keeps an executor      *)
(* thread busy until the shards have answered.                             *)
(***************************************************************************)
EXTENDS Naturals, FiniteSets

CONSTANTS
    m_batch_size,   \* transactions a batch can hold
    ExecThread,     \* m_exec_threads
    MaxElections,   \* bound on changes of leadership
    MaxArrivals,    \* bound on transactions sent by sentinels
    MayQuit         \* may quit() be called?

ASSUME CoordinatorThreadsAssumption ==
    /\ m_batch_size \in Nat \ {0}
    /\ ExecThread # {} /\ IsFiniteSet(ExecThread)
    /\ MaxElections \in Nat
    /\ MaxArrivals \in Nat
    /\ MayQuit \in BOOLEAN

VARIABLES
    m_running,
    m_start_flag, m_stop_flag, m_quit,
    is_leader,      \* m_raft_serv->is_leader()
    starter,        \* where the start/stop thread is
    goal,           \* what it does after stop(): "start", "stop" or "quit"
    handler,        \* where the RPC handler thread is
    closing,        \* the RPC server's network is closed
    batcher,        \* where the batch executor thread is
    m_current_txs,  \* the number of transactions in the current batch
    waiters,        \* threads blocked on m_batch_cv and not yet notified
    busy,           \* executor threads running a batch
    elections, arrivals     \* counters for the bounds

raftVars == <<m_start_flag, m_stop_flag, m_quit, is_leader, elections>>
starterVars == <<m_running, starter, goal, closing>>
batchVars == <<handler, batcher, m_current_txs, waiters, busy, arrivals>>
threadsVars == <<raftVars, starterVars, batchVars>>

ThreadsInit ==
    /\ m_running = FALSE
    /\ m_start_flag = FALSE /\ m_stop_flag = FALSE /\ m_quit = FALSE
    /\ is_leader = FALSE
    /\ starter = "loop" /\ goal = "stop"
    /\ handler = "none" /\ closing = FALSE
    /\ batcher = "none"
    /\ m_current_txs = 0
    /\ waiters = {}
    /\ busy = {}
    /\ elections = 0 /\ arrivals = 0

\* m_batch_cv.notify_one wakes some waiter, if there is one.
notify_one(W) == IF W = {} THEN {W} ELSE {W \ {w} : w \in W}

-----------------------------------------------------------------------------
\* raft_callback: the flags tell the start/stop thread what to do next.
\* (Faulty: the opposite flag is not cleared; the stop flag is not set.)
BecomeLeaderKeepsStopFlag ==
    /\ ~is_leader /\ elections < MaxElections
    /\ is_leader' = TRUE /\ m_start_flag' = TRUE
    /\ elections' = elections + 1
    /\ UNCHANGED <<m_stop_flag, m_quit, starterVars, batchVars>>

BecomeLeader ==
    /\ ~is_leader /\ elections < MaxElections
    /\ is_leader' = TRUE /\ m_start_flag' = TRUE /\ m_stop_flag' = FALSE
    /\ elections' = elections + 1
    /\ UNCHANGED <<m_quit, starterVars, batchVars>>

BecomeFollower ==
    /\ is_leader /\ elections < MaxElections
    /\ is_leader' = FALSE /\ m_start_flag' = FALSE /\ m_stop_flag' = TRUE
    /\ elections' = elections + 1
    /\ UNCHANGED <<m_quit, starterVars, batchVars>>

quit ==
    /\ MayQuit /\ ~m_quit
    /\ m_quit' = TRUE
    /\ UNCHANGED <<m_start_flag, m_stop_flag, is_leader, elections,
                   starterVars, batchVars>>

-----------------------------------------------------------------------------
\* start_stop_func: the loop's test of m_quit, then the wait for a flag.
LoopTest ==
    /\ starter = "loop"
    /\ starter' = IF m_quit THEN "exited" ELSE "wait"
    /\ UNCHANGED <<m_running, goal, closing, raftVars, batchVars>>

TakeFlag ==
    /\ starter = "wait"
    /\ m_start_flag \/ m_stop_flag \/ m_quit
    /\ starter' = "stop"
    /\ goal' = IF m_quit THEN "quit" ELSE IF m_stop_flag THEN "stop" ELSE "start"
    /\ m_start_flag' = (m_quit /\ m_start_flag)
    /\ m_stop_flag' = (m_quit /\ m_stop_flag)
    /\ UNCHANGED <<m_running, closing, m_quit, is_leader, elections, batchVars>>

\* stop(), one step per call that another thread can observe or block.
StopRunning ==
    /\ starter = "stop"
    /\ m_running' = FALSE
    /\ starter' = "close"
    /\ UNCHANGED <<goal, closing, raftVars, batchVars>>

\* m_rpc_server.reset(): ~tcp_server closes the network ...
CloseServer ==
    /\ starter = "close"
    /\ closing' = (handler # "none")
    /\ starter' = "join_handler"
    /\ UNCHANGED <<m_running, goal, raftVars, batchVars>>

\* ... and joins the handler thread.
JoinHandler ==
    /\ starter = "join_handler"
    /\ handler \in {"none", "exited"}
    /\ handler' = "none"
    /\ closing' = FALSE
    /\ starter' = "notify"
    /\ UNCHANGED <<m_running, goal, raftVars, batcher, m_current_txs, waiters,
                   busy, arrivals>>

NotifyBatch ==
    /\ starter = "notify"
    /\ waiters' \in notify_one(waiters)
    /\ starter' = "join_batch"
    /\ UNCHANGED <<m_running, goal, closing, raftVars, handler, batcher,
                   m_current_txs, busy, arrivals>>

\* The shard clients are stopped, then the batch executor is joined.
JoinBatch ==
    /\ starter = "join_batch"
    /\ batcher \in {"none", "exited"}
    /\ batcher' = "none"
    /\ starter' = "join_execs"
    /\ UNCHANGED <<m_running, goal, closing, raftVars, handler, m_current_txs,
                   waiters, busy, arrivals>>

\* join_execs, the end of stop().  (Faulty: the threads are not joined.)
AfterStop ==
    CASE goal = "start" -> "start"
      [] goal = "stop" -> "loop"
      [] goal = "quit" -> "exited"

leave_execs ==
    /\ starter = "join_execs"
    /\ starter' = AfterStop
    /\ UNCHANGED <<m_running, goal, closing, raftVars, batchVars>>

join_execs ==
    /\ starter = "join_execs"
    /\ busy = {}
    /\ starter' = AfterStop
    /\ UNCHANGED <<m_running, goal, closing, raftVars, batchVars>>

\* start(): m_running is set, then the unfinished batches are recovered.
StartRunning ==
    /\ starter = "start"
    /\ m_running' = TRUE
    /\ starter' = "recover"
    /\ UNCHANGED <<goal, closing, raftVars, batchVars>>

\* Recovery ends when it succeeded or the node is no longer leader.
RecoveryEnds ==
    /\ starter = "recover"
    /\ starter' = IF is_leader THEN "launch" ELSE "loop"
    /\ UNCHANGED <<m_running, goal, closing, raftVars, batchVars>>

\* A fresh batch, then the batch executor thread.
LaunchBatcher ==
    /\ starter = "launch"
    /\ m_current_txs' = 0
    /\ batcher' = "check"
    /\ starter' = "listen"
    /\ UNCHANGED <<m_running, goal, closing, raftVars, handler, waiters, busy,
                   arrivals>>

LaunchServer ==
    /\ starter = "listen"
    /\ handler' = "idle"
    /\ starter' = "loop"
    /\ UNCHANGED <<m_running, goal, closing, raftVars, batcher, m_current_txs,
                   waiters, busy, arrivals>>

-----------------------------------------------------------------------------
\* The handler thread takes the next packet.  It goes on with the packets it
\* has already received when the network is closed.  A node that is not leader
\* and a transaction without enough attestations end the call at once.
ReceiveTx ==
    /\ handler = "idle"
    /\ arrivals < MaxArrivals
    /\ arrivals' = arrivals + 1
    /\ handler' \in IF is_leader THEN {"adding", "idle"} ELSE {"idle"}
    /\ UNCHANGED <<starterVars, raftVars, batcher, m_current_txs, waiters, busy>>

HandlerExits ==
    /\ handler = "idle" /\ closing
    /\ handler' = "exited"
    /\ UNCHANGED <<starterVars, raftVars, batcher, m_current_txs, waiters, busy,
                   arrivals>>

\* execute_transaction under m_batch_mut: the handler reaches the wait, or
\* wakes up from it, and evaluates the condition.
HasSpace == m_current_txs < m_batch_size

HandlerAwake == handler \in {"adding", "blocked"} /\ "handler" \notin waiters

AddTx ==
    /\ HandlerAwake
    /\ m_running /\ HasSpace
    /\ m_current_txs' = m_current_txs + 1
    /\ handler' = "notify"
    /\ UNCHANGED <<starterVars, raftVars, batcher, waiters, busy, arrivals>>

\* The notification comes after m_batch_mut is released.
NotifyBatcher ==
    /\ handler = "notify"
    /\ waiters' \in notify_one(waiters)
    /\ handler' = "idle"
    /\ UNCHANGED <<starterVars, raftVars, batcher, m_current_txs, busy, arrivals>>

\* The node stops, or the transaction is already in the current batch.
AddRefused ==
    /\ HandlerAwake
    /\ ~m_running \/ (HasSpace /\ m_current_txs > 0)
    /\ handler' = "idle"
    /\ UNCHANGED <<starterVars, raftVars, batcher, m_current_txs, waiters, busy,
                   arrivals>>

WaitForSpace ==
    /\ HandlerAwake
    /\ m_running /\ ~HasSpace
    /\ handler' = "blocked"
    /\ waiters' = waiters \cup {"handler"}
    /\ UNCHANGED <<starterVars, raftVars, batcher, m_current_txs, busy, arrivals>>

-----------------------------------------------------------------------------
\* batch_executor_func: the loop's test, the wait and the test after it.
BatcherAwake == batcher \in {"check", "blocked"} /\ "batcher" \notin waiters

WaitForTxs ==
    /\ BatcherAwake
    /\ m_running /\ m_current_txs = 0
    /\ batcher' = "blocked"
    /\ waiters' = waiters \cup {"batcher"}
    /\ UNCHANGED <<starterVars, raftVars, handler, m_current_txs, busy, arrivals>>

BatcherExits ==
    /\ BatcherAwake
    /\ ~m_running
    /\ batcher' = "exited"
    /\ UNCHANGED <<starterVars, raftVars, handler, m_current_txs, waiters, busy,
                   arrivals>>

FoundTxs ==
    /\ BatcherAwake
    /\ m_running /\ m_current_txs > 0
    /\ batcher' = "swap"
    /\ UNCHANGED <<starterVars, raftVars, handler, m_current_txs, waiters, busy,
                   arrivals>>

SwapBatch ==
    /\ batcher = "swap"
    /\ m_current_txs' = 0
    /\ batcher' = "notify"
    /\ UNCHANGED <<starterVars, raftVars, handler, waiters, busy, arrivals>>

\* The handler may go on with the new batch.
NotifyHandler ==
    /\ batcher = "notify"
    /\ waiters' \in notify_one(waiters)
    /\ batcher' = "schedule"
    /\ UNCHANGED <<starterVars, raftVars, handler, m_current_txs, busy, arrivals>>

\* schedule_exec yields until an executor thread is free.
schedule_exec ==
    /\ batcher = "schedule"
    /\ \E x \in ExecThread \ busy : busy' = busy \cup {x}
    /\ batcher' = "check"
    /\ UNCHANGED <<starterVars, raftVars, handler, m_current_txs, waiters, arrivals>>

\* The batch's lambda ends and marks its thread as free.
ExecDone(x) ==
    /\ x \in busy
    /\ busy' = busy \ {x}
    /\ UNCHANGED <<starterVars, raftVars, handler, batcher, m_current_txs,
                   waiters, arrivals>>

\* C++ condition variables may wake a waiter without a notification.
SpuriousWakeup(w) ==
    /\ w \in waiters
    /\ waiters' = waiters \ {w}
    /\ UNCHANGED <<starterVars, raftVars, handler, batcher, m_current_txs, busy,
                   arrivals>>

-----------------------------------------------------------------------------
StarterStep ==
    \/ LoopTest \/ TakeFlag
    \/ StopRunning \/ CloseServer \/ JoinHandler \/ NotifyBatch \/ JoinBatch
    \/ join_execs
    \/ StartRunning \/ RecoveryEnds \/ LaunchBatcher \/ LaunchServer

HandlerStep ==
    HandlerExits \/ AddTx \/ NotifyBatcher \/ AddRefused \/ WaitForSpace

BatcherStep ==
    \/ WaitForTxs \/ BatcherExits \/ FoundTxs
    \/ SwapBatch \/ NotifyHandler \/ schedule_exec

ThreadsNext ==
    \/ BecomeLeader \/ BecomeFollower \/ quit
    \/ StarterStep
    \/ ReceiveTx \/ HandlerStep
    \/ BatcherStep
    \/ \E x \in ExecThread : ExecDone(x)
    \/ \E w \in {"handler", "batcher"} : SpuriousWakeup(w)

\* The operating system runs every thread that can run, and the shards answer
\* every batch.  Elections, requests and spurious wakeups may never come.
ThreadsSpec ==
    /\ ThreadsInit /\ [][ThreadsNext]_threadsVars
    /\ WF_threadsVars(StarterStep) /\ WF_threadsVars(HandlerStep) /\ WF_threadsVars(BatcherStep)
    /\ \A x \in ExecThread : WF_threadsVars(ExecDone(x))

-----------------------------------------------------------------------------
\* The type invariant of the threads' state.
ThreadsTypeOK ==
    /\ {m_running, m_start_flag, m_stop_flag, m_quit, is_leader, closing}
         \subseteq BOOLEAN
    /\ starter \in {"loop", "wait", "exited", "stop", "close", "join_handler",
                    "notify", "join_batch", "join_execs", "start", "recover",
                    "launch", "listen"}
    /\ goal \in {"start", "stop", "quit"}
    /\ handler \in {"none", "idle", "adding", "blocked", "notify", "exited"}
    /\ batcher \in {"none", "check", "blocked", "swap", "notify", "schedule",
                    "exited"}
    /\ m_current_txs \in 0..m_batch_size
    /\ waiters \subseteq {"handler", "batcher"}
    /\ busy \subseteq ExecThread

\* start() finds no thread of an earlier term: assigning to a joinable
\* m_batch_exec_thread would terminate the process, and an old handler would
\* add to the new term's batch.
StartFindsNoThreads ==
    starter \in {"start", "recover", "launch"} =>
        handler = "none" /\ batcher = "none" /\ busy = {}

Serving ==
    m_running /\ handler \notin {"none", "exited"}
      /\ batcher \notin {"none", "exited"}

\* No wakeup is lost between the two waits on m_batch_cv: a batch with
\* transactions is swapped out unless the node stops.
BatchTaken == Serving /\ m_current_txs > 0 ~> (m_current_txs = 0 \/ ~m_running)

\* A handler blocked on a full batch goes on unless the node stops.
HandlerGoesOn == handler = "blocked" ~> (handler # "blocked" \/ ~m_running)

\* stop() has come to join a handler that waits for space in the batch.
StopHangs == starter = "join_handler" /\ handler = "blocked"

\* A node that stays leader ends up serving, whatever the interleaving of
\* raft_callback with a start or stop that is under way, unless stop() hangs.
LeaderServes ==
    <>[]is_leader /\ []~m_quit => <>[]Serving \/ <>[]StopHangs

\* A node that stays follower ends up with its threads joined, unless stop()
\* hangs.
FollowerStops ==
    <>[]~is_leader /\ []~m_quit =>
        <>[](handler = "none" /\ batcher = "none") \/ <>[]StopHangs

\* The threads are well formed, and start() meets none of an earlier term.
ThreadsSound == ThreadsTypeOK /\ StartFindsNoThreads

\* The threads go on: no wakeup on m_batch_cv is lost, a lasting leader
\* serves and a lasting follower stops (batch_executor_func, start_stop_func).
ThreadsLive == BatchTaken /\ HandlerGoesOn /\ LeaderServes /\ FollowerStops
=============================================================================

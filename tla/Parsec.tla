------------------------------- MODULE Parsec --------------------------------
(***************************************************************************)
(* PArSEC: agent processes (agents, runners and the broker of the process, *)
(* started by agentd.cpp and served by agent/server_interface.cpp) and     *)
(* shard clusters, joined by RPC connections that keep the order of the    *)
(* messages between a broker and a shard.                                  *)
(*                                                                         *)
(* Faults: a shard cluster elects a new leader, an agent process dies and  *)
(* restarts, a request cannot be sent to a shard, a process that restarts  *)
(* overtakes the requests of the one that died.                            *)
(***************************************************************************)
EXTENDS Agent

CONSTANTS
    Throws,         \* tickets whose contract may end in an error
    Faults,         \* the kinds of fault considered
    MaxFaults       \* bound on the number of faults

ASSUME ParsecAssumption ==
    /\ Faults \subseteq {"failover", "crash", "outage", "overtake"}
    /\ MaxFaults \in Nat

VARIABLES
    agent,          \* per ticket, the agent and its runner
    broker,         \* per ticket, the broker's entry
    queue,          \* per ticket: "new", "running", "retry", "cleanup", "gone"
    process,        \* per agent process: "up", "recovering", "down"
    m_recovery_tickets, \* per process, the tickets the shards reported
    requests,       \* per broker and shard, RPC requests in flight
    answer,         \* per ticket, what its client was told
    snapshot,       \* per ticket, the values it had read when it asked to commit
    decided,        \* the tickets some shard committed
    faults          \* how many faults happened

agentVars == <<agent, broker, queue, answer, snapshot>>
vars == <<shardVars, agentVars, process, m_recovery_tickets, requests,
          decided, faults>>

NoRequests == [s \in Shards |-> <<>>]

DeadAgent == [NewAgent EXCEPT !.m_state = "dead"]

Init ==
    /\ ShardInit
    /\ agent = [t \in Tickets |-> NewAgent]
    /\ broker = [t \in Tickets |-> NoBrokerTicket]
    /\ queue = [t \in Tickets |-> "new"]
    /\ process = [b \in Brokers |-> "up"]
    /\ m_recovery_tickets = [b \in Brokers |-> <<>>]
    /\ requests = [b \in Brokers |-> NoRequests]
    /\ answer = [t \in Tickets |-> "none"]
    /\ snapshot = [t \in Tickets |-> <<>>]
    /\ decided = {}
    /\ faults = 0

-----------------------------------------------------------------------------
Fault(kind) ==
    /\ kind \in Faults
    /\ faults < MaxFaults
    /\ faults' = faults + 1

Outcomes(t) == {"update"} \cup (IF t \in Throws THEN {"exception"} ELSE {})

Local(t, down, outcome) ==
    [t |-> t, a |-> agent[t], b |-> broker[t], out |-> NoRequests,
     report |-> "", down |-> down, outcome |-> outcome, next |-> <<>>]

\* The values of the locks a ticket holds.
ReadValues(b) ==
    [k \in {x \in Keys : b.m_key_states[x].m_key_state = "locked"} |->
        b.m_key_states[k].m_value]

\* A chain of calls that begins with Chain(L), for ticket t of a running
\* process.  The server's result callback queues the agent to be retried or to
\* be destroyed, and in the latter case answers the client.  (Chains with an
\* unreachable shard are counted when that makes a difference.)
RunChain(t, Chain(_), place) ==
    \E outcome \in Outcomes(t), down \in SUBSET Shards :
    \E L \in Ends(Chain(Local(t, down, outcome))) :
        /\ \/ down = {} /\ UNCHANGED faults
           \/ /\ down # {}
              /\ Fault("outage")
              /\ [L EXCEPT !.down = {}] \notin Ends(Chain(Local(t, {}, outcome)))
        /\ agent' = [agent EXCEPT ![t] = L.a]
        /\ broker' = [broker EXCEPT ![t] = L.b]
        /\ requests' = [requests EXCEPT ![BrokerOf[t]] =
                           [s \in Shards |-> @[s] \o L.out[s]]]
        /\ queue' = [queue EXCEPT ![t] =
              CASE L.report = "" -> place
                [] L.report = "retry" -> "retry"
                [] OTHER -> "cleanup"]
        /\ answer' = [answer EXCEPT ![t] =
              IF L.report \in {"update", "error"} THEN L.report ELSE @]
        /\ snapshot' = [snapshot EXCEPT ![t] =
              IF L.a.m_state = "commit_sent" THEN ReadValues(L.b) ELSE @]

\* A client's request: a new agent, exec, begin and handle_begin.
Exec(t) ==
    LET Begin(L) == do_start([L EXCEPT !.b.m_state = "begun"])
    IN /\ queue[t] = "new"
       /\ process[BrokerOf[t]] = "up"
       /\ RunChain(t, Begin, "running")
       /\ UNCHANGED <<shardVars, process, m_recovery_tickets, decided>>

\* The retry thread: exec in state rollback_complete.
Retry(t) ==
    /\ queue[t] = "retry"
    /\ RunChain(t, do_start, "running")
    /\ UNCHANGED <<shardVars, process, m_recovery_tickets, decided>>

\* agentd dies: its agents and its broker are gone, its connections closed.
Die(b) ==
    LET mine == {t \in Tickets : BrokerOf[t] = b}
        live == {t \in mine : queue[t] \notin {"new", "gone"}}
    IN /\ process' = [process EXCEPT ![b] = "down"]
       /\ agent' = [t \in Tickets |->
                       IF t \in mine /\ queue[t] # "new" THEN DeadAgent ELSE agent[t]]
       /\ broker' = [t \in Tickets |->
                        IF t \in mine THEN NoBrokerTicket ELSE broker[t]]
       /\ queue' = [t \in Tickets |-> IF t \in live THEN "gone" ELSE queue[t]]
       /\ requests' = [requests EXCEPT ![b] = NoRequests]
       /\ responses' = [responses EXCEPT ![b] = NoRequests]
       /\ orphans' = orphans \cup live
       /\ m_log' = [s \in Shards |-> [i \in DOMAIN m_log[s] |->
              [m_log[s][i] EXCEPT !.live = @ /\ BrokerOf[m_log[s][i].ticket] # b]]]
       /\ m_recovery_tickets' = [m_recovery_tickets EXCEPT ![b] = <<>>]
       /\ UNCHANGED <<lockVars, replVars, answer, snapshot, decided>>

\* The cleanup thread erases the agent; destroying one that is not in the
\* state finish_complete is fatal to the process.
Cleanup(t) ==
    /\ queue[t] = "cleanup"
    /\ \/ /\ agent[t].m_state = "finish_complete"
          /\ queue' = [queue EXCEPT ![t] = "gone"]
          /\ agent' = [agent EXCEPT ![t] = DeadAgent]
          /\ UNCHANGED <<shardVars, broker, answer, snapshot, process,
                         m_recovery_tickets, requests, decided, faults>>
       \/ /\ agent[t].m_state # "finish_complete"
          /\ Die(BrokerOf[t])
          /\ UNCHANGED faults

Crash(b) ==
    /\ Fault("crash")
    /\ process[b] # "down"
    /\ Die(b)

-----------------------------------------------------------------------------
\* agentd starts and broker::recover asks every shard for the broker's tickets
\* at once, whatever is still being replicated for the process that died.
\* Without the fault "overtake" the restart takes longer than that.
Restart(b) ==
    /\ process[b] = "down"
    /\ \/ "overtake" \in Faults
       \/ \A s \in Shards : \A i \in DOMAIN m_log[s] :
            BrokerOf[m_log[s][i].ticket] # b
    /\ process' = [process EXCEPT ![b] = "recovering"]
    /\ requests' = [requests EXCEPT ![b] =
           [s \in Shards |-> <<[op |-> "get_tickets"]>>]]
    /\ UNCHANGED <<shardVars, agentVars, m_recovery_tickets, decided, faults>>

Received(b, s) ==
    /\ responses[b][s] # <<>>
    /\ responses' = [responses EXCEPT ![b] = [@ EXCEPT ![s] = Tail(@)]]
    /\ UNCHANGED <<lockVars, replVars, m_log, orphans>>

\* handle_get_tickets: after the last report every ticket is recovered.
ReportedTicket(reports, t) ==
    [NoBrokerTicket EXCEPT !.m_shard_states = [s \in Shards |->
        IF reports[s][t] = "unknown" THEN "absent" ELSE reports[s][t]]]

handle_get_tickets(b, s) ==
    LET m == Head(responses[b][s])
        got == (s :> m.tickets) @@ m_recovery_tickets[b]
        found == {t \in DOMAIN m.tickets :
                    \E x \in Shards : got[x][t] # "unknown"}
        Start(t) == CHOOSE L \in Ends(do_recovery([Local(t, {}, "none") EXCEPT
                        !.a = [DeadAgent EXCEPT !.m_state = "recovering"],
                        !.b = ReportedTicket(got, t)])) : TRUE
        Outbox(x) == FoldLeft(LAMBDA sent, t : sent \o Start(t).out[x], <<>>,
                              SetToSeq(found))
    IN /\ Received(b, s)
       /\ m.op = "get_tickets"
       /\ \/ /\ DOMAIN got # Shards
             /\ m_recovery_tickets' = [m_recovery_tickets EXCEPT ![b] = got]
             /\ UNCHANGED <<agent, broker, process, requests>>
          \/ /\ DOMAIN got = Shards
             /\ m_recovery_tickets' = [m_recovery_tickets EXCEPT ![b] =
                    IF found = {} THEN got ELSE <<>>]
             /\ agent' = [t \in Tickets |->
                             IF t \in found THEN Start(t).a ELSE agent[t]]
             /\ broker' = [t \in Tickets |->
                             IF t \in found THEN Start(t).b ELSE broker[t]]
             /\ requests' = [requests EXCEPT ![b] = [x \in Shards |->
                                @[x] \o Outbox(x)]]
             /\ process' = [process EXCEPT ![b] =
                                IF found = {} THEN "up" ELSE @]
       /\ UNCHANGED <<queue, answer, snapshot, decided, faults>>

\* A response for a ticket under recovery.  An error ends the process; the
\* last ticket's end lets it serve clients.
RecoveryStep(b, s) ==
    LET m == Head(responses[b][s])
        rest == {t \in Tickets \ {m.ticket} : BrokerOf[t] = b}
    IN /\ responses[b][s] # <<>>
       /\ m.op # "get_tickets"
       /\ agent[m.ticket].m_state = "recovering"
       /\ \E L \in Ends(HandleResponse(Local(m.ticket, {}, "none"), s, m)) :
          \/ L.report = "recovery_error" /\ Die(b) /\ UNCHANGED faults
          \/ /\ L.report # "recovery_error"
             /\ Received(b, s)
             /\ broker' = [broker EXCEPT ![m.ticket] = L.b]
             /\ agent' = [agent EXCEPT ![m.ticket] =
                             IF L.b.m_state = "none" THEN DeadAgent ELSE L.a]
             /\ requests' = [requests EXCEPT ![b] =
                                [x \in Shards |-> @[x] \o L.out[x]]]
             /\ process' = [process EXCEPT ![b] =
                    IF /\ L.b.m_state = "none"
                       /\ \A t \in rest : broker[t].m_state = "none"
                    THEN "up" ELSE @]
             /\ UNCHANGED <<queue, answer, snapshot, m_recovery_tickets,
                            decided, faults>>

\* A response for a ticket of a live agent.
BrokerStep(b, s) ==
    LET m == Head(responses[b][s])
        Handle(L) == HandleResponse(L, s, m)
    IN /\ Received(b, s)
       /\ m.op # "get_tickets"
       /\ agent[m.ticket].m_state # "recovering"
       /\ RunChain(m.ticket, Handle, queue[m.ticket])
       /\ UNCHANGED <<process, m_recovery_tickets, decided>>

-----------------------------------------------------------------------------
\* server::handler_callback for the next request of broker b.
ShardRequest(b, s) ==
    LET m == Head(requests[b][s])
    IN /\ requests[b][s] # <<>>
       /\ \/ /\ m.op = "try_lock"
             /\ try_lock(s, m.ticket, m.key, m.locktype, m.first_lock)
          \/ m.op = "prepare" /\ PrepareRequest(s, m.ticket, m.update)
          \/ /\ m.op \in {"commit", "rollback", "finish"}
             /\ ReplicateRequest(s, m.op, m.ticket)
          \/ m.op = "get_tickets" /\ GetTicketsRequest(s, b)
       /\ requests' = [requests EXCEPT ![b] = [@ EXCEPT ![s] = Tail(@)]]
       /\ UNCHANGED <<agentVars, process, m_recovery_tickets, decided, faults>>

\* The tickets that a step on shard s commits in the replicated shard.
NewlyCommitted(s) ==
    {t \in Tickets : r_tickets[s][t].m_state # "committed"
                     /\ r_tickets'[s][t].m_state = "committed"}

ShardStep(s) ==
    /\ EntryExecuted(s)
    /\ decided' = decided \cup NewlyCommitted(s)
    /\ UNCHANGED <<agentVars, process, m_recovery_tickets, requests, faults>>

Failover(s) ==
    /\ Fault("failover")
    /\ NewLeader(s)
    /\ requests' = [b \in Brokers |-> [requests[b] EXCEPT ![s] = <<>>]]
    /\ decided' = decided \cup NewlyCommitted(s)
    /\ UNCHANGED <<agentVars, process, m_recovery_tickets>>

\* Every contract has ended and nothing is in flight.
AtRest ==
    /\ \A t \in Tickets : queue[t] = "gone"
    /\ \A b \in Brokers : process[b] = "up" /\ requests[b] = NoRequests
    /\ \A b \in Brokers : responses[b] = NoRequests
    /\ \A s \in Shards : m_log[s] = <<>>

AllDone == AtRest /\ UNCHANGED vars

Next ==
    \/ \E t \in Tickets : Exec(t) \/ Retry(t) \/ Cleanup(t)
    \/ \E b \in Brokers : Crash(b) \/ Restart(b)
    \/ \E b \in Brokers, s \in Shards :
         \/ ShardRequest(b, s)
         \/ BrokerStep(b, s)
         \/ handle_get_tickets(b, s)
         \/ RecoveryStep(b, s)
    \/ \E s \in Shards : ShardStep(s) \/ Failover(s)
    \/ AllDone

Spec == Init /\ [][Next]_vars

\* The server's threads, the RPC clients and servers and raft keep running;
\* a client need not send anything, nothing need fail, and nobody need start
\* a process that ended.
SystemStep ==
    \/ \E t \in Tickets : Retry(t) \/ Cleanup(t)
    \/ \E b \in Brokers, s \in Shards :
         \/ ShardRequest(b, s)
         \/ BrokerStep(b, s)
         \/ handle_get_tickets(b, s)
         \/ RecoveryStep(b, s)
    \/ \E s \in Shards : ShardStep(s)

FairSpec == Spec /\ WF_vars(SystemStep)

-----------------------------------------------------------------------------
\* The types of the variables.
TypeOK ==
    /\ \A k \in Keys :
         /\ m_state[k].m_value \in Values
         /\ m_state[k].m_writer \cup m_state[k].m_readers \subseteq Tickets
         /\ m_state[k].m_queue \in [Tickets -> LockTypes \cup {"none"}]
    /\ \A s \in Shards, t \in Tickets :
         /\ m_tickets[s][t].m_state \in
              {"unknown", "begun", "prepared", "wounded", "committed"}
         /\ r_tickets[s][t].m_state \in {"unknown", "prepared", "committed"}
    /\ \A t \in Tickets :
         /\ broker[t].m_state \in
              {"none", "begun", "prepared", "committed", "aborted"}
         /\ \A s \in Shards : broker[t].m_shard_states[s] \in
              {"absent", "begun", "preparing", "prepared", "wounded",
               "committing", "committed", "rolling_back", "rolled_back",
               "finishing", "finished"}
    /\ queue \in [Tickets -> {"new", "running", "retry", "cleanup", "gone"}]
    /\ process \in [Brokers -> {"up", "recovering", "down"}]
    /\ answer \in [Tickets -> {"none", "update", "error"}]
    /\ decided \subseteq Tickets

\* Without faults neither fatal error is met: agent::~impl in a state other
\* than finish_complete, and shard::try_lock with first_lock for a ticket the
\* shard knows.
NoFatal ==
    /\ \A t \in Tickets :
         queue[t] = "cleanup" => agent[t].m_state = "finish_complete"
    /\ \A b \in Brokers, s \in Shards :
         LET m == Head(requests[b][s])
         IN requests[b][s] # <<>> /\ m.op = "try_lock" /\ m.first_lock =>
              m_tickets[s][m.ticket].m_state = "unknown"

\* A client whom the server told of success had its contract committed.
ConfirmedIsDecided ==
    \A t \in Tickets : answer[t] = "update" => t \in decided

\* Without faults a client told of an error had nothing committed.
RefusedIsNotDecided ==
    \A t \in Tickets : answer[t] = "error" => t \notin decided

\* rollback "[c]annot be used after a ticket is committed"
\* (runtime_locking_shard/interface.hpp): no rollback reaches the leader of a
\* shard that has committed the ticket.  The recovery of a broker that was
\* restarted promptly breaks it.
NoRollbackOfCommitted ==
    \A s \in Shards :
        m_log[s] # <<>> /\ Head(m_log[s]).op = "rollback" =>
            m_tickets[s][Head(m_log[s]).ticket].m_state # "committed"

\* When every contract has ended and nothing is in flight, no lock is held or
\* queued, no shard remembers a ticket, and the leader's values are those of
\* the replicated shard.
CleanAtRest ==
    AtRest =>
        /\ \A k \in Keys : m_state[k] = FreshElement(r_state[k])
        /\ \A s \in Shards, t \in Tickets :
             /\ m_tickets[s][t].m_state = "unknown"
             /\ r_tickets[s][t].m_state = "unknown"

\* The value of a key once the decided tickets are applied everywhere.
abstractStore ==
    [k \in Keys |->
        LET s == key_location(k)
            due == {t \in decided : /\ r_tickets[s][t].m_state = "prepared"
                                    /\ k \in DOMAIN r_tickets[s][t].m_state_update}
        IN IF due = {} THEN r_state[k] ELSE CHOOSE t \in due : TRUE]

abstractHistory ==
    [t \in Tickets |-> IF t \in decided
        THEN [reads |-> snapshot[t], writes |-> Result(t)]
        ELSE [reads |-> <<>>, writes |-> <<>>]]

Abstract == INSTANCE SerializableStore WITH
    store <- abstractStore, history <- abstractHistory

\* The shards, brokers and agents implement a store in which a contract takes
\* effect in one step: the first commit executed by some shard.
Implements == Abstract!Spec

\* The store after the first n tickets of an order.
Replay(order, n) ==
    [k \in Keys |-> LET W == {i \in 1..n : k \in DOMAIN Result(order[i])}
                    IN IF W = {} THEN EmptyValue ELSE order[Max(W)]]

\* Whatever fails but "overtake" (a restarted broker that rolls back a ticket
\* one shard has committed takes its other shard's update away), there is an
\* order of the committed contracts that explains the values each of them had
\* read and the values the shards hold.
Serializable ==
    \E order \in SetToSeqs(decided) :
        /\ \A i \in DOMAIN order : \A k \in DOMAIN snapshot[order[i]] :
             snapshot[order[i]][k] = Replay(order, i - 1)[k]
        /\ abstractStore = Replay(order, Len(order))

\* Without faults every contract that was started ends, however often it is
\* wounded: its server forgets the agent.
EveryContractEnds ==
    \A t \in Tickets : queue[t] = "running" ~> faults > 0 \/ queue[t] = "gone"

\* A broker that starts finds its tickets, completes or rolls back each, and
\* then serves clients.  (Not under "overtake": a rollback that was under way
\* makes the shard answer the new one with unknown_ticket, the recovery fails
\* and the process ends.)
RecoveryEnds ==
    \A b \in Brokers : process[b] = "recovering" ~> process[b] = "up"

\* Without faults agents, brokers and shards meet no fatal error, and a client
\* told of an error had nothing committed.
ProtocolSound == TypeOK /\ NoFatal /\ RefusedIsNotDecided

\* Shards and their replicas are left clean, and prepared tickets in a replica
\* never update one key: a new leader can take all their locks.
ShardsClean == CleanAtRest /\ ReplicasDisjoint

\* Whatever fails but "overtake", a commit that was made or reported stands.
DecisionsKept == NoRollbackOfCommitted /\ ConfirmedIsDecided

\* Contracts end, and so does the recovery of a broker.
EverythingEnds == EveryContractEnds /\ RecoveryEnds
=============================================================================

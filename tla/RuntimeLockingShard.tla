------------------------- MODULE RuntimeLockingShard -------------------------
(***************************************************************************)
(* The runtime locking shards of PArSEC                                    *)
(* (src/src/parsec/runtime_locking_shard): two-phase locking with the      *)
(* wound-wait rule, prepare, commit, rollback and finish, the raft         *)
(* replicated copy of prepared and committed tickets, and the recovery of  *)
(* a new leader from that copy.                                            *)
(*                                                                         *)
(* The leader keeps which locks a ticket holds and queues twice, in the    *)
(* lock table and in the ticket.  Every function of impl.cpp changes both  *)
(* at once, so the model keeps the lock table only.  A std::optional is a  *)
(* set with at most one member.                                            *)
(***************************************************************************)
EXTENDS Naturals, Sequences, SequencesExt

CONSTANTS
    NumShards,      \* the number of shard clusters
    Keys,
    Hash,           \* const_sip_hash of a key
    Tickets,        \* ticket numbers; a smaller number is an older ticket
    Brokers,
    BrokerOf,       \* the broker that began a ticket (m_broker_id)
    Values,
    EmptyValue      \* value of a key that was never written

ASSUME ShardAssumption ==
    /\ NumShards \in Nat \ {0}
    /\ Hash \in [Keys -> Nat]
    /\ Tickets \subseteq Nat
    /\ BrokerOf \in [Tickets -> Brokers]
    /\ EmptyValue \in Values

VARIABLES
    m_state,        \* per key: m_value, m_writer, m_readers, m_queue
    m_tickets,      \* per shard, the leader's m_tickets
    r_state,        \* per key, m_state of the replicated shard
    r_tickets,      \* per shard, m_tickets of the replicated shard
    m_log,          \* per shard, raft entries replicated and not yet executed
    responses,      \* per broker and shard, RPC responses in flight
    orphans         \* tickets whose lock requests came over a connection that
                    \* is now closed

lockVars == <<m_state, m_tickets>>
replVars == <<r_state, r_tickets>>
shardVars == <<lockVars, replVars, m_log, responses, orphans>>

Shards == 0..(NumShards - 1)
LockTypes == {"read", "write"}
Updates == UNION {[K -> Values] : K \in SUBSET Keys}

key_location(key) == Hash[key] % NumShards

KeysOf(s) == {k \in Keys : key_location(k) = s}

NoUpdate == [k \in {} |-> EmptyValue]

NoTicketState == [m_state |-> "unknown", m_state_update |-> NoUpdate]

FreshElement(v) ==
    [m_value |-> v, m_writer |-> {}, m_readers |-> {},
     m_queue |-> [t \in Tickets |-> "none"]]

WithState(ticket, state) ==
    [m_state |-> state, m_state_update |-> ticket.m_state_update]

\* commit moves the values out of the update: the ticket keeps the keys, with
\* moved-from (empty) buffers.
MovedFrom(ticket) ==
    [m_state |-> "committed",
     m_state_update |-> [k \in DOMAIN ticket.m_state_update |-> EmptyValue]]

ShardInit ==
    /\ m_state = [k \in Keys |-> FreshElement(EmptyValue)]
    /\ m_tickets = [s \in Shards |-> [t \in Tickets |-> NoTicketState]]
    /\ r_state = [k \in Keys |-> EmptyValue]
    /\ r_tickets = [s \in Shards |-> [t \in Tickets |-> NoTicketState]]
    /\ m_log = [s \in Shards |-> <<>>]
    /\ responses = [b \in Brokers |-> [s \in Shards |-> <<>>]]
    /\ orphans = {}

-----------------------------------------------------------------------------
\* Responses, sent over the connection their request came from while it is
\* open.  The callbacks of one call are sent in the order given; among the
\* elements of an unordered container the order is some fixed one.
Response(op, t, k, res, v) ==
    [op |-> op, ticket |-> t, key |-> k, result |-> res, value |-> v]

Reply(s, callbacks) ==
    /\ responses' = [b \in Brokers |-> [responses[b] EXCEPT ![s] =
           @ \o SelectSeq(callbacks, LAMBDA c :
                   /\ BrokerOf[c.ticket] = b
                   /\ c.op = "try_lock" => c.ticket \notin orphans)]]
    /\ UNCHANGED orphans

Answer(s, op, t, res) ==
    Reply(s, <<Response(op, t, "none", res, EmptyValue)>>)

\* The callbacks of released locks that were still queued ...
WoundedCallbacks(s, T) ==
    LET queued == {p \in KeysOf(s) \X T : m_state[p[1]].m_queue[p[2]] # "none"}
    IN SetToSeq({Response("try_lock", p[2], p[1], "wounded", EmptyValue) :
                    p \in queued})

\* ... and of the locks that became assigned between two lock tables.
AcquireCallbacks(before, after) ==
    LET granted == {p \in Keys \X Tickets :
                        /\ before[p[1]].m_queue[p[2]] # "none"
                        /\ after[p[1]].m_queue[p[2]] = "none"}
    IN SetToSeq({Response("try_lock", p[2], p[1], "ok", after[p[1]].m_value) :
                    p \in granted})

-----------------------------------------------------------------------------
\* acquire_lock, repeated until it returns false.  The queue is a map ordered
\* by ticket: readers at its head are assigned the lock unless it is held for
\* writing; a writer at the head is assigned the lock when nobody else holds
\* it, and ends the loop.
Acquirable(lk) ==
    {t \in Tickets :
        /\ lk.m_writer = {}
        /\ \/ /\ lk.m_queue[t] = "read"
              /\ \A u \in Tickets : u < t => lk.m_queue[u] # "write"
           \/ /\ lk.m_queue[t] = "write"
              /\ lk.m_readers \subseteq {t}
              /\ \A u \in Tickets : u < t => lk.m_queue[u] = "none"}

acquire_lock_keeps_readers(lk) ==
    LET granted == Acquirable(lk)
        writers == {t \in granted : lk.m_queue[t] = "write"}
    IN [m_value |-> lk.m_value,
        m_writer |-> lk.m_writer \cup writers,
        m_readers |-> lk.m_readers \cup (granted \ writers),
        m_queue |-> [t \in Tickets |->
                        IF t \in granted THEN "none" ELSE lk.m_queue[t]]]

acquire_lock(lk) ==
    LET granted == Acquirable(lk)
        writers == {t \in granted : lk.m_queue[t] = "write"}
    IN [m_value |-> lk.m_value,
        m_writer |-> lk.m_writer \cup writers,
        m_readers |-> IF writers = {} THEN lk.m_readers \cup granted ELSE {},
        m_queue |-> [t \in Tickets |->
                        IF t \in granted THEN "none" ELSE lk.m_queue[t]]]

acquire_locks(st, K) ==
    [k \in Keys |-> IF k \in K THEN acquire_lock(st[k]) ELSE st[k]]

release_lock(lk, T) ==
    [m_value |-> lk.m_value,
     m_writer |-> lk.m_writer \ T,
     m_readers |-> lk.m_readers \ T,
     m_queue |-> [t \in Tickets |-> IF t \in T THEN "none" ELSE lk.m_queue[t]]]

\* release_locks for the tickets T, on the keys of shard s.
release_locks(st, s, T) ==
    [k \in Keys |-> IF k \in KeysOf(s) THEN release_lock(st[k], T) ELSE st[k]]

\* The keys release_locks reports: those the tickets hold or are queued for.
AffectedKeys(s, T) ==
    {k \in KeysOf(s) : \E t \in T : \/ t \in m_state[k].m_writer
                                    \/ t \in m_state[k].m_readers
                                    \/ m_state[k].m_queue[t] # "none"}

\* The younger tickets a request would wait on.
get_waiting_on(t, lt, lk) ==
    {u \in lk.m_writer \cup (IF lt = "write" THEN lk.m_readers ELSE {}) : t < u}

WoundedWriterOnly(s, t, k, lt) ==
    {u \in get_waiting_on(t, "read", m_state[k]) :
        m_tickets[s][u].m_state # "prepared"}

\* Of those, wound_tickets spares the prepared ones.
Wounded(s, t, k, lt) ==
    {u \in get_waiting_on(t, lt, m_state[k]) :
        m_tickets[s][u].m_state # "prepared"}

-----------------------------------------------------------------------------
\* try_lock.  The error returned, if any; a first_lock of a known ticket is
\* fatal and has no step.
Holds(lk, t, lt) == t \in lk.m_writer \/ (lt = "read" /\ t \in lk.m_readers)

try_lock_error(s, t, k, lt, first) ==
    LET state == m_tickets[s][t].m_state
    IN IF state = "unknown" THEN IF first THEN "ok" ELSE "unknown_ticket"
       ELSE IF state # "begun" THEN state
       ELSE IF Holds(m_state[k], t, lt) THEN "lock_held"
       ELSE IF m_state[k].m_queue[t] # "none" THEN "lock_queued"
       ELSE "ok"

enqueue(lk, t, lt) ==
    [m_value |-> lk.m_value, m_writer |-> lk.m_writer,
     m_readers |-> lk.m_readers, m_queue |-> [lk.m_queue EXCEPT ![t] = lt]]

TryLockRefused(s, t, k, lt, first) ==
    /\ try_lock_error(s, t, k, lt, first) # "ok"
    /\ Reply(s, <<Response("try_lock", t, k,
                           try_lock_error(s, t, k, lt, first), EmptyValue)>>)
    /\ UNCHANGED <<lockVars, replVars, m_log>>

\* The lock is queued, younger holders are wounded and their locks released,
\* and the affected keys' queues are served.
TryLockQueued(s, t, k, lt, first) ==
    LET wound == Wounded(s, t, k, lt)
        queued == [m_state EXCEPT ![k] = enqueue(m_state[k], t, lt)]
        freed == release_locks(queued, s, wound)
        after == acquire_locks(freed, AffectedKeys(s, wound) \cup {k})
    IN /\ try_lock_error(s, t, k, lt, first) = "ok"
       /\ m_state' = after
       /\ m_tickets' = [m_tickets EXCEPT ![s] = [u \in Tickets |->
              IF u \in wound THEN WithState(m_tickets[s][u], "wounded")
              ELSE IF u = t THEN WithState(m_tickets[s][u], "begun")
              ELSE m_tickets[s][u]]]
       /\ Reply(s, WoundedCallbacks(s, wound) \o AcquireCallbacks(freed, after))
       /\ UNCHANGED <<replVars, m_log>>

try_lock(s, t, k, lt, first) ==
    /\ first => m_tickets[s][t].m_state = "unknown"
    /\ \/ TryLockRefused(s, t, k, lt, first)
       \/ TryLockQueued(s, t, k, lt, first)

-----------------------------------------------------------------------------
prepare_error_of_wounded(s, t, update) ==
    LET state == m_tickets[s][t].m_state
    IN IF state = "unknown" THEN "unknown_ticket"
       ELSE IF state \notin {"begun", "wounded"} THEN state
       ELSE IF \E k \in DOMAIN update : t \notin m_state[k].m_writer
            THEN "lock_not_held"
       ELSE "ok"

\* prepare, on the leader.
prepare_error(s, t, update) ==
    LET state == m_tickets[s][t].m_state
    IN IF state = "unknown" THEN "unknown_ticket"
       ELSE IF state # "begun" THEN state
       ELSE IF \E k \in KeysOf(s) : m_state[k].m_queue[t] # "none"
            THEN "lock_queued"
       ELSE IF \E k \in DOMAIN update : ~Holds(m_state[k], t, "read")
            THEN "lock_not_held"
       ELSE IF \E k \in DOMAIN update : t \notin m_state[k].m_writer
            THEN "state_update_with_read_lock"
       ELSE "ok"

\* A raft entry; live tells whether the connection of its request is open.
Entry(op, t, update) ==
    [op |-> op, ticket |-> t, update |-> update, live |-> TRUE]

\* The RPC handler prepares on the leader and, on success, replicates.
PrepareRequest(s, t, update) ==
    \/ /\ prepare_error(s, t, update) # "ok"
       /\ Answer(s, "prepare", t, prepare_error(s, t, update))
       /\ UNCHANGED <<lockVars, replVars, m_log>>
    \/ /\ prepare_error(s, t, update) = "ok"
       /\ m_tickets' = [m_tickets EXCEPT ![s] = [@ EXCEPT ![t] =
              [m_state |-> "prepared", m_state_update |-> update]]]
       /\ m_log' = [m_log EXCEPT ![s] = Append(@, Entry("prepare", t, update))]
       /\ UNCHANGED <<m_state, replVars, responses, orphans>>

AnswerBeforeReplication(s, op, t) ==
    /\ m_log' = [m_log EXCEPT ![s] = Append(@, Entry(op, t, NoUpdate))]
    /\ Answer(s, op, t, "ok")
    /\ UNCHANGED <<lockVars, replVars>>

\* commit, rollback and finish are replicated before the leader acts.
ReplicateRequest(s, op, t) ==
    /\ m_log' = [m_log EXCEPT ![s] = Append(@, Entry(op, t, NoUpdate))]
    /\ UNCHANGED <<lockVars, replVars, responses, orphans>>

\* get_tickets: the broker's tickets and their states.
GetTicketsRequest(s, b) ==
    LET mine == [t \in {u \in Tickets : BrokerOf[u] = b} |->
                    m_tickets[s][t].m_state]
    IN /\ responses' = [responses EXCEPT ![b] = [@ EXCEPT ![s] =
              Append(@, [op |-> "get_tickets", tickets |-> mine])]]
       /\ UNCHANGED <<lockVars, replVars, m_log, orphans>>

-----------------------------------------------------------------------------
\* The replicated shard: prepare keeps an existing ticket (emplace), commit
\* applies the update, finish (also for a rollback) erases the ticket.
Written(st, update) ==
    [k \in Keys |-> IF k \in DOMAIN update THEN update[k] ELSE st[k]]

WithTicket(rs, t, ticket) ==
    [tickets |-> [rs.tickets EXCEPT ![t] = ticket], state |-> rs.state]

ReplicatedKeepsRolledBack(rs, e) ==
    LET ticket == rs.tickets[e.ticket]
        commit == WithTicket(rs, e.ticket, MovedFrom(ticket))
    IN CASE e.op = "prepare" -> WithTicket(rs, e.ticket,
              [m_state |-> "prepared", m_state_update |-> e.update])
         [] e.op = "commit" /\ ticket.m_state # "unknown" ->
              [tickets |-> commit.tickets,
               state |-> Written(rs.state, ticket.m_state_update)]
         [] e.op = "finish" -> WithTicket(rs, e.ticket, NoTicketState)
         [] OTHER -> rs

Replicated(rs, e) ==
    LET ticket == rs.tickets[e.ticket]
        commit == WithTicket(rs, e.ticket, MovedFrom(ticket))
    IN CASE e.op = "prepare" ->
              IF ticket.m_state # "unknown" THEN rs
              ELSE WithTicket(rs, e.ticket,
                     [m_state |-> "prepared", m_state_update |-> e.update])
         [] e.op = "commit" /\ ticket.m_state # "unknown" ->
              [tickets |-> commit.tickets,
               state |-> Written(rs.state, ticket.m_state_update)]
         [] e.op \in {"finish", "rollback"} ->
              WithTicket(rs, e.ticket, NoTicketState)
         [] OTHER -> rs

Replicas(s) == [tickets |-> r_tickets[s], state |-> r_state]

Replicate(s, rs) ==
    /\ r_tickets' = [r_tickets EXCEPT ![s] = rs.tickets]
    /\ r_state' = rs.state

\* The next entry is executed by the replicated shard ...
ExecuteEntry(s) ==
    /\ m_log[s] # <<>>
    /\ Replicate(s, Replicated(Replicas(s), Head(m_log[s])))
    /\ m_log' = [m_log EXCEPT ![s] = Tail(@)]

\* The callbacks of an entry's execution: those of other tickets' locks, and
\* the response to its request.
EntryReply(s, callbacks, res) ==
    LET e == Head(m_log[s])
    IN Reply(s, callbacks \o (IF e.live
           THEN <<Response(e.op, e.ticket, "none", res, EmptyValue)>>
           ELSE <<>>))

\* ... and its result is handed to the leader's callback: handle_prepare,
PrepareReplicated(s) ==
    /\ ExecuteEntry(s)
    /\ Head(m_log[s]).op = "prepare"
    /\ EntryReply(s, <<>>, "ok")
    /\ UNCHANGED lockVars

\* handle_commit and impl::commit,
commit_error(s, t) ==
    IF r_tickets[s][t].m_state = "unknown" THEN "internal_error"
    ELSE IF m_tickets[s][t].m_state = "unknown" THEN "unknown_ticket"
    ELSE IF m_tickets[s][t].m_state # "prepared" THEN "not_prepared"
    ELSE "ok"

WithValue(lk, v) ==
    [m_value |-> v, m_writer |-> lk.m_writer, m_readers |-> lk.m_readers,
     m_queue |-> lk.m_queue]

CommitReplicated(s) ==
    LET t == Head(m_log[s]).ticket
        error == commit_error(s, t)
        update == m_tickets[s][t].m_state_update
        written == [k \in Keys |-> IF k \in DOMAIN update
                        THEN WithValue(m_state[k], update[k])
                        ELSE m_state[k]]
        freed == release_locks(written, s, {t})
        after == acquire_locks(freed, AffectedKeys(s, {t}))
    IN /\ ExecuteEntry(s)
       /\ Head(m_log[s]).op = "commit"
       /\ \/ /\ error # "ok"
             /\ EntryReply(s, <<>>, error)
             /\ UNCHANGED lockVars
          \/ /\ error = "ok"
             /\ m_state' = after
             /\ m_tickets' = [m_tickets EXCEPT ![s] = [@ EXCEPT ![t] =
                    MovedFrom(m_tickets[s][t])]]
             /\ EntryReply(s, AcquireCallbacks(freed, after), "ok")

\* do_rollback and impl::rollback, which asks for no state of the ticket,
RollbackReplicated(s) ==
    LET t == Head(m_log[s]).ticket
        freed == release_locks(m_state, s, {t})
        after == acquire_locks(freed, AffectedKeys(s, {t}))
    IN /\ ExecuteEntry(s)
       /\ Head(m_log[s]).op = "rollback"
       /\ \/ /\ m_tickets[s][t].m_state = "unknown"
             /\ EntryReply(s, <<>>, "unknown_ticket")
             /\ UNCHANGED lockVars
          \/ /\ m_tickets[s][t].m_state # "unknown"
             /\ m_state' = after
             /\ m_tickets' = [m_tickets EXCEPT ![s] =
                    [@ EXCEPT ![t] = NoTicketState]]
             /\ EntryReply(s, AcquireCallbacks(freed, after)
                              \o WoundedCallbacks(s, {t}), "ok")

\* do_finish and impl::finish.
finish_error(s, t) ==
    CASE m_tickets[s][t].m_state = "unknown" -> "unknown_ticket"
      [] m_tickets[s][t].m_state = "committed" -> "ok"
      [] OTHER -> "not_committed"

FinishReplicated(s) ==
    LET t == Head(m_log[s]).ticket
        error == finish_error(s, t)
    IN /\ ExecuteEntry(s)
       /\ Head(m_log[s]).op = "finish"
       /\ EntryReply(s, <<>>, error)
       /\ m_tickets' = IF error # "ok" THEN m_tickets
              ELSE [m_tickets EXCEPT ![s] = [@ EXCEPT ![t] = NoTicketState]]
       /\ UNCHANGED m_state

EntryExecuted(s) ==
    \/ PrepareReplicated(s)
    \/ CommitReplicated(s)
    \/ RollbackReplicated(s)
    \/ FinishReplicated(s)

-----------------------------------------------------------------------------
\* impl::recover: values, tickets, and the write locks of prepared updates.
Recovered(s, rs) ==
    LET holders(k) == {t \in Tickets :
                         /\ rs.tickets[t].m_state = "prepared"
                         /\ k \in DOMAIN rs.tickets[t].m_state_update}
    IN [k \in Keys |-> IF k \notin KeysOf(s) THEN m_state[k]
           ELSE [m_value |-> rs.state[k], m_writer |-> holders(k),
                 m_readers |-> {}, m_queue |-> [t \in Tickets |-> "none"]]]

\* A leader that starts from a replicated shard rs.
LeadFrom(s, rs) ==
    /\ Replicate(s, rs)
    /\ m_log' = [m_log EXCEPT ![s] = <<>>]
    /\ m_state' = Recovered(s, rs)
    /\ m_tickets' = [m_tickets EXCEPT ![s] = rs.tickets]
    /\ UNCHANGED <<responses, orphans>>

\* A new leader: the first n pending entries survive and are executed (the
\* request for the tickets is itself replicated, after them), the others are
\* lost, and so are the callbacks of all of them.
NewLeader(s) ==
    \E n \in 0..Len(m_log[s]) :
        LeadFrom(s, FoldLeft(Replicated, Replicas(s), SubSeq(m_log[s], 1, n)))

-----------------------------------------------------------------------------
\* The shards alone: any requests in any order, and any replicated shard for a
\* new leader to start from.
States == {"unknown", "begun", "prepared", "wounded", "committed"}
TicketMaps ==
    [Tickets -> [m_state : States, m_state_update : Updates]]
Entries ==
    [op : {"prepare", "commit", "rollback", "finish"}, ticket : Tickets,
     update : Updates, live : BOOLEAN]

\* Brokers take responses and close connections.
BrokersAct ==
    /\ m_log' \in [Shards -> Seq(Entries)]
    /\ UNCHANGED <<lockVars, replVars>>

ShardNext ==
    \/ \E s \in Shards, t \in Tickets :
         \/ \E k \in KeysOf(s), lt \in LockTypes, first \in BOOLEAN :
              try_lock(s, t, k, lt, first)
         \/ \E update \in Updates : PrepareRequest(s, t, update)
         \/ \E op \in {"commit", "rollback", "finish"} :
              ReplicateRequest(s, op, t)
    \/ \E s \in Shards :
         \/ EntryExecuted(s)
         \/ \E rs \in [tickets : TicketMaps, state : [Keys -> Values]] :
              LeadFrom(s, rs)
    \/ BrokersAct

ShardSpec == ShardInit /\ [][ShardNext]_shardVars

-----------------------------------------------------------------------------
Exclusive(lk) ==
    /\ \A t, u \in lk.m_writer : t = u
    /\ lk.m_writer # {} => lk.m_readers = {}

\* A key is locked by one writer or by readers, never by both, whatever
\* try_lock, wound_tickets, acquire_lock and recover did to its lock element.
LockExclusion == \A k \in Keys : Exclusive(m_state[k])

PreparedOf(s) == {t \in Tickets : m_tickets[s][t].m_state = "prepared"}

WaitsOnlyFor(lk, T) ==
    \A t \in Tickets :
        lk.m_queue[t] # "none" =>
            get_waiting_on(t, lk.m_queue[t], lk) \subseteq T

\* The wound-wait rule: a queued request waits for a younger ticket only while
\* that ticket is prepared, so no cycle of tickets wait for each other's locks.
WaitsForOlder ==
    \A k \in Keys : WaitsOnlyFor(m_state[k], PreparedOf(key_location(k)))

\* No two tickets prepared in a replicated shard update the same key, so that
\* recover gives a key's write lock to one ticket.
ReplicasDisjoint ==
    \A s \in Shards : \A t, u \in Tickets :
        LET x == r_tickets[s][t]
            y == r_tickets[s][u]
        IN t # u /\ x.m_state = "prepared" /\ y.m_state = "prepared" =>
             DOMAIN x.m_state_update \cap DOMAIN y.m_state_update = {}

=============================================================================

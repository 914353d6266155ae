---------------------- MODULE RuntimeLockingShard_proofs ----------------------
(***************************************************************************)
(* For every set of keys, tickets and shards: the lock elements of the     *)
(* runtime locking shards are exclusive, and a ticket waits for a younger  *)
(* one only while that one is prepared.                                    *)
(***************************************************************************)
EXTENDS RuntimeLockingShard, TLAPS

Elements ==
    [m_value : Values, m_writer : SUBSET Tickets, m_readers : SUBSET Tickets,
     m_queue : [Tickets -> LockTypes \cup {"none"}]]

Typed ==
    /\ m_state \in [Keys -> Elements]
    /\ m_tickets \in [Shards -> TicketMaps]
    /\ r_state \in [Keys -> Values]
    /\ r_tickets \in [Shards -> TicketMaps]
    /\ m_log \in [Shards -> Seq(Entries)]

-----------------------------------------------------------------------------
(* The operators on one lock element.                                      *)

\* acquire_lock leaves a well-formed lock element.
LEMMA AcquireTyped ==
    ASSUME NEW lk \in Elements
    PROVE  acquire_lock(lk) \in Elements
BY Zenon DEF Elements, acquire_lock, Acquirable, LockTypes

\* release_lock leaves a well-formed lock element.
LEMMA ReleaseTyped ==
    ASSUME NEW lk \in Elements, NEW T
    PROVE  release_lock(lk, T) \in Elements
BY Zenon DEF Elements, release_lock, LockTypes

(* acquire_lock assigns to one writer alone or to readers.                 *)
LEMMA AcquireExclusive ==
    ASSUME NEW lk \in Elements, Exclusive(lk)
    PROVE  Exclusive(acquire_lock(lk))
<1> DEFINE granted == Acquirable(lk)
           writers == {t \in granted : lk.m_queue[t] = "write"}
<1>1. \A t, u \in writers : t = u
  BY ShardAssumption DEF Acquirable
<1>2. granted # {} => lk.m_writer = {}
  BY Zenon DEF Acquirable
<1>3. /\ acquire_lock(lk).m_writer = lk.m_writer \cup writers
      /\ acquire_lock(lk).m_readers =
           IF writers = {} THEN lk.m_readers \cup granted ELSE {}
  BY Zenon DEF acquire_lock
<1>4. QED
  BY Zenon, <1>1, <1>2, <1>3 DEF Exclusive

\* Taking one ticket off a lock (release_lock) keeps it exclusive.
LEMMA ReleaseExclusive ==
    ASSUME NEW lk \in Elements, NEW T, Exclusive(lk)
    PROVE  Exclusive(release_lock(lk, T))
BY Zenon DEF Exclusive, release_lock

(* Nobody is assigned a lock that an older ticket keeps waiting for.       *)
LEMMA AcquireWaits ==
    ASSUME NEW lk \in Elements, NEW P, WaitsOnlyFor(lk, P)
    PROVE  WaitsOnlyFor(acquire_lock(lk), P)
<1> DEFINE granted == Acquirable(lk)
           writers == {t \in granted : lk.m_queue[t] = "write"}
           after == acquire_lock(lk)
<1>1. /\ after.m_writer = lk.m_writer \cup writers
      /\ after.m_readers = IF writers = {} THEN lk.m_readers \cup granted ELSE {}
      /\ \A t \in Tickets :
           after.m_queue[t] = IF t \in granted THEN "none" ELSE lk.m_queue[t]
  BY Zenon DEF acquire_lock
<1> SUFFICES ASSUME NEW t \in Tickets, after.m_queue[t] # "none",
                    NEW u \in get_waiting_on(t, after.m_queue[t], after)
             PROVE  u \in P
  BY Zenon DEF WaitsOnlyFor
<1>2. t \notin granted /\ after.m_queue[t] = lk.m_queue[t]
  BY Zenon, <1>1
<1>3. u \in get_waiting_on(t, lk.m_queue[t], lk) => u \in P
  BY Zenon, <1>1, <1>2 DEF WaitsOnlyFor
<1>4. t < u
  BY Zenon DEF get_waiting_on
<1>5. u \notin writers
  BY Zenon, <1>1, <1>2, <1>4, ShardAssumption DEF Acquirable
<1>6. u \in granted => lk.m_queue[t] # "write"
  BY Zenon, <1>1, <1>2, <1>4, ShardAssumption DEF Acquirable
<1>7. QED
  BY Zenon, <1>1, <1>2, <1>3, <1>4, <1>5, <1>6 DEF get_waiting_on

\* Taking one ticket off a lock (release_lock) keeps the waiting order.
LEMMA ReleaseWaits ==
    ASSUME NEW lk \in Elements, NEW T, NEW P, WaitsOnlyFor(lk, P)
    PROVE  WaitsOnlyFor(release_lock(lk, T), P \ T)
BY Zenon DEF WaitsOnlyFor, release_lock, get_waiting_on

\* A lock that waits only for P waits only for every larger set.
LEMMA FewerWaits ==
    ASSUME NEW lk, NEW P, NEW Q, P \subseteq Q, WaitsOnlyFor(lk, P)
    PROVE  WaitsOnlyFor(lk, Q)
BY Zenon DEF WaitsOnlyFor

-----------------------------------------------------------------------------
(* Lock tables.  Every action computes the next table in the same way:     *)
(* some elements are changed, those of one shard are released by some      *)
(* tickets, and the queues of some keys are served.                        *)

\* release_locks followed by acquire_locks leaves a well-formed table.
LEMMA TableTyped ==
    ASSUME NEW st \in [Keys -> Elements], NEW s, NEW T, NEW K
    PROVE  /\ release_locks(st, s, T) \in [Keys -> Elements]
           /\ acquire_locks(st, K) \in [Keys -> Elements]
BY Zenon, AcquireTyped, ReleaseTyped DEF release_locks, acquire_locks

\* release_locks followed by acquire_locks keeps every lock exclusive.
LEMMA TableExclusive ==
    ASSUME NEW st \in [Keys -> Elements], NEW s, NEW T, NEW K,
           \A k \in Keys : Exclusive(st[k])
    PROVE  \A k \in Keys : Exclusive(acquire_locks(release_locks(st, s, T), K)[k])
<1>1. \A k \in Keys : Exclusive(release_locks(st, s, T)[k])
  BY Zenon, ReleaseExclusive DEF release_locks
<1>2. release_locks(st, s, T) \in [Keys -> Elements]
  BY Zenon, TableTyped
<1>3. QED
  BY Zenon, <1>1, <1>2, AcquireExclusive DEF acquire_locks

\* release_locks followed by acquire_locks keeps the waiting order.
LEMMA TableWaits ==
    ASSUME NEW st \in [Keys -> Elements], NEW s, NEW T, NEW K, NEW P, NEW k \in Keys,
           WaitsOnlyFor(st[k], P)
    PROVE  LET after == acquire_locks(release_locks(st, s, T), K)
           IN /\ WaitsOnlyFor(after[k], P)
              /\ k \in KeysOf(s) => WaitsOnlyFor(after[k], P \ T)
<1> DEFINE mid == release_locks(st, s, T)
           after == acquire_locks(mid, K)
<1>1. mid \in [Keys -> Elements]
  BY Zenon, TableTyped
<1>2. /\ WaitsOnlyFor(mid[k], P)
      /\ k \in KeysOf(s) => WaitsOnlyFor(mid[k], P \ T)
  BY ReleaseWaits, FewerWaits DEF release_locks
<1>3. after[k] = mid[k] \/ after[k] = acquire_lock(mid[k])
  BY Zenon DEF acquire_locks
<1>4. mid[k] \in Elements
  BY Zenon, <1>1
<1>5. /\ WaitsOnlyFor(acquire_lock(mid[k]), P)
      /\ k \in KeysOf(s) => WaitsOnlyFor(acquire_lock(mid[k]), P \ T)
  BY Zenon, <1>2, <1>4, AcquireWaits
<1>6. QED
  BY Zenon, <1>2, <1>3, <1>5

-----------------------------------------------------------------------------
(* Type correctness.                                                       *)

\* The entry of a ticket that a shard does not know is well formed.
LEMMA NoUpdateTyped == NoUpdate \in Updates /\ NoTicketState \in [m_state : States, m_state_update : Updates]
<1>1. NoUpdate \in [{} -> Values]
  BY Zenon DEF NoUpdate
<1>2. NoUpdate \in Updates
  BY Zenon, <1>1 DEF Updates
<1>3. QED
  BY Zenon, <1>2 DEF NoTicketState, States

\* A lock element as its constructor leaves it is well formed.
LEMMA FreshTyped ==
    ASSUME NEW v \in Values
    PROVE  FreshElement(v) \in Elements
BY Zenon DEF FreshElement, Elements, LockTypes

\* The shards start well formed.
LEMMA InitTyped == ShardInit => Typed
<1> SUFFICES ASSUME ShardInit PROVE Typed
  BY Zenon
<1>1. m_state \in [Keys -> Elements]
  BY Zenon, FreshTyped, ShardAssumption DEF ShardInit
<1>2. m_tickets \in [Shards -> TicketMaps] /\ r_tickets \in [Shards -> TicketMaps]
  BY Zenon, NoUpdateTyped DEF ShardInit, TicketMaps
<1>3. r_state \in [Keys -> Values] /\ m_log \in [Shards -> Seq(Entries)]
  BY ShardAssumption DEF ShardInit
<1>4. QED
  BY Zenon, <1>1, <1>2, <1>3 DEF Typed

\* What commit leaves of a ticket, with its values moved out, is well formed.
LEMMA MovedFromTyped ==
    ASSUME NEW ticket \in [m_state : States, m_state_update : Updates]
    PROVE  MovedFrom(ticket) \in [m_state : States, m_state_update : Updates]
<1>1. PICK K \in SUBSET Keys : ticket.m_state_update \in [K -> Values]
  BY DEF Updates
<1>2. DOMAIN ticket.m_state_update = K
  BY <1>1
<1>3. [k \in K |-> EmptyValue] \in [K -> Values]
  BY ShardAssumption
<1>4. [k \in K |-> EmptyValue] \in Updates
  BY Zenon, <1>3 DEF Updates
<1>5. QED
  BY <1>2, <1>4 DEF MovedFrom, States

\* What a replicated request stores in the replicated shard is well formed.
LEMMA ReplicatedTyped ==
    ASSUME NEW rs \in [tickets : TicketMaps, state : [Keys -> Values]],
           NEW e \in Entries
    PROVE  Replicated(rs, e) \in [tickets : TicketMaps, state : [Keys -> Values]]
<1> DEFINE R == [tickets : TicketMaps, state : [Keys -> Values]]
           TS == [m_state : States, m_state_update : Updates]
           ticket == rs.tickets[e.ticket]
<1>1. /\ e.ticket \in Tickets /\ e.update \in Updates
      /\ rs.tickets \in [Tickets -> TS] /\ rs.state \in [Keys -> Values]
      /\ ticket \in TS
  BY Zenon DEF Entries, TicketMaps
<1>2. \A x \in TS : WithTicket(rs, e.ticket, x) \in R
  BY Zenon, <1>1 DEF TicketMaps, WithTicket
<1>3. [m_state |-> "prepared", m_state_update |-> e.update] \in TS
  BY Zenon, <1>1 DEF States
<1>4. MovedFrom(ticket) \in TS
  BY Zenon, <1>1, MovedFromTyped
<1>5. Written(rs.state, ticket.m_state_update) \in [Keys -> Values]
  BY <1>1 DEF Written, Updates
<1>6. [tickets |-> WithTicket(rs, e.ticket, MovedFrom(ticket)).tickets,
       state |-> Written(rs.state, ticket.m_state_update)] \in R
  BY Zenon, <1>2, <1>4, <1>5
<1>7. e.op \in {"prepare", "commit", "rollback", "finish"}
  BY Zenon DEF Entries
<1>8. QED
  BY Zenon, <1>2, <1>3, <1>6, <1>7, NoUpdateTyped DEF Replicated

-----------------------------------------------------------------------------
(* What a step does to the tables: the facts the invariants need.          *)

\* A key belongs to the shard that KeysOf lists it under.
LEMMA KeyOfShard ==
    ASSUME NEW s \in Shards, NEW k \in KeysOf(s)
    PROVE  k \in Keys /\ key_location(k) = s
BY Zenon DEF KeysOf

\* The next request of a shard's log is well formed, and so is the rest.
LEMMA EntryTyped ==
    ASSUME Typed, NEW s \in Shards, m_log[s] # <<>>
    PROVE  Head(m_log[s]) \in Entries /\ Tail(m_log[s]) \in Seq(Entries)
BY DEF Typed

\* Executing a replicated request leaves the shards well formed.
LEMMA ExecuteTyped ==
    ASSUME Typed, NEW s \in Shards, ExecuteEntry(s)
    PROVE  /\ r_state' \in [Keys -> Values]
           /\ r_tickets' \in [Shards -> TicketMaps]
           /\ m_log' \in [Shards -> Seq(Entries)]
           /\ Head(m_log[s]).ticket \in Tickets
<1> DEFINE R == [tickets : TicketMaps, state : [Keys -> Values]]
           e == Head(m_log[s])
<1>1. Replicas(s) \in R
  BY Zenon DEF Replicas, Typed
<1>2. e \in Entries /\ Tail(m_log[s]) \in Seq(Entries)
  BY Zenon, EntryTyped DEF ExecuteEntry
<1>3. Replicated(Replicas(s), e) \in R
  BY Zenon, <1>1, <1>2, ReplicatedTyped
<1>4. r_state' \in [Keys -> Values] /\ r_tickets' \in [Shards -> TicketMaps]
  BY Zenon, <1>3 DEF ExecuteEntry, Replicate, Typed
<1>5. m_log' \in [Shards -> Seq(Entries)]
  BY Zenon, <1>2 DEF ExecuteEntry, Typed
<1>6. e.ticket \in Tickets
  BY Zenon, <1>2 DEF Entries
<1>7. QED
  BY Zenon, <1>4, <1>5, <1>6

(* The lock table and the tickets after a lock was queued.                 *)
LEMMA QueuedStep ==
    ASSUME Typed, NEW s \in Shards, NEW t \in Tickets, NEW k \in KeysOf(s),
           NEW lt \in LockTypes, NEW first, TryLockQueued(s, t, k, lt, first)
    PROVE  /\ Typed'
           /\ LockExclusion => LockExclusion'
           /\ WaitsForOlder => WaitsForOlder'
<1> DEFINE wound == Wounded(s, t, k, lt)
           queued == [m_state EXCEPT ![k] = enqueue(m_state[k], t, lt)]
           K == AffectedKeys(s, wound) \cup {k}
           TS == [m_state : States, m_state_update : Updates]
<1>1. m_state' = acquire_locks(release_locks(queued, s, wound), K)
  BY Zenon DEF TryLockQueued
<1>2. k \in Keys /\ key_location(k) = s
  BY Zenon, KeyOfShard
<1>3. m_state[k] \in Elements /\ enqueue(m_state[k], t, lt) \in Elements
  BY Zenon, <1>2 DEF Typed, Elements, enqueue, LockTypes
<1>4. queued \in [Keys -> Elements]
  BY Zenon, <1>3 DEF Typed
<1>5. m_state' \in [Keys -> Elements]
  BY Zenon, <1>1, <1>4, TableTyped
<1>6. m_tickets' = [m_tickets EXCEPT ![s] = [u \in Tickets |->
              IF u \in wound THEN WithState(m_tickets[s][u], "wounded")
              ELSE IF u = t THEN WithState(m_tickets[s][u], "begun")
              ELSE m_tickets[s][u]]]
  BY Zenon DEF TryLockQueued
<1>7. \A u \in Tickets : m_tickets[s][u] \in TS
  BY Zenon DEF Typed, TicketMaps
<1>8. m_tickets' \in [Shards -> TicketMaps]
  BY Zenon, <1>6, <1>7 DEF Typed, TicketMaps, WithState, States
<1>9. Typed'
  BY Zenon, <1>5, <1>8 DEF TryLockQueued, Typed, replVars
<1>10. ASSUME LockExclusion PROVE LockExclusion'
  <2>1. \A x \in Keys : Exclusive(queued[x])
    BY <1>2, <1>10 DEF LockExclusion, Exclusive, enqueue, Typed
  <2>2. QED
    BY Zenon, <1>1, <1>4, <2>1, TableExclusive DEF LockExclusion
<1>11. ASSUME WaitsForOlder PROVE WaitsForOlder'
  <2> SUFFICES ASSUME NEW x \in Keys
               PROVE  WaitsOnlyFor(m_state'[x], PreparedOf(key_location(x))')
    BY Zenon DEF WaitsForOlder
  <2>1. try_lock_error(s, t, k, lt, first) = "ok"
    BY Zenon DEF TryLockQueued
  <2>2. m_tickets[s][t].m_state \in {"unknown", "begun"}
    BY Zenon, <2>1, <1>7 DEF try_lock_error, States
  <2>3. /\ PreparedOf(s) \cap wound = {}
        /\ t \notin PreparedOf(s)
    BY Zenon, <2>2 DEF PreparedOf, Wounded
  <2>4. \A q \in Shards : PreparedOf(q)' = PreparedOf(q)
    BY Zenon, <1>6, <1>8, <2>3 DEF PreparedOf, WithState, Typed, TicketMaps
  <2>5. key_location(x) \in Shards
    BY ShardAssumption DEF key_location, Shards
  <2>6. WaitsOnlyFor(m_state[x], PreparedOf(key_location(x)))
    BY Zenon, <1>11 DEF WaitsForOlder
  <2>7. CASE x # k
    <3>1. queued[x] = m_state[x]
      BY Zenon, <2>7 DEF Typed
    <3>2. WaitsOnlyFor(m_state'[x], PreparedOf(key_location(x)))
      BY Zenon, <1>1, <1>4, <2>6, <3>1, TableWaits
    <3>3. QED
      BY Zenon, <2>4, <2>5, <3>2
  <2>8. CASE x = k
    <3>1. queued[x] = enqueue(m_state[k], t, lt)
      BY Zenon, <1>2, <2>8 DEF Typed
    <3>2. WaitsOnlyFor(queued[x], PreparedOf(s) \cup wound)
      <4> SUFFICES ASSUME NEW w \in Tickets, queued[x].m_queue[w] # "none",
                          NEW u \in get_waiting_on(w, queued[x].m_queue[w], queued[x])
                   PROVE  u \in PreparedOf(s) \cup wound
        BY Zenon DEF WaitsOnlyFor
      <4>1. /\ queued[x].m_writer = m_state[k].m_writer
            /\ queued[x].m_readers = m_state[k].m_readers
            /\ queued[x].m_queue = [m_state[k].m_queue EXCEPT ![t] = lt]
        BY <3>1 DEF enqueue
      <4>2. u \in Tickets
        BY Zenon, <1>3, <4>1 DEF Elements, get_waiting_on
      <4>3. CASE w = t
        <5>1. u \in get_waiting_on(t, lt, m_state[k])
          BY Zenon, <4>1, <4>3, <1>3 DEF get_waiting_on, Elements
        <5>2. QED
          BY Zenon, <4>2, <5>1 DEF Wounded, PreparedOf
      <4>4. CASE w # t
        <5>1. /\ u \in get_waiting_on(w, m_state[k].m_queue[w], m_state[k])
              /\ m_state[k].m_queue[w] # "none"
          BY <4>1, <4>4, <1>3 DEF get_waiting_on, Elements
        <5>2. QED
          BY Zenon, <1>2, <2>6, <2>8, <5>1 DEF WaitsOnlyFor
      <4>5. QED
        BY Zenon, <4>3, <4>4
    <3>3. WaitsOnlyFor(m_state'[x], (PreparedOf(s) \cup wound) \ wound)
      BY Zenon, <1>1, <1>4, <2>8, <3>2, TableWaits
    <3>4. (PreparedOf(s) \cup wound) \ wound = PreparedOf(s)
      BY Zenon, <2>3
    <3>5. QED
      BY Zenon, <1>2, <2>4, <2>8, <3>3, <3>4
  <2>9. QED
    BY Zenon, <2>7, <2>8
<1>12. QED
  BY Zenon, <1>9, <1>10, <1>11

(* The lock table and the tickets after all locks of a ticket were         *)
(* released: the values may have changed, and the ticket is not prepared.  *)
SameLocks(st) ==
    \A k \in Keys : /\ st[k].m_writer = m_state[k].m_writer
                    /\ st[k].m_readers = m_state[k].m_readers
                    /\ st[k].m_queue = m_state[k].m_queue

\* A step that releases a ticket's locks and serves the queues keeps both
\* invariants (commit, rollback, finish and wounding).
LEMMA ReleasedStep ==
    ASSUME Typed, NEW s \in Shards, NEW t \in Tickets, NEW K,
           NEW st \in [Keys -> Elements], SameLocks(st),
           NEW x \in [m_state : States, m_state_update : Updates],
           m_state' = acquire_locks(release_locks(st, s, {t}), K),
           m_tickets' = [m_tickets EXCEPT ![s] = [@ EXCEPT ![t] = x]]
    PROVE  /\ m_state' \in [Keys -> Elements]
           /\ m_tickets' \in [Shards -> TicketMaps]
           /\ LockExclusion => LockExclusion'
           /\ WaitsForOlder => WaitsForOlder'
<1>1. m_state' \in [Keys -> Elements]
  BY Zenon, TableTyped
<1>2. m_tickets' \in [Shards -> TicketMaps]
  BY Zenon DEF Typed, TicketMaps
<1>3. ASSUME LockExclusion PROVE LockExclusion'
  <2>1. \A k \in Keys : Exclusive(st[k])
    BY Zenon, <1>3 DEF LockExclusion, Exclusive, SameLocks
  <2>2. QED
    BY Zenon, <2>1, TableExclusive DEF LockExclusion
<1>4. ASSUME WaitsForOlder PROVE WaitsForOlder'
  <2> SUFFICES ASSUME NEW k \in Keys
               PROVE  WaitsOnlyFor(m_state'[k], PreparedOf(key_location(k))')
    BY Zenon DEF WaitsForOlder
  <2>1. key_location(k) \in Shards
    BY ShardAssumption DEF key_location, Shards
  <2>2. /\ \A q \in Shards \ {s} : PreparedOf(q)' = PreparedOf(q)
        /\ PreparedOf(s) \ {t} \subseteq PreparedOf(s)'
    BY Zenon DEF PreparedOf, Typed, TicketMaps
  <2>3. WaitsOnlyFor(m_state[k], PreparedOf(key_location(k)))
    BY Zenon, <1>4 DEF WaitsForOlder
  <2>4. WaitsOnlyFor(st[k], PreparedOf(key_location(k)))
    BY Zenon, <2>3 DEF WaitsOnlyFor, get_waiting_on, SameLocks
  <2>5. /\ WaitsOnlyFor(m_state'[k], PreparedOf(key_location(k)))
        /\ k \in KeysOf(s) =>
             WaitsOnlyFor(m_state'[k], PreparedOf(key_location(k)) \ {t})
    BY Zenon, <2>4, TableWaits
  <2>6. CASE key_location(k) = s
    <3>1. k \in KeysOf(s)
      BY Zenon, <2>6 DEF KeysOf
    <3>2. QED
      BY Zenon, <2>2, <2>5, <2>6, <3>1, FewerWaits
  <2>7. CASE key_location(k) # s
    BY Zenon, <2>1, <2>2, <2>5, <2>7
  <2>8. QED
    BY Zenon, <2>6, <2>7
<1>5. QED
  BY Zenon, <1>1, <1>2, <1>3, <1>4

(* A step that leaves the lock table alone and takes no ticket out of the  *)
(* prepared state.                                                         *)
LEMMA UnlockedStep ==
    ASSUME Typed, m_state' = m_state,
           \A q \in Shards : PreparedOf(q) \subseteq PreparedOf(q)'
    PROVE  /\ LockExclusion => LockExclusion'
           /\ WaitsForOlder => WaitsForOlder'
<1>1. LockExclusion => LockExclusion'
  BY Zenon DEF LockExclusion
<1>2. \A k \in Keys : key_location(k) \in Shards
  BY ShardAssumption DEF key_location, Shards
<1>3. WaitsForOlder => WaitsForOlder'
  BY Zenon, <1>2, FewerWaits DEF WaitsForOlder
<1>4. QED
  BY Zenon, <1>1, <1>3

(* A leader that starts has nobody waiting for the locks of its shard.     *)
LEMMA LeadStep ==
    ASSUME Typed, NEW s \in Shards,
           NEW rs \in [tickets : TicketMaps, state : [Keys -> Values]],
           LeadFrom(s, rs)
    PROVE  /\ Typed'
           /\ WaitsForOlder => WaitsForOlder'
           /\ LockExclusion /\ ReplicasDisjoint' => LockExclusion'
<1> DEFINE holders(k) == {t \in Tickets :
                            /\ rs.tickets[t].m_state = "prepared"
                            /\ k \in DOMAIN rs.tickets[t].m_state_update}
<1>1. /\ m_state' = Recovered(s, rs)
      /\ m_tickets' = [m_tickets EXCEPT ![s] = rs.tickets]
      /\ r_tickets' = [r_tickets EXCEPT ![s] = rs.tickets]
      /\ r_state' = rs.state
      /\ m_log' = [m_log EXCEPT ![s] = <<>>]
  BY Zenon DEF LeadFrom, Replicate
<1>2. \A k \in Keys : m_state'[k] = IF k \notin KeysOf(s) THEN m_state[k]
        ELSE [m_value |-> rs.state[k], m_writer |-> holders(k),
              m_readers |-> {}, m_queue |-> [t \in Tickets |-> "none"]]
  BY Zenon, <1>1 DEF Recovered
<1> DEFINE el(k) == [m_value |-> rs.state[k], m_writer |-> holders(k),
                     m_readers |-> {}, m_queue |-> [t \in Tickets |-> "none"]]
<1>8. \A k \in Keys : k \notin KeysOf(s) => m_state'[k] = m_state[k]
  BY Zenon, <1>2
<1>9. \A k \in KeysOf(s) : /\ m_state'[k].m_writer = holders(k)
                           /\ m_state'[k].m_readers = {}
                           /\ m_state'[k].m_queue = [t \in Tickets |-> "none"]
  <2> TAKE k \in KeysOf(s)
  <2>1. m_state'[k] = el(k)
    BY Zenon, <1>2, KeyOfShard
  <2>2. ASSUME NEW v, NEW W, NEW Q
        PROVE  LET e == [m_value |-> v, m_writer |-> W, m_readers |-> {}, m_queue |-> Q]
               IN e.m_writer = W /\ e.m_readers = {} /\ e.m_queue = Q
    BY Zenon
  <2> HIDE DEF holders
  <2>3. /\ el(k).m_writer = holders(k)
        /\ el(k).m_readers = {}
        /\ el(k).m_queue = [t \in Tickets |-> "none"]
    BY Zenon, <2>2
  <2>4. QED
    BY Zenon, <2>1, <2>3
<1>3. m_state' \in [Keys -> Elements]
  BY Zenon, <1>1, <1>2 DEF Recovered, Typed, Elements, LockTypes
<1>4. Typed'
  BY <1>1, <1>3 DEF Typed
<1>5. ASSUME WaitsForOlder PROVE WaitsForOlder'
  <2>1. \A q \in Shards \ {s} : PreparedOf(q)' = PreparedOf(q)
    BY Zenon, <1>1 DEF PreparedOf, Typed
  <2>2. \A k \in Keys : key_location(k) \in Shards
    BY ShardAssumption DEF key_location, Shards
  <2>3. ASSUME NEW k \in Keys, key_location(k) # s
        PROVE  WaitsOnlyFor(m_state'[k], PreparedOf(key_location(k))')
    <3>1. m_state'[k] = m_state[k]
      BY Zenon, <1>8, <2>3 DEF KeysOf
    <3>2. QED
      BY Zenon, <1>5, <2>1, <2>2, <2>3, <3>1 DEF WaitsForOlder
  <2>4. ASSUME NEW k \in Keys, key_location(k) = s
        PROVE  WaitsOnlyFor(m_state'[k], PreparedOf(key_location(k))')
    <3>1. m_state'[k].m_queue = [t \in Tickets |-> "none"]
      BY Zenon, <1>9, <2>4 DEF KeysOf
    <3>2. QED
      BY Zenon, <3>1 DEF WaitsOnlyFor
  <2>5. QED
    BY Zenon, <2>3, <2>4 DEF WaitsForOlder
<1>6. ASSUME LockExclusion, ReplicasDisjoint' PROVE LockExclusion'
  <2>1. \A k \in Keys : \A t, u \in holders(k) : t = u
    <3> SUFFICES ASSUME NEW k \in Keys, NEW t \in holders(k), NEW u \in holders(k),
                        t # u
                 PROVE  FALSE
      BY Zenon
    <3>1. r_tickets'[s] = rs.tickets
      BY Zenon, <1>1 DEF Typed
    <3>2. DOMAIN rs.tickets[t].m_state_update
            \cap DOMAIN rs.tickets[u].m_state_update = {}
      BY Zenon, <1>6, <3>1 DEF ReplicasDisjoint
    <3>3. QED
      BY Zenon, <3>2
  <2>2. \A k \in Keys : Exclusive(m_state'[k])
    <3> SUFFICES ASSUME NEW k \in Keys PROVE Exclusive(m_state'[k])
      BY Zenon
    <3>1. CASE k \in KeysOf(s)
      BY Zenon, <1>9, <2>1, <3>1 DEF Exclusive
    <3>2. CASE k \notin KeysOf(s)
      BY Zenon, <1>6, <1>8, <3>2 DEF LockExclusion
    <3>3. QED
      BY Zenon, <3>1, <3>2
  <2>3. QED
    BY Zenon, <2>2 DEF LockExclusion
<1>7. QED
  BY Zenon, <1>4, <1>5, <1>6

-----------------------------------------------------------------------------
(* The executed entries.                                                   *)

\* An executed request keeps both invariants, whichever it is.
LEMMA EntryStep ==
    ASSUME Typed, NEW s \in Shards, EntryExecuted(s)
    PROVE  /\ Typed'
           /\ LockExclusion => LockExclusion'
           /\ WaitsForOlder => WaitsForOlder'
<1> DEFINE TS == [m_state : States, m_state_update : Updates]
           t == Head(m_log[s]).ticket
<1>1. ExecuteEntry(s)
  BY Zenon DEF EntryExecuted, PrepareReplicated, CommitReplicated,
         RollbackReplicated, FinishReplicated
<1>2. /\ r_state' \in [Keys -> Values]
      /\ r_tickets' \in [Shards -> TicketMaps]
      /\ m_log' \in [Shards -> Seq(Entries)]
      /\ t \in Tickets
  BY Zenon, <1>1, ExecuteTyped
<1> HIDE DEF t
<1>3. \A q \in Shards, u \in Tickets : m_tickets[q][u] \in TS
  BY Zenon DEF Typed, TicketMaps
<1>4. CASE UNCHANGED lockVars
  <2>1. Typed'
    BY Zenon, <1>2, <1>4 DEF Typed, lockVars
  <2>2. \A q \in Shards : PreparedOf(q)' = PreparedOf(q)
    BY Zenon, <1>4 DEF PreparedOf, lockVars
  <2>3. QED
    BY Zenon, <1>4, <2>1, <2>2, UnlockedStep DEF lockVars
<1>5. CASE CommitReplicated(s) /\ commit_error(s, t) = "ok"
  <2> DEFINE update == m_tickets[s][t].m_state_update
             written == [k \in Keys |-> IF k \in DOMAIN update
                            THEN WithValue(m_state[k], update[k])
                            ELSE m_state[k]]
             x == MovedFrom(m_tickets[s][t])
  <2>1. /\ m_state' = acquire_locks(release_locks(written, s, {t}),
                                    AffectedKeys(s, {t}))
        /\ m_tickets' = [m_tickets EXCEPT ![s] = [@ EXCEPT ![t] = x]]
    BY Zenon, <1>5 DEF CommitReplicated, t
  <2>2. update \in Updates
    BY Zenon, <1>2, <1>3
  <2>3. \A k \in DOMAIN update : k \in Keys => update[k] \in Values
    BY Zenon, <2>2 DEF Updates
  <2>4. ASSUME NEW k \in Keys, NEW v \in Values
        PROVE  WithValue(m_state[k], v) \in Elements
    BY Zenon DEF WithValue, Elements, Typed
  <2>5. \A k \in Keys : m_state[k] \in Elements
    BY Zenon DEF Typed
  <2> HIDE DEF update
  <2>6. written \in [Keys -> Elements]
    BY Zenon, <2>3, <2>4, <2>5
  <2>7. SameLocks(written)
    BY Zenon DEF SameLocks, WithValue
  <2>8. x \in TS
    BY Zenon, <1>2, <1>3, MovedFromTyped
  <2> HIDE DEF written, x
  <2>9. /\ m_state' \in [Keys -> Elements]
        /\ m_tickets' \in [Shards -> TicketMaps]
        /\ LockExclusion => LockExclusion'
        /\ WaitsForOlder => WaitsForOlder'
    BY Zenon, <1>2, <2>1, <2>6, <2>7, <2>8, ReleasedStep
  <2>10. QED
    BY Zenon, <1>2, <2>9 DEF Typed
<1>6. CASE RollbackReplicated(s) /\ m_tickets[s][t].m_state # "unknown"
  <2>1. /\ m_state' = acquire_locks(release_locks(m_state, s, {t}),
                                    AffectedKeys(s, {t}))
        /\ m_tickets' = [m_tickets EXCEPT ![s] = [@ EXCEPT ![t] = NoTicketState]]
    BY Zenon, <1>6 DEF RollbackReplicated, t
  <2>2. SameLocks(m_state) /\ m_state \in [Keys -> Elements]
    BY Zenon DEF SameLocks, Typed
  <2>3. /\ m_state' \in [Keys -> Elements]
        /\ m_tickets' \in [Shards -> TicketMaps]
        /\ LockExclusion => LockExclusion'
        /\ WaitsForOlder => WaitsForOlder'
    BY Zenon, <1>2, <2>1, <2>2, NoUpdateTyped, ReleasedStep
  <2>4. QED
    BY Zenon, <1>2, <2>3 DEF Typed
<1>7. CASE FinishReplicated(s) /\ finish_error(s, t) = "ok"
  <2>1. /\ m_state' = m_state
        /\ m_tickets' = [m_tickets EXCEPT ![s] = [@ EXCEPT ![t] = NoTicketState]]
    BY Zenon, <1>7 DEF FinishReplicated, t
  <2>2. m_tickets[s][t].m_state = "committed"
    BY Zenon, <1>7 DEF finish_error
  <2>3. m_tickets' \in [Shards -> TicketMaps]
    BY Zenon, <1>2, <2>1, NoUpdateTyped DEF Typed, TicketMaps
  <2>4. Typed'
    BY Zenon, <1>2, <2>1, <2>3 DEF Typed
  <2>5. \A q \in Shards : PreparedOf(q) \subseteq PreparedOf(q)'
    BY Zenon, <2>1, <2>2 DEF PreparedOf, Typed, TicketMaps
  <2>6. QED
    BY Zenon, <2>1, <2>4, <2>5, UnlockedStep
<1>8. PrepareReplicated(s) => UNCHANGED lockVars
  BY Zenon DEF PrepareReplicated
<1>9. CommitReplicated(s) => commit_error(s, t) = "ok" \/ UNCHANGED lockVars
  BY Zenon DEF CommitReplicated, t
<1>10. RollbackReplicated(s) =>
         m_tickets[s][t].m_state # "unknown" \/ UNCHANGED lockVars
  BY Zenon DEF RollbackReplicated, t
<1>11. FinishReplicated(s) => finish_error(s, t) = "ok" \/ UNCHANGED lockVars
  BY Zenon DEF FinishReplicated, t, lockVars
<1>12. QED
  BY Zenon, <1>4, <1>5, <1>6, <1>7, <1>8, <1>9, <1>10, <1>11 DEF EntryExecuted

(* The requests that replicate an entry.                                   *)
\* A prepare request keeps both invariants, refused or replicated.
LEMMA PrepareStep ==
    ASSUME Typed, NEW s \in Shards, NEW t \in Tickets, NEW update \in Updates,
           PrepareRequest(s, t, update)
    PROVE  /\ Typed'
           /\ LockExclusion => LockExclusion'
           /\ WaitsForOlder => WaitsForOlder'
<1>1. CASE prepare_error(s, t, update) # "ok"
  <2>1. UNCHANGED <<lockVars, replVars, m_log>>
    BY Zenon, <1>1 DEF PrepareRequest
  <2>2. Typed'
    BY Zenon, <2>1 DEF Typed, lockVars, replVars
  <2>3. \A q \in Shards : PreparedOf(q)' = PreparedOf(q)
    BY Zenon, <2>1 DEF PreparedOf, lockVars
  <2>4. QED
    BY Zenon, <2>1, <2>2, <2>3, UnlockedStep DEF lockVars
<1>2. CASE prepare_error(s, t, update) = "ok"
  <2> DEFINE x == [m_state |-> "prepared", m_state_update |-> update]
             e == Entry("prepare", t, update)
  <2>1. /\ m_tickets' = [m_tickets EXCEPT ![s] = [@ EXCEPT ![t] = x]]
        /\ m_log' = [m_log EXCEPT ![s] = Append(@, e)]
        /\ m_state' = m_state /\ UNCHANGED replVars
    BY Zenon, <1>2 DEF PrepareRequest
  <2>2. x \in [m_state : States, m_state_update : Updates] /\ e \in Entries
    BY Zenon DEF States, Entries, Entry
  <2>3. m_log' \in [Shards -> Seq(Entries)]
    BY <2>1, <2>2 DEF Typed
  <2>4. m_tickets' \in [Shards -> TicketMaps]
    BY Zenon, <2>1, <2>2 DEF Typed, TicketMaps
  <2>5. Typed'
    BY Zenon, <2>1, <2>3, <2>4 DEF Typed, replVars
  <2>6. \A q \in Shards : PreparedOf(q) \subseteq PreparedOf(q)'
    BY Zenon, <2>1 DEF PreparedOf, Typed, TicketMaps
  <2>7. QED
    BY Zenon, <2>1, <2>5, <2>6, UnlockedStep
<1>3. QED
  BY Zenon, <1>1, <1>2

\* Sending a request to the replicated log leaves the locks alone.
LEMMA ReplicateStep ==
    ASSUME Typed, NEW s \in Shards, NEW t \in Tickets,
           NEW op \in {"commit", "rollback", "finish"}, ReplicateRequest(s, op, t)
    PROVE  Typed' /\ UNCHANGED lockVars
<1>1. Entry(op, t, NoUpdate) \in Entries
  BY Zenon, NoUpdateTyped DEF Entry, Entries
<1>2. m_log' \in [Shards -> Seq(Entries)]
  BY <1>1 DEF ReplicateRequest, Typed
<1>3. QED
  BY Zenon, <1>2 DEF ReplicateRequest, Typed, lockVars, replVars

-----------------------------------------------------------------------------
(* A step of the shards preserves the invariants; exclusion asks that the  *)
(* replicated shards are disjoint when a leader starts from one.           *)
LEMMA StepPreserves ==
    ASSUME Typed, [ShardNext]_shardVars
    PROVE  /\ Typed'
           /\ LockExclusion /\ ReplicasDisjoint' => LockExclusion'
           /\ WaitsForOlder => WaitsForOlder'
<1>1. ASSUME UNCHANGED lockVars, Typed'
      PROVE  /\ LockExclusion => LockExclusion'
             /\ WaitsForOlder => WaitsForOlder'
  <2>1. \A q \in Shards : PreparedOf(q)' = PreparedOf(q)
    BY Zenon, <1>1 DEF PreparedOf, lockVars
  <2>2. QED
    BY Zenon, <1>1, <2>1, UnlockedStep DEF lockVars
<1>2. ASSUME NEW s \in Shards, NEW t \in Tickets, NEW k \in KeysOf(s),
             NEW lt \in LockTypes, NEW first \in BOOLEAN,
             try_lock(s, t, k, lt, first)
      PROVE  /\ Typed'
             /\ LockExclusion => LockExclusion'
             /\ WaitsForOlder => WaitsForOlder'
  <2>1. CASE TryLockRefused(s, t, k, lt, first)
    <3>1. UNCHANGED lockVars /\ Typed'
      BY Zenon, <2>1 DEF TryLockRefused, Typed, lockVars, replVars
    <3>2. QED
      BY Zenon, <1>1, <3>1
  <2>2. CASE TryLockQueued(s, t, k, lt, first)
    BY Zenon, <2>2, QueuedStep
  <2>3. QED
    BY Zenon, <1>2, <2>1, <2>2 DEF try_lock
<1>3. ASSUME NEW s \in Shards, NEW t \in Tickets,
             NEW op \in {"commit", "rollback", "finish"},
             ReplicateRequest(s, op, t)
      PROVE  /\ Typed'
             /\ LockExclusion => LockExclusion'
             /\ WaitsForOlder => WaitsForOlder'
  BY Zenon, <1>1, <1>3, ReplicateStep
<1>4. CASE BrokersAct
  <2>1. UNCHANGED lockVars /\ Typed'
    BY Zenon, <1>4 DEF BrokersAct, Typed, lockVars, replVars
  <2>2. QED
    BY Zenon, <1>1, <2>1
<1>5. CASE UNCHANGED shardVars
  <2>1. UNCHANGED lockVars /\ Typed'
    BY Zenon, <1>5 DEF shardVars, Typed, lockVars, replVars
  <2>2. QED
    BY Zenon, <1>1, <2>1
<1>6. QED
  BY Zenon, <1>2, <1>3, <1>4, <1>5, PrepareStep, EntryStep, LeadStep DEF ShardNext

\* No lock is held or waited for before the first request.
LEMMA InitHolds == ShardInit => LockExclusion /\ WaitsForOlder
BY DEF ShardInit, FreshElement, LockExclusion, Exclusive, WaitsForOlder,
       WaitsOnlyFor

(* A ticket that waits for a lock waits for older tickets and for prepared *)
(* ones, whatever requests the shards get and whatever a new leader finds: *)
(* try_lock wounds every other holder, and acquire_lock passes no older    *)
(* ticket over.                                                            *)
THEOREM OlderFirst == ShardSpec => []WaitsForOlder
<1>1. Typed /\ WaitsForOlder /\ [ShardNext]_shardVars => Typed' /\ WaitsForOlder'
  BY Zenon, StepPreserves
<1>2. QED
  BY <1>1, InitTyped, InitHolds, PTL DEF ShardSpec

(* Locks are exclusive, as long as the tickets prepared in a replicated    *)
(* shard update different keys.                                            *)
THEOREM ExclusiveLocks == ShardSpec /\ []ReplicasDisjoint => []LockExclusion
<1>1. Typed /\ LockExclusion /\ ReplicasDisjoint' /\ [ShardNext]_shardVars
        => Typed' /\ LockExclusion'
  BY Zenon, StepPreserves
<1>2. QED
  BY <1>1, InitTyped, InitHolds, PTL DEF ShardSpec
=============================================================================

------------------------------ MODULE CacheSet ------------------------------
(***************************************************************************)
(* cache_set (src/src/util/common/cache_set.hpp): the bounded set in which *)
(* a locking shard remembers the transaction IDs check_tx_id answers true  *)
(* for.  m_vals is a hash set, m_eviction_queue the order of insertion.    *)
(***************************************************************************)
EXTENDS Naturals, Sequences, SequencesExt

CONSTANTS
    Value,
    m_max_size,
    MaxAdds     \* bound on the successful calls of add

ASSUME CacheSetAssumption == m_max_size \in Nat \ {0} /\ MaxAdds \in Nat

VARIABLES
    m_vals, m_eviction_queue,
    added   \* history: the values add returned true for, oldest first

cacheVars == <<m_vals, m_eviction_queue, added>>

CacheInit == m_vals = {} /\ m_eviction_queue = <<>> /\ added = <<>>

contains(v) == v \in m_vals

\* (Faulty: a value that is present is pushed again.)
PushPresent(v) ==
    /\ contains(v)
    /\ Len(m_eviction_queue) < m_max_size
    /\ m_eviction_queue' = Append(m_eviction_queue, v)
    /\ UNCHANGED <<m_vals, added>>

\* A new value is pushed, then the oldest one is evicted if the queue has
\* reached m_max_size.
add(v) ==
    /\ ~contains(v)
    /\ Len(added) < MaxAdds
    /\ LET pushed == Append(m_eviction_queue, v)
       IN IF Len(pushed) >= m_max_size
          THEN /\ m_eviction_queue' = Tail(pushed)
               /\ m_vals' = (m_vals \cup {v}) \ {Head(pushed)}
          ELSE /\ m_eviction_queue' = pushed
               /\ m_vals' = m_vals \cup {v}
    /\ added' = Append(added, v)

\* A value that is present is not moved to the back of the queue.
AddPresent(v) == contains(v) /\ UNCHANGED cacheVars

CacheNext == \E v \in Value : add(v) \/ AddPresent(v)

CacheSpec == CacheInit /\ [][CacheNext]_cacheVars

-----------------------------------------------------------------------------
\* The n values inserted last, however often they were evicted before.
NewestValues(n) ==
    {added[i] : i \in {k \in DOMAIN added : k > Len(added) - n}}

(***************************************************************************)
(* Eviction is first in, first out: what the set holds is what was added   *)
(* last, each value once and the one just added among them, the queue and  *)
(* the hash set agree, and the queue is within the bound that add asserts  *)
(* (cache_set::add).  How many values that are is left open: the class is  *)
(* documented to evict when it has m_max_size values (cache_set.hpp:17),   *)
(* and add evicts at one less, so that a cache of one value is empty.      *)
(***************************************************************************)
EvictsOldest ==
    /\ m_vals = ToSet(m_eviction_queue)
    /\ IsInjective(m_eviction_queue)
    /\ Len(m_eviction_queue) <= m_max_size
    /\ m_vals = NewestValues(Len(m_eviction_queue))
    /\ m_max_size > 1 /\ added # <<>> => added[Len(added)] \in m_vals
=============================================================================

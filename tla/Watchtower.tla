----------------------------- MODULE Watchtower -----------------------------
(***************************************************************************)
(* The watchtower (src/src/uhs/atomizer/watchtower): a cache of the last   *)
(* m_k_blks blocks, a cache of the last m_k_errs errors, and the statuses  *)
(* clients get from the two.  Shards and atomizer report errors, also      *)
(* about a transaction they see a second time after it settled.            *)
(*                                                                         *)
(* The caches have their own mutexes, taken for a whole call.  A report of *)
(* several errors is filtered by the block cache only and pushed one by    *)
(* one: it is as many reports of one error.                                *)
(***************************************************************************)
EXTENDS Transactions, Naturals, Sequences, SequencesExt

CONSTANTS
    m_k_blks, m_k_errs,     \* the sizes of the two caches; 0: no limit
    MaxBlocks, MaxErrors    \* bounds on blocks and on reports

ASSUME WatchtowerAssumption ==
    /\ {m_k_blks, m_k_errs, MaxBlocks, MaxErrors} \subseteq Nat

VARIABLES
    m_blks,             \* block_cache: the cached blocks, oldest first
    m_spent_ids, m_unspent_ids, \* UHS ID -> height and transaction
    m_errs,             \* error_cache: the cached errors, oldest first
    m_tx_id_errs, m_uhs_errs,   \* transaction or UHS ID -> error
    chain,              \* history: the transactions of every block
    reports             \* the number of reports, for the bound

blockVars == <<m_blks, m_spent_ids, m_unspent_ids, chain>>
errorVars == <<m_errs, m_tx_id_errs, m_uhs_errs, reports>>
watchtowerVars == <<blockVars, errorVars>>

None == <<>>    \* no entry in a map

\* tx_error: shards report tx_error_sync and tx_error_inputs_dne, the atomizer
\* the others.
tx_error ==
    [tx_id : Tx, info : {"sync", "stxo_range", "incomplete"},
     input_uhs_ids : {{}}]
    \cup {e \in [tx_id : Tx, info : {"inputs_dne", "inputs_spent"},
                 input_uhs_ids : SUBSET UhsId] :
            e.input_uhs_ids # {} /\ e.input_uhs_ids \subseteq m_inputs[e.tx_id]}

WatchtowerInit ==
    /\ m_blks = <<>>
    /\ m_spent_ids = [id \in UhsId |-> None]
    /\ m_unspent_ids = [id \in UhsId |-> None]
    /\ m_errs = <<>>
    /\ m_tx_id_errs = [t \in Tx |-> None]
    /\ m_uhs_errs = [id \in UhsId |-> None]
    /\ chain = <<>>
    /\ reports = 0

-----------------------------------------------------------------------------
InputsOf(blk) == UNION {m_inputs[t] : t \in blk.m_transactions}

OutputsOf(blk) == UNION {m_uhs_outputs[t] : t \in blk.m_transactions}

Erase(map, keys) == [k \in DOMAIN map |-> IF k \in keys THEN None ELSE map[k]]

\* unordered_map::insert: an entry that is there stays.
Insert(map, keys, value) ==
    [k \in DOMAIN map |->
        IF k \in keys /\ map[k] = None THEN value ELSE map[k]]

\* The height and the transaction of blk in which the hashes of(t) occur.
InsertBlock(map, blk, of) ==
    [id \in UhsId |->
        IF map[id] = None /\ \E t \in blk.m_transactions : id \in of[t]
        THEN <<blk.m_height,
               CHOOSE t \in blk.m_transactions : id \in of[t]>>
        ELSE map[id]]

\* The oldest element leaves a full cache.
Full(cache, k) == k # 0 /\ Len(cache) = k

Pushed(cache, k, x) ==
    IF Full(cache, k) THEN Append(Tail(cache), x) ELSE Append(cache, x)

\* The outputs of the block that leaves the cache.
EvictedOutputs(blks) == IF Full(blks, m_k_blks) THEN OutputsOf(Head(blks)) ELSE {}

EvictedInputs(blks) == IF Full(blks, m_k_blks) THEN InputsOf(Head(blks)) ELSE {}

\* The hashes that were unspent and still are.
StillUnspent(blk) ==
    Erase(m_unspent_ids, EvictedOutputs(m_blks) \cup InputsOf(blk))

\* watchtower::add_block and block_cache::push_block.
add_block(txs) ==
    LET blk == [m_height |-> Len(chain) + 1, m_transactions |-> txs]
    IN  /\ Len(chain) < MaxBlocks
        /\ m_spent_ids' = InsertBlock(Erase(m_spent_ids, EvictedInputs(m_blks)),
                                      blk, m_inputs)
        /\ m_unspent_ids' = InsertBlock(StillUnspent(blk), blk, m_uhs_outputs)
        /\ m_blks' = Pushed(m_blks, m_k_blks, blk)
        /\ chain' = Append(chain, txs)
        /\ UNCHANGED errorVars

best_block_height == Len(chain)

-----------------------------------------------------------------------------
\* (Faulty: nothing is filtered.)
repeated_tx_filter_off(e) == FALSE

\* An error about an input that the transaction itself spent (or created) in a
\* cached block.  Only two kinds of error are filtered.
repeated_tx_filter(e) ==
    \E id \in e.input_uhs_ids :
        \/ m_spent_ids[id] # None /\ m_spent_ids[id][2] = e.tx_id
        \/ m_unspent_ids[id] # None /\ m_unspent_ids[id][2] = e.tx_id

\* The keys of the entries that leave with the oldest error: by key, not by
\* entry, so an entry of a younger error may leave too.
EvictedTx == IF Full(m_errs, m_k_errs) THEN {Head(m_errs).tx_id} ELSE {}

EvictedHashes == IF Full(m_errs, m_k_errs) THEN Head(m_errs).input_uhs_ids ELSE {}

\* watchtower::add_errors and error_cache::push_errors.
add_errors(e) ==
    /\ reports < MaxErrors
    /\ reports' = reports + 1
    /\ \/ repeated_tx_filter(e) /\ UNCHANGED <<m_errs, m_tx_id_errs, m_uhs_errs>>
       \/ /\ ~repeated_tx_filter(e)
          /\ m_errs' = Pushed(m_errs, m_k_errs, e)
          /\ m_tx_id_errs' = Insert(Erase(m_tx_id_errs, EvictedTx), {e.tx_id}, e)
          /\ m_uhs_errs' = Insert(Erase(m_uhs_errs, EvictedHashes),
                                  e.input_uhs_ids, e)
    /\ UNCHANGED blockVars

-----------------------------------------------------------------------------
\* check_uhs_id_statuses: the statuses of a hash in a request about t.
ErrorStatuses(t, id) ==
    IF m_tx_id_errs[t] = None THEN {}
    ELSE IF m_tx_id_errs[t].info \in {"sync", "stxo_range"} THEN {"internal_error"}
    ELSE IF m_uhs_errs[id] # None THEN {"invalid_input"}
    ELSE {"tx_rejected"}

\* (Faulty: the transaction is not compared.)
BlockStatusesOfAny(t, id) ==
    IF m_spent_ids[id] # None THEN {"spent"}
    ELSE IF m_unspent_ids[id] # None THEN {"unspent"}
    ELSE {}

BlockStatuses(t, id) ==
    IF m_spent_ids[id] # None
    THEN IF m_spent_ids[id][2] = t THEN {"spent"} ELSE {}
    ELSE IF m_unspent_ids[id] # None /\ m_unspent_ids[id][2] = t THEN {"unspent"}
    ELSE {}

\* handle_status_update_request, for one transaction and one hash.
handle_status_update_request(t, id) ==
    LET found == ErrorStatuses(t, id) \cup BlockStatuses(t, id)
    IN  IF found = {} THEN {"no_history"} ELSE found

-----------------------------------------------------------------------------
\* The environment: blocks of the atomizer spend what is unspent and settle a
\* transaction once.
Settled == UNION ToSet(chain)

Unspent ==
    (Seed \cup UNION {m_uhs_outputs[t] : t \in Settled})
        \ UNION {m_inputs[t] : t \in Settled}

MayBeBlock(txs) ==
    /\ \A t \in txs : m_inputs[t] \subseteq Unspent /\ t \notin Settled
    /\ \A t, u \in txs : t # u => ~Conflict(t, u)

WatchtowerNext ==
    \/ \E txs \in SUBSET Tx : MayBeBlock(txs) /\ add_block(txs)
    \/ \E e \in tx_error : add_errors(e)

WatchtowerSpec == WatchtowerInit /\ [][WatchtowerNext]_watchtowerVars

-----------------------------------------------------------------------------
\* The caches hold well-formed entries and do not exceed their sizes.
WatchtowerTypeOK ==
    /\ m_k_blks # 0 => Len(m_blks) <= m_k_blks
    /\ m_k_errs # 0 => Len(m_errs) <= m_k_errs
    /\ ToSet(m_errs) \subseteq tx_error
    /\ \A id \in UhsId :
        /\ m_spent_ids[id] = None \/ m_spent_ids[id] \in (1..MaxBlocks) \X Tx
        /\ m_unspent_ids[id] = None \/ m_unspent_ids[id] \in (1..MaxBlocks) \X Tx

(***************************************************************************)
(* What the watchtower says of a hash is true of the whole chain, not only *)
(* of the blocks it still has: a hash it calls unspent was created by that *)
(* transaction and is unspent now, one it calls spent was spent by it, and *)
(* the transaction is in the block of the height it gives (push_block,     *)
(* check_uhs_id_statuses).                                                 *)
(***************************************************************************)
StatusIsTrue ==
    \A t \in Tx, id \in UhsId :
        LET statuses == handle_status_update_request(t, id)
        IN  /\ "unspent" \in statuses =>
                /\ id \in m_uhs_outputs[t] \cap Unspent
                /\ t \in chain[m_unspent_ids[id][1]]
            /\ "spent" \in statuses =>
                /\ id \in m_inputs[t]
                /\ t \in chain[m_spent_ids[id][1]]

(***************************************************************************)
(* The maps of the block cache are those of the blocks it has: nothing is  *)
(* remembered of a block that left it (push_block).                        *)
(***************************************************************************)
BlockMapsMatch ==
    \A id \in UhsId :
        /\ m_spent_ids[id] # None <=> \E b \in ToSet(m_blks) : id \in InputsOf(b)
        /\ m_unspent_ids[id] # None <=>
            /\ \E b \in ToSet(m_blks) : id \in OutputsOf(b)
            /\ \A b \in ToSet(m_blks) : id \notin InputsOf(b)

(***************************************************************************)
(* Entries of the error maps are errors that are still in the cache.  Only *)
(* this direction holds: an error whose transaction had an earlier one may *)
(* lose its entry with it (push_errors).                                   *)
(***************************************************************************)
ErrorMapsBounded ==
    /\ \A t \in Tx : m_tx_id_errs[t] # None => m_tx_id_errs[t] \in ToSet(m_errs)
    /\ \A id \in UhsId : m_uhs_errs[id] # None => m_uhs_errs[id] \in ToSet(m_errs)

(***************************************************************************)
(* A transaction in a cached block is not rejected afterwards: a second    *)
(* notification makes shards and atomizer report its inputs as spent, and  *)
(* add_errors drops that report.  An "incomplete" error also answers       *)
(* tx_rejected and is not filtered; it is left out here, since only        *)
(* atomizer::insert can lead to one and no process calls it.               *)
(***************************************************************************)
Cached(t) == \E b \in ToSet(m_blks) : t \in b.m_transactions

Rejected(t) ==
    /\ m_tx_id_errs[t] # None
    /\ m_tx_id_errs[t].info \in {"inputs_dne", "inputs_spent"}

SettledIsNotRejected ==
    [][\A t \in Tx : Cached(t) /\ Rejected(t)' => Rejected(t)]_watchtowerVars

(***************************************************************************)
(* The caches are sound: well-formed, bounded, indexed by what they hold,  *)
(* and truthful in every answer of handle_status_update_request.           *)
(***************************************************************************)
WatchtowerSound ==
    WatchtowerTypeOK /\ BlockMapsMatch /\ ErrorMapsBounded /\ StatusIsTrue
=============================================================================

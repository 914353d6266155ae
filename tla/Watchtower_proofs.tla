-------------------------- MODULE Watchtower_proofs --------------------------
(***************************************************************************)
(* The watchtower's answers are true, for every size of its caches.        *)
(*                                                                         *)
(* The blocks it has are the last ones of the chain, the heights in        *)
(* Window.  That nothing is remembered of an evicted block, and that no    *)
(* eviction takes an entry of a block that stays, rests on the chain: each *)
(* transaction settles once, each hash is spent once and only after the    *)
(* block that creates it.                                                  *)
(***************************************************************************)
EXTENDS Watchtower, TLAPS

Window == (Len(chain) - Len(m_blks) + 1)..Len(chain)

ChainTrue ==
    /\ chain \in Seq(SUBSET Tx) /\ Len(chain) <= MaxBlocks
    /\ \A i, j \in 1..Len(chain) : \A t \in chain[i], u \in chain[j] :
        (t = u => i = j) /\ (t # u => m_inputs[t] \cap m_inputs[u] = {})
    /\ \A i \in 1..Len(chain) : \A t \in chain[i] : \A id \in m_inputs[t] :
        \/ id \in Seed
        \/ \E j \in 1..(i - 1) : \E u \in chain[j] : id \in m_uhs_outputs[u]

BlocksTrue ==
    /\ m_blks \in Seq([m_height : Nat, m_transactions : SUBSET Tx])
    /\ Len(m_blks) <= Len(chain)
    /\ m_k_blks # 0 => Len(m_blks) <= m_k_blks
    /\ \A i \in 1..Len(m_blks) :
        m_blks[i].m_transactions = chain[Len(chain) - Len(m_blks) + i]

SpentTrue ==
    /\ DOMAIN m_spent_ids = UhsId
    /\ \A id \in UhsId : m_spent_ids[id] # None =>
        \E h \in Window : \E t \in chain[h] :
            m_spent_ids[id] = <<h, t>> /\ id \in m_inputs[t]
    /\ \A h \in Window : \A t \in chain[h] : \A id \in m_inputs[t] :
        m_spent_ids[id] # None

UnspentTrue ==
    /\ DOMAIN m_unspent_ids = UhsId
    /\ \A id \in UhsId : m_unspent_ids[id] # None =>
        /\ \E h \in Window : \E t \in chain[h] :
            m_unspent_ids[id] = <<h, t>> /\ id \in m_uhs_outputs[t]
        /\ \A i \in 1..Len(chain) : \A t \in chain[i] : id \notin m_inputs[t]
    /\ \A h \in Window : \A t \in chain[h] : \A id \in m_uhs_outputs[t] :
        (\A i \in Window : \A u \in chain[i] : id \notin m_inputs[u]) =>
            m_unspent_ids[id] # None

ErrorsTrue ==
    /\ m_errs \in Seq(tx_error)
    /\ m_k_errs # 0 => Len(m_errs) <= m_k_errs
    /\ DOMAIN m_tx_id_errs = Tx /\ DOMAIN m_uhs_errs = UhsId
    /\ \A t \in Tx : m_tx_id_errs[t] # None =>
        m_tx_id_errs[t] \in ToSet(m_errs) /\ m_tx_id_errs[t].tx_id = t
    /\ \A id \in UhsId : m_uhs_errs[id] # None =>
        m_uhs_errs[id] \in ToSet(m_errs) /\ id \in m_uhs_errs[id].input_uhs_ids

WatchtowerInv ==
    ChainTrue /\ BlocksTrue /\ SpentTrue /\ UnspentTrue /\ ErrorsTrue

\* What has settled, read off the chain.
LEMMA SettledFacts ==
    ASSUME ChainTrue
    PROVE  /\ \A t : t \in Settled <=> \E i \in 1..Len(chain) : t \in chain[i]
           /\ Settled \subseteq Tx
<1>1. DOMAIN chain = 1..Len(chain)
  BY DEF ChainTrue
<1> QED BY <1>1 DEF ChainTrue, Settled, ToSet

\* The height whose block leaves a full cache.
Evicted ==
    IF Full(m_blks, m_k_blks) THEN {Len(chain) - Len(m_blks) + 1} ELSE {}

\* A block of unsettled transactions whose inputs are unspent keeps the
\* history sound (add_block).
LEMMA ChainGrows ==
    ASSUME ChainTrue, NEW txs \in SUBSET Tx, MayBeBlock(txs), add_block(txs)
    PROVE  /\ ChainTrue'
           /\ Len(chain') = Len(chain) + 1 /\ Len(chain) \in Nat
           /\ \A i \in 1..Len(chain) : chain'[i] = chain[i]
           /\ chain'[Len(chain) + 1] = txs
           /\ Len(chain) + 1 <= MaxBlocks
<1> DEFINE n == Len(chain)
<1>0. n \in Nat
  BY DEF ChainTrue
<1>1. /\ n \in Nat /\ MaxBlocks \in Nat /\ n < MaxBlocks
      /\ chain' \in Seq(SUBSET Tx) /\ Len(chain') = n + 1
      /\ \A i \in 1..n : chain'[i] = chain[i]
      /\ chain'[n + 1] = txs
  BY WatchtowerAssumption DEF ChainTrue, add_block
<1>2. \A t \in txs : /\ \A i \in 1..n : t \notin chain[i]
                     /\ m_inputs[t] \subseteq Unspent
  BY Zenon, SettledFacts DEF MayBeBlock
<1>3. \A t \in txs : \A i \in 1..n : \A u \in chain[i] : m_inputs[t] \cap m_inputs[u] = {}
  BY <1>2, SettledFacts DEF Unspent
<1>4. \A t, u \in txs : t # u => m_inputs[t] \cap m_inputs[u] = {}
  BY Zenon DEF MayBeBlock, Conflict
<1> HIDE DEF n
<1>5. \A i, j \in 1..(n + 1) : \A t \in chain'[i], u \in chain'[j] :
        (t = u => i = j) /\ (t # u => m_inputs[t] \cap m_inputs[u] = {})
  <2> SUFFICES ASSUME NEW i \in 1..(n + 1), NEW j \in 1..(n + 1),
                      NEW t \in chain'[i], NEW u \in chain'[j]
               PROVE  (t = u => i = j) /\ (t # u => m_inputs[t] \cap m_inputs[u] = {})
    BY Zenon
  <2>0. (i \in 1..n \/ i = n + 1) /\ (j \in 1..n \/ j = n + 1)
    BY <1>0
  <2>1. CASE i \in 1..n /\ j \in 1..n
    BY <1>1, <2>1 DEF ChainTrue, n
  <2>2. CASE i = n + 1 /\ j \in 1..n
    BY Zenon, <1>1, <1>2, <1>3, <2>2
  <2>3. CASE i \in 1..n /\ j = n + 1
    BY Zenon, <1>1, <1>2, <1>3, <2>3
  <2>4. CASE i = n + 1 /\ j = n + 1
    BY Zenon, <1>1, <1>4, <2>4
  <2> QED BY Zenon, <2>0, <2>1, <2>2, <2>3, <2>4
<1>6. \A i \in 1..(n + 1) : \A t \in chain'[i] : \A id \in m_inputs[t] :
        \/ id \in Seed
        \/ \E j \in 1..(i - 1) : \E u \in chain'[j] : id \in m_uhs_outputs[u]
  <2> SUFFICES ASSUME NEW i \in 1..(n + 1), NEW t \in chain'[i], NEW id \in m_inputs[t],
                      id \notin Seed
               PROVE  \E j \in 1..(i - 1) : \E u \in chain'[j] : id \in m_uhs_outputs[u]
    BY Zenon
  <2>1. CASE i \in 1..n
    <3>1. t \in chain[i]
      BY Zenon, <1>1, <2>1
    <3>2. PICK j \in 1..(i - 1) : \E u \in chain[j] : id \in m_uhs_outputs[u]
      BY Zenon, <2>1, <3>1 DEF ChainTrue, n
    <3>3. j \in 1..n
      BY <1>1, <2>1
    <3> QED BY Zenon, <1>1, <3>2, <3>3
  <2>2. CASE i = n + 1
    <3>1. id \in Unspent
      BY Zenon, <1>1, <1>2, <2>2
    <3>2. PICK u \in Settled : id \in m_uhs_outputs[u]
      BY Zenon, <3>1 DEF Unspent
    <3>3. PICK j \in 1..n : u \in chain[j]
      BY Zenon, <3>2, SettledFacts DEF n
    <3>4. j \in 1..(i - 1)
      BY <1>1, <2>2, <3>3
    <3> QED BY Zenon, <1>1, <3>2, <3>3, <3>4
  <2> QED BY <1>1, <2>1, <2>2
<1>7. ChainTrue'
  <2>1. chain' \in Seq(SUBSET Tx) /\ Len(chain') = n + 1 /\ n + 1 <= MaxBlocks
    BY <1>1
  <2> QED BY Zenon, <1>5, <1>6, <2>1 DEF ChainTrue
<1> QED BY <1>1, <1>7 DEF n

\* The window moves by one block; what push_block erases are the hashes of
\* the block that leaves it.
LEMMA WindowMoves ==
    ASSUME ChainTrue, BlocksTrue, NEW txs \in SUBSET Tx, MayBeBlock(txs), add_block(txs)
    PROVE  /\ BlocksTrue'
           /\ Window' = (Window \ Evicted) \cup {Len(chain) + 1}
           /\ Window \subseteq 1..Len(chain) /\ Evicted \subseteq Window
           /\ \A h \in Evicted : h \in Window /\ \A i \in Window : h <= i
           /\ \A id : id \in EvictedInputs(m_blks) <=>
                    \E h \in Evicted : \E t \in chain[h] : id \in m_inputs[t]
           /\ \A id : id \in EvictedOutputs(m_blks) <=>
                    \E h \in Evicted : \E t \in chain[h] : id \in m_uhs_outputs[t]
<1> DEFINE n == Len(chain)
           l == Len(m_blks)
           blk == [m_height |-> n + 1, m_transactions |-> txs]
           Block == [m_height : Nat, m_transactions : SUBSET Tx]
<1>1. /\ n \in Nat /\ l \in Nat /\ l <= n /\ m_k_blks \in Nat
      /\ Len(chain') = n + 1
      /\ \A i \in 1..n : chain'[i] = chain[i]
      /\ chain'[n + 1] = txs
      /\ m_k_blks # 0 => l <= m_k_blks
  BY ChainGrows, WatchtowerAssumption DEF BlocksTrue
<1>2. m_blks' = Pushed(m_blks, m_k_blks, blk)
  BY Zenon DEF add_block
<1>3. blk \in Block /\ m_blks \in Seq(Block) /\ blk.m_transactions = txs
  BY <1>1 DEF BlocksTrue
<1>4. \A i \in 1..l : m_blks[i].m_transactions = chain[n - l + i]
  BY Zenon DEF BlocksTrue
<1>5. CASE Full(m_blks, m_k_blks)
  <2>1. l # 0 /\ l = m_k_blks /\ Evicted = {n - l + 1}
    BY Zenon, <1>5 DEF Full, Evicted
  <2>2. Tail(m_blks) \in Seq(Block) /\ Len(Tail(m_blks)) = l - 1 /\ Head(m_blks) = m_blks[1]
        /\ \A i \in 1..(l - 1) : Tail(m_blks)[i] = m_blks[i + 1]
    BY <1>1, <1>3, <2>1
  <2>3. m_blks' = Append(Tail(m_blks), blk)
    BY Zenon, <1>2, <1>5 DEF Pushed
  <2> DEFINE r == Tail(m_blks)
  <2> HIDE DEF r, blk, Block
  <2>4. /\ m_blks' \in Seq(Block) /\ Len(m_blks') = (l - 1) + 1
        /\ \A i \in 1..(l - 1) : m_blks'[i] = r[i]
        /\ m_blks'[(l - 1) + 1] = blk
    BY <1>3, <2>2, <2>3 DEF r
  <2> HIDE DEF n, l
  <2>5. Len(m_blks') = l
    BY <1>1, <2>4
  <2>6. \A i \in 1..l : m_blks'[i].m_transactions = chain'[(n + 1) - l + i]
    <3> SUFFICES ASSUME NEW i \in 1..l
                 PROVE  m_blks'[i].m_transactions = chain'[(n + 1) - l + i]
      BY Zenon
    <3>1. CASE i = l
      <4>1. (n + 1) - l + i = n + 1 /\ (l - 1) + 1 = i
        BY <1>1, <3>1
      <4>2. m_blks'[i] = blk
        BY Zenon, <2>4, <4>1
      <4> QED BY Zenon, <1>1, <1>3, <4>1, <4>2
    <3>2. CASE i # l
      <4>1. i \in 1..(l - 1) /\ i + 1 \in 1..l /\ (n + 1) - l + i = n - l + (i + 1)
            /\ n - l + (i + 1) \in 1..n
        BY <1>1, <3>2
      <4>2. m_blks'[i] = m_blks[i + 1]
        BY Zenon, <2>2, <2>4, <4>1 DEF r
      <4> QED BY Zenon, <1>1, <1>4, <4>1, <4>2
    <3> QED BY Zenon, <3>1, <3>2
  <2>7. BlocksTrue'
    <3>1. Len(m_blks') <= Len(chain') /\ (m_k_blks # 0 => Len(m_blks') <= m_k_blks)
      BY <1>1, <2>5
    <3> QED BY Zenon, <1>1, <2>4, <2>5, <2>6, <3>1 DEF BlocksTrue, Block
  <2>8. Window' = ((n + 1) - l + 1)..(n + 1) /\ Window = (n - l + 1)..n
    BY Zenon, <1>1, <2>5 DEF Window, n, l
  <2>9. /\ Window' = (Window \ Evicted) \cup {n + 1}
        /\ Window \subseteq 1..n /\ Evicted \subseteq Window
        /\ \A h \in Evicted : h \in Window /\ \A i \in Window : h <= i
    BY <1>1, <2>1, <2>8
  <2>10. Head(m_blks).m_transactions = chain[n - l + 1]
    BY <1>1, <1>4, <2>1, <2>2
  <2> QED BY Zenon, <1>5, <2>1, <2>7, <2>9, <2>10
          DEF EvictedInputs, EvictedOutputs, InputsOf, OutputsOf, n
<1>6. CASE ~Full(m_blks, m_k_blks)
  <2>1. Evicted = {} /\ (m_k_blks # 0 => l # m_k_blks)
    BY Zenon, <1>6 DEF Full, Evicted
  <2>2. m_blks' = Append(m_blks, blk)
    BY Zenon, <1>2, <1>6 DEF Pushed
  <2> HIDE DEF blk, Block
  <2>3. /\ m_blks' \in Seq(Block) /\ Len(m_blks') = l + 1
        /\ \A i \in 1..l : m_blks'[i] = m_blks[i]
        /\ m_blks'[l + 1] = blk
    BY <1>3, <2>2
  <2> HIDE DEF n, l
  <2>4. \A i \in 1..(l + 1) : m_blks'[i].m_transactions = chain'[(n + 1) - (l + 1) + i]
    <3> SUFFICES ASSUME NEW i \in 1..(l + 1)
                 PROVE  m_blks'[i].m_transactions = chain'[(n + 1) - (l + 1) + i]
      BY Zenon
    <3>1. CASE i = l + 1
      <4>1. (n + 1) - (l + 1) + i = n + 1
        BY <1>1, <3>1
      <4> QED BY Zenon, <1>1, <1>3, <2>3, <3>1, <4>1
    <3>2. CASE i # l + 1
      <4>1. i \in 1..l /\ (n + 1) - (l + 1) + i = n - l + i /\ n - l + i \in 1..n
        BY <1>1, <3>2
      <4> QED BY Zenon, <1>1, <1>4, <2>3, <4>1
    <3> QED BY Zenon, <3>1, <3>2
  <2>5. BlocksTrue'
    <3>1. Len(m_blks') <= Len(chain') /\ (m_k_blks # 0 => Len(m_blks') <= m_k_blks)
      BY <1>1, <2>1, <2>3
    <3> QED BY Zenon, <1>1, <2>3, <2>4, <3>1 DEF BlocksTrue, Block
  <2>6. Window' = ((n + 1) - (l + 1) + 1)..(n + 1) /\ Window = (n - l + 1)..n
    BY Zenon, <1>1, <2>3 DEF Window, n, l
  <2>7. /\ Window' = (Window \ Evicted) \cup {n + 1}
        /\ Window \subseteq 1..n /\ Evicted \subseteq Window
        /\ \A h \in Evicted : h \in Window /\ \A i \in Window : h <= i
    BY <1>1, <2>1, <2>6
  <2> QED BY Zenon, <1>6, <2>1, <2>5, <2>7
          DEF EvictedInputs, EvictedOutputs, n
<1> QED BY Zenon, <1>5, <1>6

\* The entry of a hash that InsertBlock adds or leaves.
LEMMA InsertBlockFacts ==
    ASSUME NEW map, NEW height, NEW txs \in SUBSET Tx, NEW of, NEW new, NEW id \in UhsId,
           new = InsertBlock(map, [m_height |-> height, m_transactions |-> txs], of)
    PROVE  /\ map[id] = None /\ (\E t \in txs : id \in of[t]) =>
                \E t \in txs : id \in of[t] /\ new[id] = <<height, t>>
           /\ map[id] = None /\ (\A t \in txs : id \notin of[t]) => new[id] = None
           /\ map[id] # None => new[id] = map[id]
<1> DEFINE blk == [m_height |-> height, m_transactions |-> txs]
           x == CHOOSE t \in txs : id \in of[t]
<1>1. blk.m_height = height /\ blk.m_transactions = txs
  BY Zenon
<1> HIDE DEF blk
<1>2. new[id] = IF map[id] = None /\ \E t \in txs : id \in of[t]
                THEN <<height, x>> ELSE map[id]
  BY Zenon, <1>1 DEF InsertBlock, blk
<1>3. ASSUME \E t \in txs : id \in of[t] PROVE x \in txs /\ id \in of[x]
  BY Zenon, <1>3
<1> HIDE DEF x
<1> QED BY Zenon, <1>2, <1>3

\* An entry is a pair.
LEMMA EntryIsSome ==
    ASSUME NEW h, NEW t
    PROVE  <<h, t>> # None
BY Zenon DEF None

\* The spent hashes are those of the blocks in the window (push_block).
LEMMA SpentKept ==
    ASSUME ChainTrue, BlocksTrue, SpentTrue,
           NEW txs \in SUBSET Tx, MayBeBlock(txs), add_block(txs)
    PROVE  SpentTrue'
<1> DEFINE n == Len(chain)
           kept == Erase(m_spent_ids, EvictedInputs(m_blks))
<1>1. /\ ChainTrue' /\ Len(chain') = n + 1 /\ n \in Nat
      /\ \A i \in 1..n : chain'[i] = chain[i]
      /\ chain'[n + 1] = txs
  BY Zenon, ChainGrows
<1>2. /\ Window' = (Window \ Evicted) \cup {n + 1}
      /\ Window \subseteq 1..n /\ Evicted \subseteq Window
      /\ \A id : id \in EvictedInputs(m_blks) <=>
                \E h \in Evicted : \E t \in chain[h] : id \in m_inputs[t]
  BY Zenon, WindowMoves
<1>3. \A id \in UhsId :
        kept[id] = IF id \in EvictedInputs(m_blks) THEN None ELSE m_spent_ids[id]
  BY Zenon DEF Erase, SpentTrue
<1>4. m_spent_ids' = InsertBlock(kept, [m_height |-> n + 1, m_transactions |-> txs], m_inputs)
  BY Zenon DEF add_block
<1>5. DOMAIN m_spent_ids' = UhsId
  BY Zenon, <1>4 DEF InsertBlock
<1>6. \A id \in UhsId :
        /\ kept[id] = None /\ (\E t \in txs : id \in m_inputs[t]) =>
                \E t \in txs : id \in m_inputs[t] /\ m_spent_ids'[id] = <<n + 1, t>>
        /\ kept[id] = None /\ (\A t \in txs : id \notin m_inputs[t]) => m_spent_ids'[id] = None
        /\ kept[id] # None => m_spent_ids'[id] = kept[id]
  <2> HIDE DEF kept, n
  <2> TAKE id \in UhsId
  <2> QED BY <1>4, InsertBlockFacts
<1> HIDE DEF n, kept
<1>7. ASSUME NEW id \in UhsId, m_spent_ids'[id] # None
      PROVE  \E h \in Window' : \E t \in chain'[h] :
                m_spent_ids'[id] = <<h, t>> /\ id \in m_inputs[t]
  <2>1. CASE kept[id] = None
    BY Zenon, <1>1, <1>2, <1>6, <1>7, <2>1
  <2>2. CASE kept[id] # None
    <3>1. id \notin EvictedInputs(m_blks) /\ m_spent_ids'[id] = m_spent_ids[id]
          /\ m_spent_ids[id] # None
      BY Zenon, <1>3, <1>6, <2>2
    <3>2. PICK h \in Window : \E t \in chain[h] :
                m_spent_ids[id] = <<h, t>> /\ id \in m_inputs[t]
      BY Zenon, <3>1 DEF SpentTrue
    <3>3. h \notin Evicted
      BY Zenon, <1>2, <3>1, <3>2
    <3>4. h \in Window' /\ chain'[h] = chain[h]
      BY Zenon, <1>1, <1>2, <3>3
    <3> QED BY Zenon, <3>1, <3>2, <3>4
  <2> QED BY Zenon, <2>1, <2>2
<1>8. ASSUME NEW h \in Window', NEW t \in chain'[h], NEW id \in m_inputs[t]
      PROVE  m_spent_ids'[id] # None
  <2>1. n + 1 \in 1..(n + 1) /\ \A i \in 1..n : i \in 1..(n + 1)
    BY <1>1
  <2>2. t \in Tx /\ id \in UhsId
    BY <1>1, <1>2, <2>1, TransactionsAssumption DEF ChainTrue
  <2>3. CASE h = n + 1
    BY Zenon, <1>1, <1>6, <2>2, <2>3, EntryIsSome
  <2>4. CASE h # n + 1
    <3>1. h \in Window /\ h \notin Evicted /\ h \in 1..n /\ t \in chain[h]
      BY Zenon, <1>1, <1>2, <2>4
    <3>2. m_spent_ids[id] # None
      BY Zenon, <3>1 DEF SpentTrue
    <3>3. id \notin EvictedInputs(m_blks)
      <4> SUFFICES ASSUME NEW i \in Evicted, NEW u \in chain[i], id \in m_inputs[u]
                   PROVE  FALSE
        BY Zenon, <1>2
      <4>1. i \in 1..n /\ i # h
        BY Zenon, <1>2, <3>1
      <4> QED BY Zenon, <3>1, <4>1 DEF ChainTrue, n
    <3> QED BY Zenon, <1>3, <1>6, <2>2, <3>2, <3>3
  <2> QED BY Zenon, <2>3, <2>4
<1> QED BY Zenon, <1>5, <1>7, <1>8 DEF SpentTrue

\* The unspent hashes are those the blocks in the window created and no block
\* spent (push_block).
LEMMA UnspentKept ==
    ASSUME ChainTrue, BlocksTrue, UnspentTrue,
           NEW txs \in SUBSET Tx, MayBeBlock(txs), add_block(txs)
    PROVE  UnspentTrue'
<1> DEFINE n == Len(chain)
           blk == [m_height |-> n + 1, m_transactions |-> txs]
           kept == StillUnspent(blk)
<1>1. /\ ChainTrue' /\ Len(chain') = n + 1 /\ n \in Nat
      /\ \A i \in 1..n : chain'[i] = chain[i]
      /\ chain'[n + 1] = txs
  BY Zenon, ChainGrows
<1>2. /\ Window' = (Window \ Evicted) \cup {n + 1}
      /\ Window \subseteq 1..n /\ Evicted \subseteq Window
      /\ \A h \in Evicted : \A i \in Window : h <= i
      /\ \A id : id \in EvictedOutputs(m_blks) <=>
                \E h \in Evicted : \E t \in chain[h] : id \in m_uhs_outputs[t]
  BY Zenon, WindowMoves
<1>3. \A id \in UhsId :
        kept[id] = IF id \in EvictedOutputs(m_blks) \/ \E t \in txs : id \in m_inputs[t]
                   THEN None ELSE m_unspent_ids[id]
  <2>1. InputsOf(blk) = UNION {m_inputs[t] : t \in txs}
    BY Zenon DEF InputsOf
  <2> QED BY <2>1 DEF Erase, UnspentTrue, StillUnspent
<1>4. m_unspent_ids' = InsertBlock(kept, blk, m_uhs_outputs)
  BY Zenon DEF add_block
<1>5. DOMAIN m_unspent_ids' = UhsId
  BY Zenon, <1>4 DEF InsertBlock
<1>6. \A id \in UhsId :
        /\ kept[id] = None /\ (\E t \in txs : id \in m_uhs_outputs[t]) =>
                \E t \in txs : id \in m_uhs_outputs[t] /\ m_unspent_ids'[id] = <<n + 1, t>>
        /\ kept[id] = None /\ (\A t \in txs : id \notin m_uhs_outputs[t]) =>
                m_unspent_ids'[id] = None
        /\ kept[id] # None => m_unspent_ids'[id] = kept[id]
  <2> HIDE DEF kept, n
  <2> TAKE id \in UhsId
  <2> QED BY <1>4, InsertBlockFacts
<1>7. /\ \A i \in 1..n : i \in 1..(n + 1) /\ n + 1 # i /\ ~(n + 1 < i)
      /\ n + 1 \in 1..(n + 1) /\ ~(n + 1 < n + 1)
      /\ \A i \in 1..(n + 1) : i \in 1..n \/ i = n + 1
  BY <1>1
<1>8. \A i, j \in 1..(n + 1) : \A t \in chain'[i], u \in chain'[j] :
        m_inputs[t] \cap m_uhs_outputs[u] # {} => j < i
  <2> SUFFICES ASSUME NEW i \in 1..(n + 1), NEW j \in 1..(n + 1),
                      NEW t \in chain'[i], NEW u \in chain'[j],
                      NEW id \in m_inputs[t], id \in m_uhs_outputs[u]
               PROVE  j < i
    BY Zenon
  <2>1. t \in Tx /\ u \in Tx /\ id \notin Seed
    BY <1>1, OutputsAreFresh DEF ChainTrue
  <2>2. PICK k \in 1..(i - 1) : \E v \in chain'[k] : id \in m_uhs_outputs[v]
    BY Zenon, <1>1, <2>1 DEF ChainTrue
  <2>3. PICK v \in chain'[k] : id \in m_uhs_outputs[v]
    BY Zenon, <2>2
  <2>4. k \in 1..(n + 1) /\ k < i
    BY <1>1, <2>2
  <2>5. v \in Tx
    BY <1>1, <2>3, <2>4 DEF ChainTrue
  <2>6. v = u
    BY Zenon, <2>1, <2>3, <2>5, OutputsAreFresh
  <2>7. k = j
    BY Zenon, <1>1, <2>3, <2>4, <2>6 DEF ChainTrue
  <2> QED BY Zenon, <2>4, <2>7
<1> HIDE DEF n, kept, blk
<1>9. ASSUME NEW id \in UhsId, m_unspent_ids'[id] # None
      PROVE  /\ \E h \in Window' : \E t \in chain'[h] :
                    m_unspent_ids'[id] = <<h, t>> /\ id \in m_uhs_outputs[t]
             /\ \A i \in 1..Len(chain') : \A t \in chain'[i] : id \notin m_inputs[t]
  <2>1. CASE kept[id] = None
    <3>1. PICK t \in txs : id \in m_uhs_outputs[t] /\ m_unspent_ids'[id] = <<n + 1, t>>
      BY Zenon, <1>6, <1>9, <2>1
    <3>2. n + 1 \in Window' /\ t \in chain'[n + 1]
      BY Zenon, <1>1, <1>2, <3>1
    <3>3. ASSUME NEW i \in 1..(n + 1), NEW u \in chain'[i], id \in m_inputs[u]
          PROVE  FALSE
      <4>1. n + 1 < i
        BY Zenon, <1>7, <1>8, <3>1, <3>2, <3>3
      <4> QED BY Zenon, <1>7, <4>1
    <3> QED BY Zenon, <1>1, <3>1, <3>2, <3>3
  <2>2. CASE kept[id] # None
    <3>1. /\ id \notin EvictedOutputs(m_blks) /\ \A t \in txs : id \notin m_inputs[t]
          /\ m_unspent_ids'[id] = m_unspent_ids[id] /\ m_unspent_ids[id] # None
      BY Zenon, <1>3, <1>6, <2>2
    <3>2. PICK h \in Window : \E t \in chain[h] :
                m_unspent_ids[id] = <<h, t>> /\ id \in m_uhs_outputs[t]
      BY Zenon, <3>1 DEF UnspentTrue
    <3>3. h \notin Evicted
      BY Zenon, <1>2, <3>1, <3>2
    <3>4. h \in Window' /\ chain'[h] = chain[h]
      BY Zenon, <1>1, <1>2, <3>3
    <3>5. \A i \in 1..n : \A t \in chain[i] : id \notin m_inputs[t]
      BY Zenon, <3>1 DEF UnspentTrue, n
    <3>6. \A i \in 1..(n + 1) : \A t \in chain'[i] : id \notin m_inputs[t]
      BY Zenon, <1>1, <1>7, <3>1, <3>5
    <3> QED BY Zenon, <1>1, <3>1, <3>2, <3>4, <3>6
  <2> QED BY Zenon, <2>1, <2>2
<1>10. ASSUME NEW h \in Window', NEW t \in chain'[h], NEW id \in m_uhs_outputs[t],
              \A i \in Window' : \A u \in chain'[i] : id \notin m_inputs[u]
       PROVE  m_unspent_ids'[id] # None
  <2>1. h \in 1..(n + 1) /\ t \in Tx /\ id \in UhsId
    <3>1. h \in 1..(n + 1)
      BY Zenon, <1>2, <1>7
    <3>2. t \in Tx
      BY <1>1, <3>1 DEF ChainTrue
    <3> QED BY Zenon, <3>1, <3>2, TransactionsAssumption
  <2>2. CASE h = n + 1
    BY Zenon, <1>1, <1>6, <2>1, <2>2, EntryIsSome
  <2>3. CASE h # n + 1
    <3>1. h \in Window /\ h \notin Evicted /\ h \in 1..n /\ t \in chain[h]
      BY Zenon, <1>1, <1>2, <2>3
    <3>2. ASSUME NEW i \in Window, NEW u \in chain[i], id \in m_inputs[u]
          PROVE  FALSE
      <4>1. i \in 1..n /\ u \in chain'[i]
        BY Zenon, <1>1, <1>2
      <4>2. h < i
        BY Zenon, <1>7, <1>8, <2>1, <3>2, <4>1
      <4>3. i \notin Evicted
        BY <1>1, <1>2, <3>1, <4>1, <4>2
      <4> QED BY Zenon, <1>2, <1>10, <3>2, <4>1, <4>3
    <3>3. m_unspent_ids[id] # None
      BY Zenon, <3>1, <3>2 DEF UnspentTrue
    <3>4. id \notin EvictedOutputs(m_blks)
      <4> SUFFICES ASSUME NEW i \in Evicted, NEW u \in chain[i], id \in m_uhs_outputs[u]
                   PROVE  FALSE
        BY Zenon, <1>2
      <4>1. i \in 1..n /\ i # h
        BY Zenon, <1>2, <3>1
      <4>2. u \in Tx
        BY <4>1 DEF ChainTrue, n
      <4>3. u = t
        BY Zenon, <2>1, <4>2, OutputsAreFresh
      <4> QED BY Zenon, <3>1, <4>1, <4>3 DEF ChainTrue, n
    <3>5. \A u \in txs : id \notin m_inputs[u]
      BY Zenon, <1>1, <1>2, <1>10
    <3> QED BY Zenon, <1>3, <1>6, <2>1, <3>3, <3>4, <3>5
  <2> QED BY Zenon, <2>2, <2>3
<1> QED BY Zenon, <1>5, <1>9, <1>10 DEF UnspentTrue

\* The errors a cache has after a push are the new one and the old ones but
\* the oldest of a full cache (push_errors).
LEMMA PushedErrors ==
    ASSUME m_errs \in Seq(tx_error), NEW e \in tx_error,
           m_k_errs # 0 => Len(m_errs) <= m_k_errs,
           m_errs' = Pushed(m_errs, m_k_errs, e)
    PROVE  /\ m_errs' \in Seq(tx_error)
           /\ m_k_errs # 0 => Len(m_errs') <= m_k_errs
           /\ e \in ToSet(m_errs')
           /\ \A x \in ToSet(m_errs) :
                x \in ToSet(m_errs') \/ (Full(m_errs, m_k_errs) /\ x = Head(m_errs))
<1> DEFINE l == Len(m_errs)
           r == Tail(m_errs)
<1> HIDE DEF tx_error
<1>1. l \in Nat /\ m_k_errs \in Nat /\ DOMAIN m_errs = 1..l
  BY WatchtowerAssumption
<1>2. CASE Full(m_errs, m_k_errs)
  <2>1. l # 0 /\ l = m_k_errs
    BY Zenon, <1>2 DEF Full
  <2>2. /\ r \in Seq(tx_error) /\ Len(r) = l - 1 /\ Head(m_errs) = m_errs[1]
        /\ \A i \in 1..(l - 1) : r[i] = m_errs[i + 1]
    BY <1>1, <2>1
  <2>3. m_errs' = Append(r, e)
    BY Zenon, <1>2 DEF Pushed
  <2> HIDE DEF r
  <2>4. /\ m_errs' \in Seq(tx_error) /\ Len(m_errs') = (l - 1) + 1
        /\ \A i \in 1..(l - 1) : m_errs'[i] = r[i]
        /\ m_errs'[(l - 1) + 1] = e
        /\ DOMAIN m_errs' = 1..((l - 1) + 1)
    BY <2>2, <2>3
  <2> HIDE DEF l
  <2>5. Len(m_errs') = l /\ DOMAIN m_errs' = 1..l /\ m_errs'[l] = e /\ l \in 1..l
    BY <1>1, <2>1, <2>4
  <2>6. ASSUME NEW i \in 1..l, i # 1 PROVE m_errs[i] \in ToSet(m_errs')
    <3>1. i - 1 \in 1..(l - 1) /\ i - 1 \in 1..l /\ (i - 1) + 1 = i
      BY <1>1, <2>6
    <3>2. m_errs'[i - 1] = m_errs[i]
      BY Zenon, <2>2, <2>4, <3>1
    <3> QED BY Zenon, <2>5, <3>1, <3>2 DEF ToSet
  <2>7. \A x \in ToSet(m_errs) : x \in ToSet(m_errs') \/ x = Head(m_errs)
    BY Zenon, <1>1, <2>2, <2>6 DEF ToSet
  <2> QED BY <1>1, <1>2, <2>1, <2>4, <2>5, <2>7 DEF ToSet
<1>3. CASE ~Full(m_errs, m_k_errs)
  <2>1. m_k_errs # 0 => l # m_k_errs
    BY Zenon, <1>3 DEF Full
  <2>2. m_errs' = Append(m_errs, e)
    BY Zenon, <1>3 DEF Pushed
  <2>3. /\ m_errs' \in Seq(tx_error) /\ Len(m_errs') = l + 1
        /\ \A i \in 1..l : m_errs'[i] = m_errs[i]
        /\ m_errs'[l + 1] = e
        /\ DOMAIN m_errs' = 1..(l + 1)
    BY <2>2
  <2>4. m_k_errs # 0 => l <= m_k_errs
    BY Zenon
  <2> HIDE DEF l
  <2>5. /\ \A i \in 1..l : i \in 1..(l + 1)
        /\ l + 1 \in 1..(l + 1)
        /\ m_k_errs # 0 => Len(m_errs') <= m_k_errs
    BY <1>1, <2>1, <2>3, <2>4
  <2>6. \A x \in ToSet(m_errs) : x \in ToSet(m_errs')
    BY Zenon, <1>1, <2>3, <2>5 DEF ToSet
  <2>7. e \in ToSet(m_errs')
    BY Zenon, <2>3, <2>5 DEF ToSet
  <2> QED BY Zenon, <2>3, <2>5, <2>6, <2>7
<1> QED BY Zenon, <1>2, <1>3

\* An eviction takes the entries under the evicted error's keys, so the ones
\* that stay are of errors that stay (push_errors).
LEMMA ErrorsKept ==
    ASSUME ErrorsTrue, NEW e \in tx_error, add_errors(e)
    PROVE  ErrorsTrue'
<1> DEFINE ids == m_tx_id_errs
           hashes == m_uhs_errs
<1>1. e.tx_id \in Tx /\ e.input_uhs_ids \subseteq UhsId
  BY Zenon DEF tx_error
<1>2. CASE UNCHANGED <<m_errs, m_tx_id_errs, m_uhs_errs>>
  BY Zenon, <1>2 DEF ErrorsTrue
<1>3. CASE /\ m_errs' = Pushed(m_errs, m_k_errs, e)
           /\ m_tx_id_errs' = Insert(Erase(m_tx_id_errs, EvictedTx), {e.tx_id}, e)
           /\ m_uhs_errs' = Insert(Erase(m_uhs_errs, EvictedHashes), e.input_uhs_ids, e)
  <2>1. /\ m_errs' \in Seq(tx_error)
        /\ m_k_errs # 0 => Len(m_errs') <= m_k_errs
        /\ e \in ToSet(m_errs')
        /\ \A x \in ToSet(m_errs) :
                x \in ToSet(m_errs') \/ (Full(m_errs, m_k_errs) /\ x = Head(m_errs))
    BY Zenon, <1>3, PushedErrors DEF ErrorsTrue
  <2>2. /\ DOMAIN m_tx_id_errs' = Tx
        /\ \A t \in Tx :
            \/ m_tx_id_errs'[t] = None
            \/ m_tx_id_errs'[t] = e /\ t = e.tx_id
            \/ m_tx_id_errs'[t] = ids[t] /\ t \notin EvictedTx
    BY Zenon, <1>3 DEF Insert, Erase, ErrorsTrue
  <2>3. /\ DOMAIN m_uhs_errs' = UhsId
        /\ \A id \in UhsId :
            \/ m_uhs_errs'[id] = None
            \/ m_uhs_errs'[id] = e /\ id \in e.input_uhs_ids
            \/ m_uhs_errs'[id] = hashes[id] /\ id \notin EvictedHashes
    BY Zenon, <1>3 DEF Insert, Erase, ErrorsTrue
  <2>4. ASSUME NEW t \in Tx, m_tx_id_errs'[t] # None
        PROVE  m_tx_id_errs'[t] \in ToSet(m_errs') /\ m_tx_id_errs'[t].tx_id = t
    <3>1. CASE m_tx_id_errs'[t] = e /\ t = e.tx_id
      BY Zenon, <2>1, <3>1
    <3>2. CASE m_tx_id_errs'[t] = ids[t] /\ t \notin EvictedTx
      <4>1. ids[t] \in ToSet(m_errs) /\ ids[t].tx_id = t
        BY Zenon, <2>4, <3>2 DEF ErrorsTrue
      <4> QED BY Zenon, <2>1, <3>2, <4>1 DEF EvictedTx
    <3> QED BY Zenon, <2>2, <2>4, <3>1, <3>2
  <2>5. ASSUME NEW id \in UhsId, m_uhs_errs'[id] # None
        PROVE  m_uhs_errs'[id] \in ToSet(m_errs') /\ id \in m_uhs_errs'[id].input_uhs_ids
    <3>1. CASE m_uhs_errs'[id] = e /\ id \in e.input_uhs_ids
      BY Zenon, <2>1, <3>1
    <3>2. CASE m_uhs_errs'[id] = hashes[id] /\ id \notin EvictedHashes
      <4>1. hashes[id] \in ToSet(m_errs) /\ id \in hashes[id].input_uhs_ids
        BY Zenon, <2>5, <3>2 DEF ErrorsTrue
      <4> QED BY Zenon, <2>1, <3>2, <4>1 DEF EvictedHashes
    <3> QED BY Zenon, <2>3, <2>5, <3>1, <3>2
  <2> QED BY Zenon, <2>1, <2>2, <2>3, <2>4, <2>5 DEF ErrorsTrue
<1> QED BY Zenon, <1>2, <1>3 DEF add_errors

\* The invariant holds initially.
LEMMA WatchtowerInitHolds == WatchtowerInit => WatchtowerInv
<1> SUFFICES ASSUME WatchtowerInit PROVE WatchtowerInv
  BY Zenon
<1>1. /\ Len(chain) = 0 /\ Len(m_blks) = 0 /\ Len(m_errs) = 0
      /\ chain \in Seq(SUBSET Tx) /\ m_errs \in Seq(tx_error)
      /\ m_blks \in Seq([m_height : Nat, m_transactions : SUBSET Tx])
  BY DEF WatchtowerInit
<1>2. Window = {} /\ {m_k_blks, m_k_errs, MaxBlocks} \subseteq Nat
  BY <1>1, WatchtowerAssumption DEF Window
<1>3. ChainTrue
  BY <1>1, <1>2 DEF ChainTrue
<1>4. BlocksTrue
  BY <1>1, <1>2 DEF BlocksTrue
<1>5. SpentTrue /\ UnspentTrue
  BY Zenon, <1>2 DEF SpentTrue, UnspentTrue, WatchtowerInit
<1>6. ErrorsTrue
  BY <1>1, <1>2 DEF ErrorsTrue, WatchtowerInit
<1> QED BY Zenon, <1>3, <1>4, <1>5, <1>6 DEF WatchtowerInv

\* An error report changes nothing the block cache holds (add_errors).
LEMMA BlocksUnchanged ==
    ASSUME ChainTrue, BlocksTrue, SpentTrue, UnspentTrue, UNCHANGED blockVars
    PROVE  ChainTrue' /\ BlocksTrue' /\ SpentTrue' /\ UnspentTrue'
<1>1. /\ chain' = chain /\ m_blks' = m_blks
      /\ m_spent_ids' = m_spent_ids /\ m_unspent_ids' = m_unspent_ids
  BY Zenon DEF blockVars
<1>2. Window' = Window
  BY Zenon, <1>1 DEF Window
<1>3. ChainTrue'
  BY <1>1 DEF ChainTrue
<1>4. BlocksTrue'
  BY <1>1, Zenon DEF BlocksTrue
<1>5. SpentTrue'
  BY <1>1, <1>2, Zenon DEF SpentTrue
<1>6. UnspentTrue'
  BY <1>1, <1>2, Zenon DEF UnspentTrue
<1> QED BY Zenon, <1>3, <1>4, <1>5, <1>6

\* Every step keeps the invariant.
LEMMA WatchtowerStepKeeps ==
    ASSUME WatchtowerInv, [WatchtowerNext]_watchtowerVars
    PROVE  WatchtowerInv'
<1>1. ASSUME NEW txs \in SUBSET Tx, MayBeBlock(txs), add_block(txs)
      PROVE  WatchtowerInv'
  <2>1. ChainTrue' /\ BlocksTrue' /\ SpentTrue' /\ UnspentTrue'
    BY Zenon, <1>1, ChainGrows, WindowMoves, SpentKept, UnspentKept DEF WatchtowerInv
  <2>2. ErrorsTrue'
    BY Zenon, <1>1 DEF add_block, errorVars, WatchtowerInv, ErrorsTrue
  <2> QED BY Zenon, <2>1, <2>2 DEF WatchtowerInv
<1>2. ASSUME NEW e \in tx_error, add_errors(e)
      PROVE  WatchtowerInv'
  <2>1. UNCHANGED blockVars
    BY Zenon, <1>2 DEF add_errors
  <2>2. ErrorsTrue'
    BY Zenon, <1>2, ErrorsKept DEF WatchtowerInv
  <2> QED BY Zenon, <2>1, <2>2, BlocksUnchanged DEF WatchtowerInv
<1>3. CASE UNCHANGED watchtowerVars
  <2>1. UNCHANGED blockVars /\ ErrorsTrue'
    BY Zenon, <1>3 DEF watchtowerVars, errorVars, WatchtowerInv, ErrorsTrue
  <2> QED BY Zenon, <2>1, BlocksUnchanged DEF WatchtowerInv
<1> QED BY Zenon, <1>1, <1>2, <1>3 DEF WatchtowerNext

\* The heights of the window are heights of the chain.
LEMMA WindowInChain ==
    ASSUME ChainTrue, BlocksTrue
    PROVE  Window \subseteq 1..Len(chain)
<1> DEFINE n == Len(chain)
           l == Len(m_blks)
<1>1. n \in Nat
  BY DEF ChainTrue
<1>2. l \in Nat /\ l <= n
  BY DEF BlocksTrue
<1>3. Window = (n - l + 1)..n
  BY Zenon DEF Window
<1> HIDE DEF n, l
<1>4. Window \subseteq 1..n
  BY <1>1, <1>2, <1>3
<1> QED BY Zenon, <1>4 DEF n

\* The cached blocks are those at the heights of the window.
LEMMA CachedBlocks ==
    ASSUME ChainTrue, BlocksTrue
    PROVE  /\ \A b \in ToSet(m_blks) : \E h \in Window : b.m_transactions = chain[h]
           /\ \A h \in Window : \E b \in ToSet(m_blks) : b.m_transactions = chain[h]
<1> DEFINE n == Len(chain)
           l == Len(m_blks)
<1>1. n \in Nat /\ l \in Nat /\ l <= n /\ DOMAIN m_blks = 1..l
  <2>1. n \in Nat
    BY DEF ChainTrue
  <2>2. l \in Nat /\ l <= n /\ DOMAIN m_blks = 1..l
    BY DEF BlocksTrue
  <2> QED BY Zenon, <2>1, <2>2
<1>2. \A i \in 1..l : m_blks[i].m_transactions = chain[n - l + i]
  BY Zenon DEF BlocksTrue
<1>3. Window = (n - l + 1)..n
  BY Zenon DEF Window
<1> HIDE DEF n, l
<1>4. \A i \in 1..l : n - l + i \in Window
  BY <1>1, <1>3
<1>5. \A h \in Window : h - (n - l) \in 1..l /\ n - l + (h - (n - l)) = h
  BY <1>1, <1>3
<1>6. \A b \in ToSet(m_blks) : \E h \in Window : b.m_transactions = chain[h]
  BY Zenon, <1>1, <1>2, <1>4 DEF ToSet
<1>7. ASSUME NEW h \in Window PROVE \E b \in ToSet(m_blks) : b.m_transactions = chain[h]
  <2> DEFINE i == h - (n - l)
  <2>1. i \in 1..l /\ n - l + i = h
    BY Zenon, <1>5
  <2> HIDE DEF i
  <2>2. m_blks[i] \in ToSet(m_blks) /\ m_blks[i].m_transactions = chain[h]
    BY Zenon, <1>1, <1>2, <2>1 DEF ToSet
  <2> QED BY Zenon, <2>2
<1> QED BY Zenon, <1>6, <1>7

(***************************************************************************)
(* For every size of the caches, every chain and every order of blocks and *)
(* error reports: the maps of the block cache are those of the blocks it   *)
(* still has, the error maps hold no evicted error, and every status       *)
(* handle_status_update_request answers is true of the whole chain.        *)
(***************************************************************************)
THEOREM StatusesAreTrue == WatchtowerSpec => []WatchtowerSound
<1>1. WatchtowerInv => WatchtowerSound
  <2> SUFFICES ASSUME WatchtowerInv PROVE WatchtowerSound
    BY Zenon
  <2>1. /\ ChainTrue /\ BlocksTrue /\ SpentTrue /\ UnspentTrue /\ ErrorsTrue
        /\ Len(chain) \in Nat /\ Len(m_blks) \in Nat /\ Len(m_blks) <= Len(chain)
        /\ Len(chain) <= MaxBlocks /\ MaxBlocks \in Nat
    BY WatchtowerAssumption DEF WatchtowerInv, ChainTrue, BlocksTrue
  <2>2. \A h \in Window : h \in 1..Len(chain) /\ h \in 1..MaxBlocks
    <3>1. Window \subseteq 1..Len(chain)
      BY Zenon, <2>1, WindowInChain
    <3>2. ASSUME NEW x \in Nat, NEW y \in Nat, x <= y PROVE 1..x \subseteq 1..y
      BY <3>2
    <3> QED BY Zenon, <2>1, <3>1, <3>2
  <2>3. \A h \in Window : chain[h] \subseteq Tx
    BY <2>1, <2>2 DEF ChainTrue
  <2>4. WatchtowerTypeOK
    <3>1. ToSet(m_errs) \subseteq tx_error
      BY <2>1 DEF ErrorsTrue, ToSet
    <3>2. \A id \in UhsId :
            /\ m_spent_ids[id] = None \/ m_spent_ids[id] \in (1..MaxBlocks) \X Tx
            /\ m_unspent_ids[id] = None \/ m_unspent_ids[id] \in (1..MaxBlocks) \X Tx
      <4>1. \A h \in Window : \A t \in chain[h] : <<h, t>> \in (1..MaxBlocks) \X Tx
        BY Zenon, <2>2, <2>3
      <4> DEFINE Entry == (1..MaxBlocks) \X Tx
      <4> HIDE DEF Entry
      <4>2. \A h \in Window : \A t \in chain[h] : <<h, t>> \in Entry
        BY Zenon, <4>1 DEF Entry
      <4>3. \A id \in UhsId : m_spent_ids[id] # None => m_spent_ids[id] \in Entry
        BY Zenon, <2>1, <4>2 DEF SpentTrue
      <4>4. \A id \in UhsId : m_unspent_ids[id] # None => m_unspent_ids[id] \in Entry
        <5>1. \A id \in UhsId : m_unspent_ids[id] # None =>
                \E h \in Window : \E t \in chain[h] : m_unspent_ids[id] = <<h, t>>
          BY <2>1, Zenon DEF UnspentTrue
        <5> QED BY Zenon, <4>2, <5>1
      <4> QED BY Zenon, <4>3, <4>4 DEF Entry
    <3> QED BY Zenon, <2>1, <3>1, <3>2 DEF WatchtowerTypeOK, BlocksTrue, ErrorsTrue
  <2>5. BlockMapsMatch
    <3> SUFFICES ASSUME NEW id \in UhsId
                 PROVE  /\ m_spent_ids[id] # None <=>
                            \E b \in ToSet(m_blks) : id \in InputsOf(b)
                        /\ m_unspent_ids[id] # None <=>
                            /\ \E b \in ToSet(m_blks) : id \in OutputsOf(b)
                            /\ \A b \in ToSet(m_blks) : id \notin InputsOf(b)
      BY Zenon DEF BlockMapsMatch
    <3>1. (\E b \in ToSet(m_blks) : id \in InputsOf(b)) <=>
            \E h \in Window : \E t \in chain[h] : id \in m_inputs[t]
      BY Zenon, <2>1, CachedBlocks DEF InputsOf
    <3>2. (\E b \in ToSet(m_blks) : id \in OutputsOf(b)) <=>
            \E h \in Window : \E t \in chain[h] : id \in m_uhs_outputs[t]
      BY Zenon, <2>1, CachedBlocks DEF OutputsOf
    <3>3. m_spent_ids[id] # None <=> \E h \in Window : \E t \in chain[h] : id \in m_inputs[t]
      BY Zenon, <2>1 DEF SpentTrue
    <3>4. m_unspent_ids[id] # None <=>
            /\ \E h \in Window : \E t \in chain[h] : id \in m_uhs_outputs[t]
            /\ ~\E h \in Window : \E t \in chain[h] : id \in m_inputs[t]
      BY Zenon, <2>1, <2>2 DEF UnspentTrue
    <3> QED BY Zenon, <3>1, <3>2, <3>3, <3>4
  <2>6. ErrorMapsBounded
    BY Zenon, <2>1 DEF ErrorsTrue, ErrorMapsBounded
  <2>7. StatusIsTrue
    <3> SUFFICES ASSUME NEW t \in Tx, NEW id \in UhsId
                 PROVE  LET statuses == handle_status_update_request(t, id)
                        IN  /\ "unspent" \in statuses =>
                                /\ id \in m_uhs_outputs[t] \cap Unspent
                                /\ t \in chain[m_unspent_ids[id][1]]
                            /\ "spent" \in statuses =>
                                /\ id \in m_inputs[t]
                                /\ t \in chain[m_spent_ids[id][1]]
      BY Zenon DEF StatusIsTrue
    <3>1. /\ "unspent" \in handle_status_update_request(t, id) =>
                m_unspent_ids[id] # None /\ m_unspent_ids[id][2] = t
          /\ "spent" \in handle_status_update_request(t, id) =>
                m_spent_ids[id] # None /\ m_spent_ids[id][2] = t
      BY Zenon DEF handle_status_update_request, ErrorStatuses, BlockStatuses
    <3>2. ASSUME m_unspent_ids[id] # None, m_unspent_ids[id][2] = t
          PROVE  id \in m_uhs_outputs[t] \cap Unspent /\ t \in chain[m_unspent_ids[id][1]]
      <4>1. PICK h \in Window : \E u \in chain[h] :
                m_unspent_ids[id] = <<h, u>> /\ id \in m_uhs_outputs[u]
        BY Zenon, <2>1, <3>2 DEF UnspentTrue
      <4>2. m_unspent_ids[id][1] = h /\ t \in chain[h] /\ id \in m_uhs_outputs[t]
        BY <3>2, <4>1
      <4>3. \A i \in 1..Len(chain) : \A u \in chain[i] : id \notin m_inputs[u]
        BY Zenon, <2>1, <3>2 DEF UnspentTrue
      <4>4. t \in Settled /\ \A u \in Settled : id \notin m_inputs[u]
        BY Zenon, <2>1, <2>2, <4>1, <4>2, <4>3, SettledFacts
      <4> QED BY Zenon, <4>2, <4>4 DEF Unspent
    <3>3. ASSUME m_spent_ids[id] # None, m_spent_ids[id][2] = t
          PROVE  id \in m_inputs[t] /\ t \in chain[m_spent_ids[id][1]]
      <4>1. PICK h \in Window : \E u \in chain[h] :
                m_spent_ids[id] = <<h, u>> /\ id \in m_inputs[u]
        BY Zenon, <2>1, <3>3 DEF SpentTrue
      <4> QED BY <3>3, <4>1
    <3> QED BY Zenon, <3>1, <3>2, <3>3
  <2> QED BY Zenon, <2>4, <2>5, <2>6, <2>7 DEF WatchtowerSound
<1> QED BY <1>1, WatchtowerInitHolds, WatchtowerStepKeeps, PTL DEF WatchtowerSpec

(***************************************************************************)
(* A report that the inputs of a transaction in a cached block are spent   *)
(* or missing is dropped by repeated_tx_filter, whatever was reported and  *)
(* evicted before.                                                         *)
(***************************************************************************)
THEOREM RepeatsAreFiltered == WatchtowerSpec => SettledIsNotRejected
<1>1. ASSUME WatchtowerInv, [WatchtowerNext]_watchtowerVars
      PROVE  [\A t \in Tx : Cached(t) /\ Rejected(t)' => Rejected(t)]_watchtowerVars
  <2> SUFFICES ASSUME NEW t \in Tx, WatchtowerNext, Cached(t), Rejected(t)'
               PROVE  Rejected(t)
    BY Zenon, <1>1
  <2>1. ASSUME NEW txs \in SUBSET Tx, add_block(txs)
        PROVE  Rejected(t)
    BY Zenon, <2>1 DEF add_block, errorVars, Rejected
  <2>2. ASSUME NEW e \in tx_error, add_errors(e)
        PROVE  Rejected(t)
    <3>1. CASE m_tx_id_errs'[t] = m_tx_id_errs[t]
      BY Zenon, <3>1 DEF Rejected
    <3>2. CASE m_tx_id_errs'[t] # m_tx_id_errs[t]
      <4>1. /\ ~repeated_tx_filter(e)
            /\ m_tx_id_errs' = Insert(Erase(m_tx_id_errs, EvictedTx), {e.tx_id}, e)
        BY Zenon, <2>2, <3>2 DEF add_errors
      <4>2. e.tx_id = t /\ m_tx_id_errs'[t] = e
        BY Zenon, <1>1, <3>2, <4>1 DEF Rejected, Insert, Erase, WatchtowerInv, ErrorsTrue
      <4>3. e.info \in {"inputs_dne", "inputs_spent"}
        BY Zenon, <4>2 DEF Rejected
      <4>4. e.input_uhs_ids # {} /\ e.input_uhs_ids \subseteq m_inputs[t]
        BY Zenon, <4>2, <4>3 DEF tx_error
      <4>5. PICK id \in m_inputs[t] : id \in e.input_uhs_ids
        BY Zenon, <4>4
      <4>6. id \in UhsId
        BY Zenon, TransactionsAssumption
      <4>7. PICK h \in Window : t \in chain[h]
        <5>1. \E i \in 1..Len(m_blks) : t \in m_blks[i].m_transactions
          BY <1>1 DEF Cached, ToSet, WatchtowerInv, BlocksTrue
        <5>2. PICK i \in 1..Len(m_blks) : t \in chain[Len(chain) - Len(m_blks) + i]
          BY Zenon, <1>1, <5>1 DEF WatchtowerInv, BlocksTrue
        <5>3. Len(chain) \in Nat /\ Len(m_blks) \in Nat
          BY <1>1 DEF WatchtowerInv, ChainTrue, BlocksTrue
        <5>4. Len(chain) - Len(m_blks) + i \in Window
          BY <5>3 DEF Window
        <5> QED BY Zenon, <5>2, <5>4
      <4>8. m_spent_ids[id] # None
        BY Zenon, <1>1, <4>7 DEF WatchtowerInv, SpentTrue
      <4>9. PICK k \in Window : \E u \in chain[k] :
                m_spent_ids[id] = <<k, u>> /\ id \in m_inputs[u]
        BY Zenon, <1>1, <4>6, <4>8 DEF WatchtowerInv, SpentTrue
      <4>10. h \in 1..Len(chain) /\ k \in 1..Len(chain)
        BY Zenon, <1>1, WindowInChain DEF WatchtowerInv
      <4>11. PICK u \in chain[k] : m_spent_ids[id] = <<k, u>> /\ id \in m_inputs[u]
        BY Zenon, <4>9
      <4>12. u = t
        BY Zenon, <1>1, <4>7, <4>10, <4>11 DEF WatchtowerInv, ChainTrue
      <4>13. m_spent_ids[id][2] = t
        BY <4>11, <4>12
      <4> QED BY Zenon, <4>1, <4>2, <4>5, <4>8, <4>13 DEF repeated_tx_filter
    <3> QED BY Zenon, <3>1, <3>2
  <2> QED BY Zenon, <2>1, <2>2 DEF WatchtowerNext
<1> QED BY <1>1, WatchtowerInitHolds, WatchtowerStepKeeps, PTL
        DEF WatchtowerSpec, SettledIsNotRejected
=============================================================================

------------------------------- MODULE Codec -------------------------------
(***************************************************************************)
(* A value is written, its bytes travel or are stored, and they are read:  *)
(* whole, followed by others, or cut short.  The values are samples: each  *)
(* differs from a base value of its type in one place.                     *)
(***************************************************************************)
EXTENDS Formats, Rlp

CONSTANTS
    ChainId, OtherChainId

VARIABLES
    codecFormat,        \* a name of Formats, or "evm_tx"
    codecValue,
    codecBytes,         \* <<>> or <<bytes>>
    codecRead           \* <<>>, or what was read: [cut, trailing, result]

codecVars == <<codecFormat, codecValue, codecBytes, codecRead>>

RECURSIVE Base(_), Sample(_)

Base(t) ==
    CASE t[1] = "uint" -> 0
      [] t[1] = "array" -> [i \in 1..t[2] |-> 0]
      [] t[1] \in {"buffer", "empty", "optional", "vector"} -> <<>>
      [] t[1] = "set" -> {}
      [] t[1] = "map" -> [k \in {} |-> 0]
      [] t[1] = "pair" -> [i \in 1..2 |-> Base(t[2][i])]
      [] t[1] = "variant" -> <<0, Base(t[2][1])>>
      [] t[1] = "message" -> [f \in {t[3][i][1] : i \in DOMAIN t[3]} |->
                                Base(t[3][CHOOSE i \in DOMAIN t[3] : t[3][i][1] = f][2])]

Elements(t) == IF t[1] \in {"optional", "vector", "set"} THEN Sample(t[2]) ELSE {}

Sample(t) ==
    LET vs == Elements(t)
    IN  CASE t[1] = "uint" -> {0, ByteBase ^ (t[2] - 1)}
          [] t[1] = "array" -> {Base(t), [i \in 1..t[2] |-> i]}
          [] t[1] = "buffer" -> {<<>>, <<1, 0>>}
          [] t[1] = "empty" -> {<<>>}
          [] t[1] = "optional" -> {<<>>} \cup {<<v>> : v \in vs}
          [] t[1] = "vector" -> {<<>>} \cup {<<v>> : v \in vs}
                                       \cup {<<v, Base(t[2])>> : v \in vs}
          [] t[1] = "set" -> {{}, vs} \cup {{v} : v \in vs}
          [] t[1] = "map" ->
                LET keys == Sample(t[2][2][1])
                    vals == Sample(t[2][2][2])
                    base == Base(t[2][2][2])
                IN  {[k \in {} |-> 0]} \cup {[k \in {x} |-> v] : x \in keys, v \in vals}
                      \cup (IF t[2][2][1][1] = "message" THEN {}
                            ELSE {[k \in keys |-> IF k = x THEN v ELSE base] :
                                    x \in keys, v \in vals})
          [] t[1] = "pair" -> {[Base(t) EXCEPT ![p[1]] = p[2]] :
                                p \in UNION {{<<i, v>> : v \in Sample(t[2][i])} :
                                             i \in 1..2}}
          [] t[1] = "variant" ->
                UNION {{<<i - 1, v>> : v \in Sample(t[2][i])} : i \in DOMAIN t[2]}
          [] t[1] = "message" ->
                LET base == Base(t)
                IN  UNION {{[base EXCEPT ![t[3][i][1]] = v] : v \in Sample(t[3][i][2])} :
                            i \in DOMAIN t[3]}

Samples == [f \in DOMAIN Formats |-> Sample(Formats[f])]

Words == {<<0, 0>>, <<0, byte_size_offset - 1>>, <<0, byte_size_offset>>, <<1, 0>>}
Inputs == {<<>>, <<0>>, <<byte_size_offset>>, <<1, 2>>, <<0, 2, 3>>,
           [i \in 1..20 |-> i % ByteBase]}
AccessLists == {<<>>, <<[m_address |-> <<0, 1>>, m_storage_keys |-> <<>>]>>,
                <<[m_address |-> <<1, 0>>, m_storage_keys |-> <<<<0, 1>>, <<2, 0>>>>],
                  [m_address |-> <<0, 0>>, m_storage_keys |-> <<<<0, 0>>>>]>>}

BaseTx(type, v) ==
    [m_type |-> type, m_to |-> <<>>, m_value |-> <<0, 0>>, m_nonce |-> <<0, 0>>,
     m_gas_price |-> <<0, 0>>, m_gas_limit |-> <<0, 1>>, m_gas_tip_cap |-> <<0, 0>>,
     m_gas_fee_cap |-> <<0, 0>>, m_input |-> <<>>, m_access_list |-> <<>>,
     m_v |-> v, m_r |-> <<2, 1>>, m_s |-> <<0, 0>>]

\* Transactions with the fields that their type has; a legacy one signed with
\* or without the chain ID.
Txs ==
    LET bases == {BaseTx(legacy, BigEndian(0))}
                   \cup {BaseTx(legacy, BigEndian(eip155_v_offset + 2 * ChainId + i)) :
                             i \in 0..1}
                   \cup {BaseTx(type, BigEndian(1)) :
                             type \in {access_list, dynamic_fee}}
        words(tx) == {"m_value", "m_nonce", "m_gas_limit", "m_r", "m_s"}
                       \cup (IF tx.m_type = dynamic_fee
                              THEN {"m_gas_tip_cap", "m_gas_fee_cap"}
                             ELSE {"m_gas_price"})
        lists(tx) == IF tx.m_type = legacy THEN {<<>>} ELSE AccessLists
    IN  UNION {{[tx EXCEPT ![f] = w] : f \in words(tx), w \in Words}
                 \cup {[tx EXCEPT !.m_to = <<w>>] : w \in Words}
                 \cup {[tx EXCEPT !.m_input = i, !.m_access_list = l] :
                        i \in Inputs, l \in lists(tx)} : tx \in bases}

CodecIdle ==
    codecFormat = "none" /\ codecValue = <<>> /\ codecBytes = <<>> /\ codecRead = <<>>

CodecInit ==
    /\ codecBytes = <<>> /\ codecRead = <<>>
    /\ \/ /\ codecFormat \in DOMAIN Formats
          /\ codecValue \in Samples[codecFormat]
       \/ codecFormat = "evm_tx" /\ codecValue \in Txs

\* make_buffer, or tx_encode.
Write ==
    /\ codecBytes = <<>> /\ codecFormat # "none"
    /\ codecBytes' = <<IF codecFormat = "evm_tx" THEN tx_encode(codecValue, ChainId)
                       ELSE Written(codecFormat, codecValue)>>
    /\ UNCHANGED <<codecFormat, codecValue, codecRead>>

Decoded(bytes, chain_id) ==
    IF codecFormat = "evm_tx" THEN tx_decode(bytes, chain_id)
    ELSE from_buffer(Formats[codecFormat], bytes)

\* The bytes are read: whole, followed by others, or cut short.
ReadBack ==
    /\ codecBytes # <<>> /\ codecRead = <<>>
    /\ LET bytes == codecBytes[1]
       IN  \E n \in 1..(Len(bytes) + 1), id \in {ChainId, OtherChainId} :
            /\ codecFormat = "evm_tx" \/ id = ChainId
            /\ codecRead' = <<[cut |-> n < Len(bytes), chain |-> id,
                               result |-> Decoded(SubSeq(bytes \o <<1>>, 1, n), id)]>>
    /\ UNCHANGED <<codecFormat, codecValue, codecBytes>>

CodecNext == Write \/ ReadBack

\* Legacy transactions name a chain if signed as EIP-155 says.
NamesChain == codecValue.m_type # legacy
                \/ Number(Reverse(codecValue.m_v)) >= eip155_v_offset

\* What is read is what was written, whatever follows it, and bytes cut short
\* are refused; a transaction that names a chain is refused on another.  (For
\* the coordinator, that includes that the state machine's copy of what
\* follows the header of a command is what the next leader parses.)
RoundTrip ==
    codecRead # <<>> =>
        LET r == codecRead[1]
            refused == r.cut \/ (r.chain = OtherChainId /\ NamesChain)
        IN  r.result = IF refused THEN <<>> ELSE <<codecValue>>
=============================================================================

-------------------------------- MODULE Rlp --------------------------------
(***************************************************************************)
(* The encoding of Ethereum transactions that agents accept and hash       *)
(* (src/parsec/agent/runners/evm: rlp_writer.cpp, rlp_reader.cpp,          *)
(* serialization.cpp).  An rlp_value is <<"buffer", bytes>> or <<"array",  *)
(* values>>.  The first byte says what follows; as with bytes of 8 bits    *)
(* the five ranges of the first byte fill the range of a byte exactly,     *)
(* scaled down: one-byte lengths go to 2 instead of 55, a size_t has two   *)
(* bytes, and a byte is a digit below 14.                                  *)
(***************************************************************************)
EXTENDS Serialization

byte_size_offset == 4
array_size_offset == 9
max_onebyte_length == 2
SizeBytes == 2          \* sizeof(size_t)
WordBytes == 2          \* of a uint256be
AddressBytes == 2
eip155_v_offset == 3
legacy == 0
access_list == 1
dynamic_fee == 2

\* serialize_size: most significant byte first, without leading zeroes.
Trimmed(bytes) ==
    LET set == {i \in DOMAIN bytes : bytes[i] # 0}
    IN  IF set = {} THEN <<>> ELSE SubSeq(bytes, Min(set), Len(bytes))
serialize_size(size) == Trimmed(Reverse(Digits(size, SizeBytes)))
deserialize_size(bytes) == Number(Reverse(bytes))

serialize_rlp_length(len, offset) ==
    IF len <= max_onebyte_length THEN <<len + offset>>
    ELSE LET len_ser == serialize_size(len)
         IN  <<Len(len_ser) + max_onebyte_length + offset>> \o len_ser

\* (Faulty: the smallest byte that needs a length is written without one.)
write_buffer_to_at_offset(bytes) ==
    IF Len(bytes) = 1 /\ bytes[1] <= byte_size_offset THEN bytes
    ELSE serialize_rlp_length(Len(bytes), byte_size_offset) \o bytes

write_buffer_to(bytes) ==
    IF Len(bytes) = 1 /\ bytes[1] < byte_size_offset THEN bytes
    ELSE serialize_rlp_length(Len(bytes), byte_size_offset) \o bytes

RECURSIVE write_to(_)

write_array_to(vs) ==
    LET bytes == FlattenSeq([i \in DOMAIN vs |-> write_to(vs[i])])
    IN  serialize_rlp_length(Len(bytes), array_size_offset) \o bytes

write_to(v) == IF v[1] = "buffer" THEN write_buffer_to(v[2]) ELSE write_array_to(v[2])

RECURSIVE read_from(_), ReadAll(_)

\* A buffer that could not be read holds zeroes.
Extended(s, len) == IF read(s, len).m_valid THEN Taken(s, len) ELSE [i \in 1..len |-> 0]
read_buffer_from(s, size) == <<read(s, size), <<"buffer", Extended(s, size)>>>>

\* The values in the bytes of an array, and whether they all could be read is
\* not looked at.
ReadAll(s) ==
    IF end_of_buffer(s) THEN <<>>
    ELSE LET v == read_from(s) IN <<v[2]>> \o ReadAll(v[1])
read_array_from(s, size) ==
    <<read(s, size), <<"array", ReadAll(Reader(Extended(s, size)))>>>>

\* rlp_value::read_from: the reader after and the value.  b is the first byte,
\* and the length follows from it or is in the bytes after it.
ReadSized(s, b, offset) ==
    LET len_len == b - offset - max_onebyte_length
        size == IF len_len <= 0 THEN b - offset
                ELSE deserialize_size(Extended(s, len_len))
        s1 == IF len_len <= 0 THEN s ELSE read(s, len_len)
    IN  IF offset = byte_size_offset THEN read_buffer_from(s1, size)
        ELSE read_array_from(s1, size)

read_from(s) ==
    LET b == Extended(s, 1)[1]
        s1 == read(s, 1)
    IN  CASE b < byte_size_offset -> <<s1, <<"buffer", <<b>>>>>>
          [] b \in byte_size_offset..(array_size_offset - 1) ->
                ReadSized(s1, b, byte_size_offset)
          [] OTHER -> ReadSized(s1, b, array_size_offset)

make_rlp_value(bytes, trim_leading_zeroes) ==
    <<"buffer", IF trim_leading_zeroes THEN Trimmed(bytes) ELSE bytes>>

\* rlp_value::value<T>: right-aligned in the type's bytes.
RlpWord(v, width) == [i \in 1..(width - Len(v[2])) |-> 0] \o v[2]

rlp_encode_access_list(al) ==
    <<"array", [i \in DOMAIN al |->
        <<"array", <<make_rlp_value(al[i].m_address, FALSE),
                     <<"array", [j \in DOMAIN al[i].m_storage_keys |->
                        make_rlp_value(al[i].m_storage_keys[j], FALSE)]>>>>>>]>>

rlp_decode_access_list(v) ==
    IF v[1] # "array" THEN <<>>
    ELSE [i \in DOMAIN v[2] |->
            LET tuple == v[2][i][2]
            IN  [m_address |-> IF v[2][i][1] = "array" /\ Len(tuple) = 2
                               THEN RlpWord(tuple[1], AddressBytes)
                               ELSE [j \in 1..AddressBytes |-> 0],
                 m_storage_keys |-> [j \in DOMAIN tuple[2][2] |->
                                        RlpWord(tuple[2][2][j], WordBytes)]]]

BigEndian(n) == Reverse(Digits(n, WordBytes))

\* tx_encode.  (Called for_sighash it leaves the signature out, for the hash
\* that is signed; those bytes are never read.)
tx_encode(tx, chain_id) ==
    (IF tx.m_type = legacy THEN <<>> ELSE <<tx.m_type>>) \o write_to(<<"array",
        (IF tx.m_type = legacy THEN <<>>
         ELSE <<make_rlp_value(BigEndian(chain_id), TRUE)>>)
          \o <<make_rlp_value(tx.m_nonce, TRUE)>>
          \o (IF tx.m_type = dynamic_fee
              THEN <<make_rlp_value(tx.m_gas_tip_cap, TRUE),
                     make_rlp_value(tx.m_gas_fee_cap, TRUE)>>
              ELSE <<make_rlp_value(tx.m_gas_price, TRUE)>>)
          \o <<make_rlp_value(tx.m_gas_limit, TRUE),
               IF tx.m_to = <<>> THEN <<"buffer", <<>>>>
               ELSE make_rlp_value(tx.m_to[1], FALSE),
               make_rlp_value(tx.m_value, TRUE), <<"buffer", tx.m_input>>>>
          \o (IF tx.m_type = legacy THEN <<>>
              ELSE <<rlp_encode_access_list(tx.m_access_list)>>)
          \o <<make_rlp_value(tx.m_v, TRUE), make_rlp_value(tx.m_r, TRUE),
               make_rlp_value(tx.m_s, TRUE)>>>>)

is_valid_rlp_tx(type, v) ==
    Len(v[2]) = CASE type = dynamic_fee -> 12
                  [] type = access_list -> 11
                  [] type = legacy -> 9

\* check_tx_decode: the type and the array, or nothing.
check_tx_decode(bytes) ==
    LET type == IF bytes[1] \in 1..2 THEN bytes[1] ELSE legacy
        d == read_from(Reader(IF type = legacy THEN bytes ELSE Tail(bytes)))
    IN  IF d[1].m_valid /\ is_valid_rlp_tx(type, d[2]) THEN <<type, d[2][2]>> ELSE <<>>

\* The transaction of the elements vs, or nothing.  at(i) is the i-th element
\* after the chain ID, which a legacy transaction lacks.
DecodeTx(type, vs, chain_id) ==
    LET at(i) == vs[IF type = legacy THEN i ELSE i + 1]
        word(i) == RlpWord(at(i), WordBytes)
        gas == IF type = dynamic_fee THEN 4 ELSE 3
        sig == IF type = legacy THEN gas + 4 ELSE gas + 5
        v == Number(Reverse(word(sig)))
        wrong_chain ==
            IF type = legacy
            THEN v >= eip155_v_offset /\ (v - eip155_v_offset) \div 2 # chain_id
            ELSE Number(Reverse(word(0))) # chain_id
        zero == BigEndian(0)
    IN  IF wrong_chain THEN <<>>
        ELSE <<[m_type |-> type, m_nonce |-> word(1),
                m_gas_price |-> IF type = dynamic_fee THEN zero ELSE word(2),
                m_gas_tip_cap |-> IF type = dynamic_fee THEN word(2) ELSE zero,
                m_gas_fee_cap |-> IF type = dynamic_fee THEN word(3) ELSE zero,
                m_gas_limit |-> word(gas),
                m_to |-> IF at(gas + 1)[2] = <<>> THEN <<>>
                         ELSE <<RlpWord(at(gas + 1), AddressBytes)>>,
                m_value |-> word(gas + 2), m_input |-> at(gas + 3)[2],
                m_access_list |-> IF type = legacy THEN <<>>
                                  ELSE rlp_decode_access_list(at(gas + 4)),
                m_v |-> word(sig), m_r |-> word(sig + 1), m_s |-> word(sig + 2)]>>

tx_decode(bytes, chain_id) ==
    LET found == check_tx_decode(bytes)
    IN  IF found = <<>> THEN <<>> ELSE DecodeTx(found[1], found[2], chain_id)
=============================================================================

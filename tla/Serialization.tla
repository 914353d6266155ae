--------------------------- MODULE Serialization ---------------------------
(***************************************************************************)
(* What components send each other and store, as bytes: the serializer of  *)
(* src/util/serialization, which writes a value field by field, and the    *)
(* two operators, << and >>, that each message type has.                   *)
(*                                                                         *)
(* A byte is a digit below ByteBase.  A C++ type is a tuple that begins    *)
(* with its kind; an optional value is <<>> or <<v>>, a variant is         *)
(* <<index, value>>, a map is a function, a message a function from its    *)
(* fields.  uint8_t, uint32_t and uint64_t take one, two and three bytes   *)
(* here, a hash, key or address one.                                       *)
(***************************************************************************)
EXTENDS Integers, SequencesExt

CONSTANT ByteBase

Uint(n) == <<"uint", n>>
Uint8 == Uint(1)
Uint32 == Uint(2)
Uint64 == Uint(3)
Hash == <<"array", 1>>
Buffer == <<"buffer">>
Empty == <<"empty">>
Optional(t) == <<"optional", t>>
Pair(s, t) == <<"pair", <<s, t>>>>
Vector(t) == <<"vector", t>>
UnorderedSet(t) == <<"set", t>>
UnorderedMap(k, v) == <<"map", Pair(k, v)>>
Variant(ts) == <<"variant", ts>>
Raw == <<"raw">>        \* a nuraft::buffer, written without its length
Message(put, get) == <<"message", put, get>>

\* A message whose operators << and >> name the same fields in this order.
Fields(fs) == Message(fs, fs)

Digits(n, width) == [i \in 1..width |-> (n \div (ByteBase ^ (i - 1))) % ByteBase]
Number(ds) == FoldRight(LAMBDA d, n : d + ByteBase * n, ds, 0)

RECURSIVE Ser(_, _)

\* operator<< of a pair, and of the elements of a container.
SerAll(ts, vs) == FlattenSeq([i \in DOMAIN ts |-> Ser(ts[i], vs[i])])
SerSeq(t, vs) == Ser(Uint64, Len(vs)) \o SerAll([i \in DOMAIN vs |-> t], vs)

\* operator<<.  An unordered container is written in some order.
Ser(t, v) ==
    CASE t[1] = "uint" -> Digits(v, t[2])
      [] t[1] \in {"array", "raw"} -> v
      [] t[1] = "buffer" -> Ser(Uint64, Len(v)) \o v
      [] t[1] = "empty" -> <<>>
      [] t[1] = "optional" -> IF v = <<>> THEN Ser(Uint8, 0)
                              ELSE Ser(Uint8, 1) \o Ser(t[2], v[1])
      [] t[1] = "pair" -> SerAll(t[2], v)
      [] t[1] = "vector" -> SerSeq(t[2], v)
      [] t[1] = "set" -> SerSeq(t[2], SetToSeq(v))
      [] t[1] = "map" -> SerSeq(t[2], SetToSeq({<<k, v[k]>> : k \in DOMAIN v}))
      [] t[1] = "variant" -> Ser(Uint8, v[1]) \o Ser(t[2][v[1] + 1], v[2])
      [] t[1] = "message" -> FlattenSeq([i \in DOMAIN t[2] |->
                                           Ser(t[2][i][2], v[t[2][i][1]])])

\* buffer_serializer: the bytes, m_cursor and m_valid, which no later read
\* sets again.
Reader(bytes) == [pkt |-> bytes, m_cursor |-> 0, m_valid |-> TRUE]
end_of_buffer(s) == s.m_cursor >= Len(s.pkt)
read(s, len) ==
    IF s.m_cursor + len > Len(s.pkt) THEN [s EXCEPT !.m_valid = FALSE]
    ELSE [s EXCEPT !.m_cursor = @ + len]
Taken(s, len) ==
    [i \in 1..(IF read(s, len).m_valid THEN len ELSE 0) |-> s.pkt[s.m_cursor + i]]

RECURSIVE Deser(_, _), DeserAll(_, _), DeserDistinct(_, _, _, _)

\* A pair or the elements of a vector, one after the other: <<reader, values>>.
DeserAll(ts, s) ==
    IF ts = <<>> \/ ~s.m_valid THEN <<s, <<>>>>
    ELSE LET first == Deser(Head(ts), s)
             others == DeserAll(Tail(ts), first[1])
         IN  <<others[1], <<first[2]>> \o others[2]>>

\* The elements of an unordered container, until it has len of them: a key it
\* already has is dropped.
DeserDistinct(t, s, len, found) ==
    IF Cardinality(found) >= len \/ ~s.m_valid THEN <<s, found>>
    ELSE LET next == Deser(t, s)
             key(x) == IF t[1] = "pair" THEN x[1] ELSE x
             more == IF \E x \in found : key(x) = key(next[2]) THEN found
                     ELSE found \cup {next[2]}
         IN  DeserDistinct(t, next[1], len, IF next[1].m_valid THEN more ELSE found)

\* operator>>: the reader after, and the value when it is still valid.
Deser(t, s) ==
    LET sized == Deser(Uint64, s)
        len == sized[2]
        bytes(r, n) == <<read(r, n), Taken(r, n)>>
    IN  CASE ~s.m_valid -> <<s, <<>>>>
          [] t[1] = "uint" ->
                LET r == read(s, t[2])
                IN  <<r, IF r.m_valid THEN Number(Taken(s, t[2])) ELSE 0>>
          [] t[1] = "array" -> bytes(s, t[2])
          [] t[1] = "empty" -> <<s, <<>>>>
          [] t[1] = "buffer" -> bytes(sized[1], len)
          [] t[1] = "optional" ->
                LET has == Deser(Uint8, s)
                    val == Deser(t[2], has[1])
                IN  IF has[2] = 0 THEN <<has[1], <<>>>> ELSE <<val[1], <<val[2]>>>>
          [] t[1] = "pair" -> DeserAll(t[2], s)
          [] t[1] = "vector" -> DeserAll([i \in 1..len |-> t[2]], sized[1])
          [] t[1] = "set" -> DeserDistinct(t[2], sized[1], len, {})
          [] t[1] = "map" ->
                LET all == DeserDistinct(t[2], sized[1], len, {})
                IN  <<all[1], [k \in {p[1] : p \in all[2]} |->
                                  (CHOOSE p \in all[2] : p[1] = k)[2]]>>
          [] t[1] = "variant" ->
                LET idx == Deser(Uint8, s)
                    val == Deser(t[2][idx[2] + 1], idx[1])
                IN  <<val[1], <<idx[2], val[2]>>>>
          [] t[1] = "message" ->
                LET all == DeserAll([i \in DOMAIN t[3] |-> t[3][i][2]], s)
                    at(f) == CHOOSE i \in DOMAIN t[3] : t[3][i][1] = f
                IN  <<all[1], IF ~all[1].m_valid THEN <<>>
                              ELSE [f \in {t[3][i][1] : i \in DOMAIN t[3]} |-> all[2][at(f)]]>>

\* from_buffer: the value, or nothing when a read failed.
from_buffer(t, bytes) ==
    LET d == Deser(t, Reader(bytes)) IN IF d[1].m_valid THEN <<d[2]>> ELSE <<>>
=============================================================================

------------------------------ MODULE MCParsec -------------------------------
(***************************************************************************)
(* Instances of Parsec: two shards, k1 on one and the other keys on the    *)
(* other, and a broker per ticket.                                         *)
(***************************************************************************)
EXTENDS Parsec

MCHash == [k \in Keys |-> IF k = "k1" THEN 1 ELSE 0]
MCBrokerOf == [t \in Tickets |-> t]

\* Contracts whose code is not looked up, or is the value of key f.
MCNoFunction == [t \in Tickets |-> "none"]
MCFunction == [t \in Tickets |-> IF t = 1 THEN "none" ELSE "f"]

\* A lock upgrade, an update on one shard after a read on the other, and a
\* reader of both shards.
MCMixedContracts == [t \in Tickets |->
    CASE t = 1 -> << <<"k0", "read">>, <<"k0", "write">> >>
      [] t = 2 -> << <<"k1", "read">>, <<"k0", "write">> >>
      [] t = 3 -> << <<"k0", "read">>, <<"k1", "read">> >>]

\* Updates of both shards in opposite order.
MCOppositeContracts == [t \in Tickets |->
    IF t = 1 THEN << <<"k0", "write">>, <<"k1", "write">> >>
    ELSE << <<"k1", "read">>, <<"k0", "write">> >>]

\* An update of both shards and one of the first.
MCShortContracts == [t \in Tickets |->
    IF t = 1 THEN << <<"k0", "write">>, <<"k1", "write">> >>
    ELSE << <<"k0", "write">> >>]
=============================================================================

------------------------------- MODULE MCEvm -------------------------------
(***************************************************************************)
(* Runs of the EVM runner: a user, a contract with code, an address where  *)
(* contracts are created, and a precompile; every kind of query.           *)
(***************************************************************************)
EXTENDS EvmRunner, TLC

CONSTANTS ua, ca, na, pa

MCAddr == {ua, ca, na, pa}
MCContract == [x \in MCAddr |-> na]
Acc(balance) == <<[EvmAccount EXCEPT !.m_balance = balance]>>
MCStore ==
    {[account |-> (ua :> Acc(4) @@ ca :> Acc(1) @@ na :> <<>> @@ pa :> <<>>),
      code |-> (ua :> <<>> @@ ca :> <<"code">> @@ na :> <<>> @@ pa :> <<>>),
      storage |-> [x \in MCAddr |-> [k \in {"s"} |-> <<>>]]]}
MCTxs ==
    [fn : {"execute_transaction"}, from : {ua}, to : {<<>>, <<ca>>}, value : {0, 1},
     gas : {3}, price : {1}, nonce : {1, 2}]
      \cup [fn : {"execute_transaction"}, from : {ua}, to : {<<ca>>}, value : {0},
            gas : {4}, price : {4}, nonce : {1}]      \* wraps to a cost of 0
      \cup [fn : {"dryrun_transaction"}, from : {ua}, to : {<<ca>>}, value : {1},
            gas : {3}, price : {1}, nonce : {1}]
MCQuery ==
    [fn : SingleKey \cup {"unknown", "get_block"}, keys : {<<AccountKey(ua)>>}]
      \cup [fn : {"get_logs"}, keys : {<<>>, <<LogIndexKey(ua), LogIndexKey(ca)>>}]
=============================================================================

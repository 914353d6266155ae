------------------------------ MODULE Formats ------------------------------
(***************************************************************************)
(* The fields that each message of the system writes and reads, in their   *)
(* order.  Enumerations are bytes.                                         *)
(***************************************************************************)
EXTENDS Serialization

\* src/uhs/transaction/messages.cpp
out_point == Fields(<<<<"m_tx_id", Hash>>, <<"m_index", Uint64>>>>)
output_msg == Fields(<<<<"m_witness_program_commitment", Hash>>,
                       <<"m_value", Uint64>>>>)
input_msg == Fields(<<<<"m_prevout", out_point>>, <<"m_prevout_data", output_msg>>>>)
full_tx_msg == Fields(<<<<"m_inputs", Vector(input_msg)>>,
                        <<"m_outputs", Vector(output_msg)>>,
                    <<"m_witness", Vector(Buffer)>>>>)
compact_tx_msg == Fields(<<<<"m_id", Hash>>, <<"m_inputs", Vector(Hash)>>,
                       <<"m_uhs_outputs", Vector(Hash)>>,
                       <<"m_attestations", UnorderedMap(Hash, Hash)>>>>)
input_error == Fields(<<<<"m_code", Uint8>>, <<"m_data_err", Optional(Uint8)>>,
                        <<"m_idx", Uint64>>>>)
output_error == Fields(<<<<"m_code", Uint8>>, <<"m_idx", Uint64>>>>)
witness_error == Fields(<<<<"m_code", Uint8>>, <<"m_idx", Uint64>>>>)
tx_error_msg == Variant(<<input_error, output_error, witness_error, Uint8>>)

\* The RPC envelope (src/util/rpc/format.hpp) and what travels in it: the
\* sentinels' answers, and the requests of a locking shard of UHS.
rpc_request(payload) == Fields(<<<<"m_header", Uint64>>, <<"m_payload", payload>>>>)
rpc_response(payload) ==
    Fields(<<<<"m_header", Uint64>>, <<"m_payload", Optional(payload)>>>>)
execute_response == Fields(<<<<"m_tx_status", Uint32>>,
                             <<"m_tx_error", Optional(tx_error_msg)>>>>)

locking_shard_tx == Fields(<<<<"m_tx", compact_tx_msg>>>>)
locking_shard_request ==
    Fields(<<<<"m_dtx_id", Hash>>,
             <<"m_params", 
                  Variant(<<Vector(locking_shard_tx), Vector(Uint8), Empty>>)>>>>)
status_request == Variant(<<Fields(<<<<"m_uhs_id", Hash>>>>),
                            Fields(<<<<"m_tx_id", Hash>>>>)>>)

\* The coordinator's log (src/uhs/twophase/coordinator).  The state machine
\* parses the header of a command only: it keeps the other bytes of prepare
\* and commit as they are, and hands them back in its state, which the
\* controller of the next leader parses.
sm_command_header == Fields(<<<<"m_comm", Uint8>>, <<"m_dtx_id", Optional(Hash)>>>>)
prepare_tx == Vector(compact_tx_msg)
commit_tx == Pair(Vector(Uint8), Vector(Vector(Uint64)))
coordinator_state ==
    Message(<<<<"m_prepare_txs", UnorderedMap(Hash, Raw)>>,
              <<"m_commit_txs", UnorderedMap(Hash, Raw)>>,
              <<"m_discard_txs", UnorderedSet(Hash)>>>>,
            <<<<"m_prepare_txs", UnorderedMap(Hash, prepare_tx)>>,
              <<"m_commit_txs", UnorderedMap(Hash, commit_tx)>>,
              <<"m_discard_txs", UnorderedSet(Hash)>>>>)

sm_command(comm, dtx_id, t, data) ==
    Ser(sm_command_header, [m_comm |-> comm, m_dtx_id |-> <<dtx_id>>]) \o Ser(t, data)

\* What commit keeps of an entry: what is left after its header.
KeptData(entry) == LET d == Deser(sm_command_header, Reader(entry))
                   IN  SubSeq(entry, d[1].m_cursor + 1, Len(entry))

\* The state as the state machine has it after the commands that lead to v.
Logged(v) ==
    [m_prepare_txs |-> [d \in DOMAIN v.m_prepare_txs |->
        KeptData(sm_command(0, d, prepare_tx, v.m_prepare_txs[d]))],
     m_commit_txs |-> [d \in DOMAIN v.m_commit_txs |->
        KeptData(sm_command(1, d, commit_tx, v.m_commit_txs[d]))],
     m_discard_txs |-> v.m_discard_txs]

\* The atomizer (src/uhs/atomizer/atomizer/format.cpp), its snapshots and the
\* watchtower.
tx_error_inputs == Fields(<<<<"m_input_uhs_ids", Vector(Hash)>>>>)
tx_error_inputs_spent == Fields(<<<<"m_input_uhs_ids", UnorderedSet(Hash)>>>>)
watchtower_tx_error ==
    Fields(<<<<"m_tx_id", Hash>>,
             <<"m_info", Variant(<<Empty, tx_error_inputs, Empty, Empty,
                                   tx_error_inputs_spent>>)>>>>)
block == Fields(<<<<"m_height", Uint64>>,
                  <<"m_transactions", Vector(compact_tx_msg)>>>>)
tx_notify_request == Fields(<<<<"m_block_height", Uint64>>, <<"m_tx", compact_tx_msg>>,
                              <<"m_attestations", UnorderedSet(Uint64)>>>>)
aggregate_tx_notification == Fields(<<<<"m_oldest_attestation", Uint64>>,
                                      <<"m_tx", compact_tx_msg>>>>)
aggregate_tx_notify_request ==
    Fields(<<<<"m_agg_txs", Vector(aggregate_tx_notification)>>>>)
prune_request == Fields(<<<<"m_block_height", Uint64>>>>)
get_block_request == Fields(<<<<"m_block_height", Uint64>>>>)
atomizer_request == Variant(<<tx_notify_request, prune_request, get_block_request>>)
make_block_response == Fields(<<<<"m_blk", block>>,
                                <<"m_errs", Vector(watchtower_tx_error)>>>>)

atomizer_state ==
    <<<<"m_spent_cache_depth", Uint64>>, <<"m_best_height", Uint64>>,
      <<"m_complete_txs", Vector(compact_tx_msg)>>,
      <<"m_spent", Vector(UnorderedSet(Hash))>>,
      <<"m_txs", Vector(UnorderedMap(compact_tx_msg, UnorderedSet(Uint32)))>>>>
snapshot == Fields(<<<<"m_snp", Buffer>>, <<"m_atomizer", Fields(atomizer_state)>>,
                     <<"m_blocks", UnorderedMap(Uint64, block)>>>>)

status_update_state == Fields(<<<<"m_status", Uint32>>, <<"m_block_height", Uint64>>,
                                <<"m_uhs_id", Hash>>>>)
watchtower_request ==
    Variant(<<Fields(<<<<"m_uhs_ids", UnorderedMap(Hash, Vector(Hash))>>>>), Empty>>)
watchtower_response ==
    Variant(<<Fields(<<<<"m_states", UnorderedMap(Hash, Vector(status_update_state))>>>>),
              Fields(<<<<"m_height", Uint64>>>>)>>)

\* The runtime locking shards of PArSEC (src/parsec/runtime_locking_shard) and
\* the agents.
StateUpdate == UnorderedMap(Buffer, Buffer)
try_lock_request == Fields(<<<<"m_ticket_number", Uint64>>, <<"m_broker_id", Uint64>>,
                             <<"m_key", Buffer>>, <<"m_locktype", Uint8>>,
                             <<"m_first_lock", Uint8>>>>)
prepare_request == Fields(<<<<"m_ticket_number", Uint64>>,
                            <<"m_state_updates", StateUpdate>>,
                            <<"m_broker_id", Uint64>>>>)
ticket_request == Fields(<<<<"m_ticket_number", Uint64>>>>)
get_tickets_request == Fields(<<<<"m_broker_id", Uint64>>>>)
shard_request == Variant(<<try_lock_request, prepare_request, ticket_request,
                           ticket_request, ticket_request, get_tickets_request>>)
wounded_details == Fields(<<<<"m_wounding_ticket", Uint64>>,
                            <<"m_wounding_key", Buffer>>>>)
shard_error == Fields(<<<<"m_error_code", Uint8>>,
                        <<"m_wounded_details", Optional(wounded_details)>>>>)
shard_response == Variant(<<Variant(<<Buffer, shard_error>>), Optional(shard_error),
                            Variant(<<UnorderedMap(Uint64, Uint8), Uint8>>)>>)
replicated_prepare_request ==
    Fields(<<<<"m_ticket_number", Uint64>>, <<"m_broker_id", Uint64>>,
             <<"m_state_update", StateUpdate>>>>)
replicated_request == Variant(<<replicated_prepare_request, ticket_request,
                                ticket_request, Empty>>)
ticket_type == Fields(<<<<"m_state", Uint8>>, <<"m_broker_id", Uint64>>,
                        <<"m_state_update", StateUpdate>>>>)
replicated_response ==
    Variant(<<Optional(Uint8), Variant(<<UnorderedMap(Uint64, ticket_type), Uint8>>)>>)
exec_request == Fields(<<<<"m_function", Buffer>>, <<"m_param", Buffer>>,
                         <<"m_is_readonly_run", Uint8>>>>)

\* The EVM runner (src/parsec/agent/runners/evm/format.cpp).  Of an account
\* the balance and the nonce are stored.
evm_account == Fields(<<<<"m_balance", Hash>>, <<"m_nonce", Hash>>>>)
evm_sig == Fields(<<<<"m_v", Hash>>, <<"m_r", Hash>>, <<"m_s", Hash>>>>)
evm_access_tuple == Fields(<<<<"m_address", Hash>>,
                             <<"m_storage_keys", Vector(Hash)>>>>)
evm_tx == Fields(<<<<"m_type", Uint8>>, <<"m_to", Optional(Hash)>>, <<"m_value", Hash>>,
                   <<"m_nonce", Hash>>, <<"m_gas_price", Hash>>,
                   <<"m_gas_limit", Hash>>,
                   <<"m_gas_tip_cap", Hash>>, <<"m_gas_fee_cap", Hash>>,
                   <<"m_input", Vector(Uint8)>>,
                   <<"m_access_list", Vector(evm_access_tuple)>>,
                   <<"m_sig", evm_sig>>>>)
evm_dryrun_tx == Fields(<<<<"m_from", Hash>>, <<"m_tx", evm_tx>>>>)
evm_log == Fields(<<<<"m_addr", Hash>>, <<"m_data", Vector(Uint8)>>,
                    <<"m_topics", Vector(Hash)>>>>)
evm_tx_receipt ==
    Fields(<<<<"m_tx", evm_tx>>, <<"m_create_address", Optional(Hash)>>,
             <<"m_gas_used", Hash>>,
             <<"m_logs", Vector(evm_log)>>, <<"m_output_data", Vector(Uint8)>>,
             <<"m_ticket_number", Uint64>>, <<"m_timestamp", Uint64>>,
             <<"m_success", Uint8>>>>)
code_key == Fields(<<<<"m_addr", Hash>>, <<"b", Uint8>>>>)
storage_key == Fields(<<<<"m_addr", Hash>>, <<"m_key", Hash>>>>)
evm_pretend_block == Fields(<<<<"m_ticket_number", Uint64>>,
                              <<"m_transactions", Vector(evm_tx_receipt)>>>>)
evm_log_query == Fields(<<<<"m_addresses", Vector(Hash)>>, <<"m_from_block", Uint64>>,
                          <<"m_to_block", Uint64>>, <<"m_topics", Vector(Hash)>>>>)
evm_log_index == Fields(<<<<"m_ticket_number", Uint64>>, <<"m_txid", Hash>>,
                          <<"m_logs", Vector(evm_log)>>>>)

Formats ==
    [full_tx |-> rpc_request(full_tx_msg),
     execute_response |-> rpc_response(execute_response),
     locking_shard |-> rpc_request(locking_shard_request),
     status |-> rpc_request(status_request),
     coordinator_state |-> coordinator_state, atomizer |-> rpc_request(atomizer_request),
     aggregate |-> aggregate_tx_notify_request, make_block |-> make_block_response,
     snapshot |-> snapshot, watchtower_request |-> watchtower_request,
     watchtower_response |-> watchtower_response, shard |-> rpc_request(shard_request),
     shard_response |-> rpc_response(shard_response),
     replicated_request |-> replicated_request,
     replicated_response |-> replicated_response, exec |-> rpc_request(exec_request),
     evm_account |-> evm_account, dryrun |-> evm_dryrun_tx,
     evm_block |-> evm_pretend_block,
     code_key |-> code_key, storage_key |-> storage_key, evm_log_query |-> evm_log_query,
     evm_log_index |-> evm_log_index]

\* The bytes of a value: the state machine's for the coordinator's state.
Written(f, v) == Ser(Formats[f], IF f = "coordinator_state" THEN Logged(v) ELSE v)
=============================================================================

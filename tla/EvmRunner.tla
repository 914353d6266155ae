----------------------------- MODULE EvmRunner -----------------------------
(***************************************************************************)
(* evm_runner: one run of an EVM transaction or of a query by an agent     *)
(* (src/parsec/agent/runners/evm/impl.cpp).  The runner locks the keys it  *)
(* needs with asynchronous requests, lets the VM run the contract against  *)
(* the host, and hands the state updates or an error to the agent.         *)
(*                                                                         *)
(* The VM (evmone) is external: it may call any operation of the host on   *)
(* behalf of the account whose code runs, calls and creates contracts up   *)
(* to a depth, and ends each frame with any status.  As evmone does, it    *)
(* reads the balance before it sends value.  A lock request can fail to    *)
(* be sent, be granted, or be refused (a wounded ticket, a shard error).   *)
(***************************************************************************)
EXTENDS EvmHost, FiniteSetsExt, SequencesExt

CONSTANTS
    EvmTx,          \* [fn, from, to, value, gas, price, nonce], to = <<>> creates
    BaseGas, CreationGas,
    InitialStore,   \* the states of the shards a run may begin with
    EvmQuery,       \* the queries: [fn, keys]
    MaxDepth, MaxVmSteps

VARIABLES
    m_tx,           \* the transaction or query of this run
    host,           \* the host, m_host
    frames,         \* the VM's call stack, innermost frame first
    requests,       \* try_lock requests without an answer: [key, write, then]
    acquired,       \* index keys answered so far
    vmSteps,        \* host operations of the VM so far
    status,         \* the VM's result for the outermost frame, and its gas left
    evmAnswers      \* the results handed to the agent, in order

evmVars == <<store, is_readonly, m_tx, host, frames, requests, acquired,
             vmSteps, status, evmAnswers>>

AllKeys ==
    {AccountKey(a) : a \in Addr} \cup {CodeKey(a) : a \in Addr}
      \cup {StorageKeyOf(a, k) : a \in Addr, k \in StorageKey}

\* Locks refused in one operation: none, those of one key, or all of them.
Denials == {{}, AllKeys} \cup {{k} : k \in AllKeys}

Request(key, write, then) == [key |-> key, write |-> write, then |-> then]

AnswerEvm(r) == evmAnswers' = Append(evmAnswers, r)
NoAnswer == UNCHANGED evmAnswers

\* A try_lock request that was sent.
TryLock(key, write, then) == requests' = requests \cup {Request(key, write, then)}

EvmInit ==
    /\ store \in InitialStore
    /\ m_tx \in EvmTx \cup EvmQuery
    /\ is_readonly = (m_tx.fn # "execute_transaction")
    /\ host = NewHost
    /\ frames = <<>>
    /\ requests = {}
    /\ acquired = 0
    /\ vmSteps = 0
    /\ status = <<>>
    /\ evmAnswers = <<>>

-----------------------------------------------------------------------------
\* make_message: the gas that must be there before the contract runs, and
\* the message of the outermost call.
min_gas(tx) == BaseGas + (IF tx.to = <<>> THEN CreationGas ELSE 0)
check_base_gas(tx) == ~(tx.gas < min_gas(tx) /\ ~is_readonly)
Gas(tx) == IF is_readonly THEN tx.gas ELSE tx.gas - min_gas(tx)

make_message(tx) ==
    LET r == IF tx.to = <<>> THEN ContractAddress[tx.from] ELSE tx.to[1]
    IN  [kind |-> IF tx.to = <<>> THEN "create" ELSE "call",
         sender |-> tx.from, recipient |-> r, code_address |-> r,
         value |-> tx.value]

Transactions == {"execute_transaction", "dryrun_transaction"}
Ready == evmAnswers = <<>> /\ ~host.aborted

\* run_execute_transaction, called by do_run for a transaction whose bytes
\* and signature are valid or not.  A request that cannot be sent is answered
\* by run_execute_transaction, which returns false, and again by do_run.
run_execute_transaction ==
    /\ Ready /\ m_tx.fn \in Transactions /\ requests = {} /\ status = <<>>
    /\ frames = <<>> /\ host = NewHost /\ vmSteps = 0
    /\ vmSteps' = 1
    /\ \/ AnswerEvm("function_load") /\ UNCHANGED <<requests, status>>
       \/ ~is_readonly /\ AnswerEvm("exec_error") /\ UNCHANGED <<requests, status>>
       \/ ~check_base_gas(m_tx) /\ AnswerEvm("exec_error")
            /\ UNCHANGED <<requests, status>>
       \/ /\ check_base_gas(m_tx) /\ ~is_readonly
          /\ \/ TryLock(AccountKey(m_tx.from), TRUE, "from") /\ NoAnswer
             \/ /\ evmAnswers' = evmAnswers \o <<"internal_error", "internal_error">>
                /\ UNCHANGED requests
          /\ UNCHANGED status
       \/ check_base_gas(m_tx) /\ is_readonly /\ status' = <<"start">>
            /\ NoAnswer /\ UNCHANGED requests
    /\ UNCHANGED <<store, is_readonly, m_tx, host, frames, acquired>>

\* The answer to a request: granted or refused.
Answered(r) ==
    /\ r \in requests /\ ~host.aborted
    /\ UNCHANGED <<store, is_readonly, m_tx, frames, vmSteps>>

Held(r) == [host EXCEPT !.held = @ \cup {<<r.key, r.write>>}]

\* The sender's account once it paid for the gas.
SenderPays(acc) ==
    [acc EXCEPT !.m_balance = Minus(@, Times(m_tx.gas, m_tx.price)),
                !.m_nonce = @ + 1]

\* handle_lock_from_account: the nonce and the funds are checked, the gas is
\* paid, and the key of the receipt is locked.
handle_lock_from_account(r, granted) ==
    /\ Answered(r) /\ r.then = "from"
    /\ UNCHANGED <<acquired, status>>
    /\ LET acc == IF store.account[m_tx.from] = <<>> THEN EvmAccount
                  ELSE store.account[m_tx.from][1]
           required == Plus(m_tx.value, Times(m_tx.gas, m_tx.price))
       IN  \/ ~granted /\ AnswerEvm("wounded") /\ requests' = requests \ {r}
                /\ UNCHANGED host
           \/ /\ granted /\ (acc.m_nonce + 1 # m_tx.nonce \/ acc.m_balance < required)
              /\ AnswerEvm("exec_error") /\ requests' = requests \ {r}
              /\ host' = Held(r)
           \/ /\ granted /\ acc.m_nonce + 1 = m_tx.nonce /\ acc.m_balance >= required
              /\ host' = insert_account(Held(r), m_tx.from, SenderPays(acc))
              /\ \/ requests' = {Request(<<"receipt">>, TRUE, "txid")} /\ NoAnswer
                 \/ requests' = {} /\ AnswerEvm("internal_error")

\* The receipt's key is locked, and the key of the ticket number next.
handle_lock_txid(r, granted) ==
    /\ Answered(r) /\ r.then = "txid"
    /\ UNCHANGED <<acquired, status>>
    /\ IF granted
       THEN /\ host' = Held(r)
            /\ \/ requests' = {Request(<<"ticket">>, TRUE, "ticket")} /\ NoAnswer
               \/ requests' = {} /\ AnswerEvm("internal_error")
       ELSE AnswerEvm("wounded") /\ requests' = {} /\ UNCHANGED host

lock_ticket_number_key(r, granted) ==
    /\ Answered(r) /\ r.then = "ticket"
    /\ requests' = {} /\ UNCHANGED acquired
    /\ IF granted THEN host' = Held(r) /\ status' = <<"start">> /\ NoAnswer
       ELSE AnswerEvm("wounded") /\ UNCHANGED <<host, status>>

-----------------------------------------------------------------------------
\* The VM.

\* A frame ends: an outermost one with the result for exec, an inner one
\* back in its caller's code.
Ended(result) ==
    IF Len(frames) <= 1 THEN frames' = <<>> /\ status' = <<result>>
    ELSE frames' = Tail(frames) /\ UNCHANGED status

\* What of a message matters to the code that runs for it.
Frame(msg) == [creates |-> msg.kind = "create", recipient |-> msg.recipient]

\* The host is called with a message: the frame it opens, or the result.
Enter(h, msg, denied) ==
    IF msg.kind = "create"
    THEN LET c == create(h, msg, denied)
         IN  /\ host' = c.host
             /\ IF c.val THEN frames' = <<Frame(msg)>> \o frames /\ status' = <<>>
                ELSE IF frames = <<>> THEN frames' = <<>> /\ status' = <<"revert">>
                ELSE UNCHANGED <<frames, status>>
    ELSE LET c == call(h, msg, denied)
         IN  /\ host' = c.host
             /\ IF c.val = 1 THEN frames' = <<Frame(msg)>> \o frames /\ status' = <<>>
                ELSE IF frames = <<>> THEN frames' = <<>> /\ status' = <<"success">>
                ELSE UNCHANGED <<frames, status>>

\* exec starts the contract.
StartExec ==
    /\ Ready /\ status = <<"start">>
    /\ \E denied \in Denials : Enter(host, make_message(m_tx), denied)
    /\ UNCHANGED <<store, is_readonly, m_tx, requests, acquired, vmSteps, evmAnswers>>

\* The code of the innermost frame calls the host.
VmCalls ==
    /\ Ready /\ frames # <<>> /\ vmSteps <= MaxVmSteps
    /\ vmSteps' = vmSteps + 1
    /\ UNCHANGED <<store, is_readonly, m_tx, requests, acquired, evmAnswers>>

VmSetStorage ==
    /\ VmCalls
    /\ \E k \in StorageKey, denied \in Denials :
            \E again \in {denied, {}} :
                host' = set_storage(host, Head(frames).recipient, k, "word",
                                    denied, again)
    /\ UNCHANGED <<frames, status>>

VmReads ==
    /\ VmCalls
    /\ \E a \in Addr, denied \in Denials :
            \/ host' = get_balance(host, a, denied).host
            \/ host' = get_code_size(host, a, denied).host
            \/ \E k \in StorageKey : host' = get_storage(host, a, k, denied)
    /\ UNCHANGED <<frames, status>>

VmLogs ==
    /\ VmCalls /\ host' = emit_log(host, Head(frames).recipient)
    /\ UNCHANGED <<frames, status>>

VmSelfdestructs ==
    /\ VmCalls
    /\ \E b \in Addr, denied \in Denials :
            host' = selfdestruct(host, Head(frames).recipient, b, denied)
    /\ Ended("success")

\* A call (a callcode is like a delegatecall, a create2 like a create): value
\* is sent only if the balance, which is read first, covers it.
VmCallsOut ==
    /\ VmCalls /\ Len(frames) < MaxDepth
    /\ \E to \in Addr, value \in {0, 1}, denied \in Denials,
          kind \in {"call", "delegatecall", "create"} :
            LET self == Head(frames).recipient
                new == ContractAddress[self]
                msg == [kind |-> kind, sender |-> self,
                        recipient |-> CASE kind = "call" -> to
                                        [] kind = "delegatecall" -> self
                                        [] kind = "create" -> new,
                        code_address |-> IF kind = "create" THEN new ELSE to,
                        value |-> value]
                b == get_balance(host, self, denied)
            IN  IF value = 0 \/ kind = "delegatecall" THEN Enter(host, msg, denied)
                ELSE IF b.val >= value THEN Enter(b.host, msg, denied)
                ELSE host' = b.host /\ UNCHANGED <<frames, status>>

\* The code ends; the caller's frame goes on whatever the status was.
VmReturns ==
    /\ Ready /\ frames # <<>>
    /\ UNCHANGED <<store, is_readonly, m_tx, requests, acquired, vmSteps, evmAnswers>>
    /\ \E s \in {"success", "revert", "failure", "internal"} :
        /\ IF s = "success" /\ Head(frames).creates
           THEN \E denied \in Denials :
                    host' = CreateEpilogue(host, Head(frames).recipient, denied)
           ELSE UNCHANGED host
        /\ Ended(s)

-----------------------------------------------------------------------------
\* The updates are made and handed over, with what is left of the gas.
Deliver(h, gas_left) ==
    /\ host' = finalize(h, m_tx.from, gas_left, m_tx.price)
    /\ AnswerEvm("updates")
    /\ status' = Append(status, gas_left)

\* exec after the contract ended: an internal error, a retry, or the locks
\* of the log indexes.  Of these requests some may be sent before one fails.
EndExec(gas_left) ==
    /\ Ready /\ Len(status) = 1 /\ status # <<"start">>
    /\ UNCHANGED <<store, is_readonly, m_tx, frames, acquired, vmSteps>>
    /\ LET h == IF status = <<"revert">> THEN revert(host) ELSE host
           keys == {Request(LogIndexKey(x), TRUE, "index") : x \in h.m_logs}
       IN  \/ /\ status = <<"internal">> \/ host.m_retry
              /\ AnswerEvm(IF status = <<"internal">> THEN "internal_error"
                           ELSE "wounded")
              /\ UNCHANGED <<host, requests, status>>
           \/ /\ status # <<"internal">> /\ ~host.m_retry
              /\ \/ keys = {} /\ Deliver(h, gas_left) /\ UNCHANGED requests
                 \/ /\ keys # {} /\ requests' = keys
                    /\ host' = h /\ NoAnswer /\ status' = Append(status, gas_left)
                 \/ /\ \E k \in keys : requests' \in SUBSET (keys \ {k})
                    /\ host' = h /\ AnswerEvm("internal_error") /\ UNCHANGED status

\* An index key is answered: lock_index_keys counts refusals as well.
lock_index_keys(r, granted) ==
    /\ Answered(r) /\ r.then = "index"
    /\ requests' = requests \ {r}
    /\ acquired' = acquired + 1
    /\ LET h == IF granted THEN Held(r) ELSE host
       IN  IF acquired' = Cardinality(host.m_logs) THEN Deliver(h, status[2])
           ELSE host' = h /\ NoAnswer /\ UNCHANGED status

-----------------------------------------------------------------------------
\* The queries.  Those that read a single key (run_get_account and others).
SingleKey == {"read_account", "read_account_code", "read_account_storage",
              "get_transaction", "get_transaction_receipt", "get_block_number"}

\* do_run for a query.  One without a key, or whose request cannot be sent,
\* is answered here; run_get_logs stops at the first key it cannot send and
\* answers on its own, too.
do_run_query ==
    /\ Ready /\ m_tx.fn \notin Transactions /\ vmSteps = 0
    /\ vmSteps' = 1
    /\ UNCHANGED <<store, is_readonly, m_tx, host, frames, acquired, status>>
    /\ LET keys == {Request(k, FALSE, m_tx.fn) : k \in ToSet(m_tx.keys)}
       IN  \/ m_tx.fn = "unknown" /\ AnswerEvm("function_load") /\ UNCHANGED requests
           \/ m_tx.fn # "unknown" /\ requests' = keys /\ NoAnswer
           \/ m_tx.fn # "unknown" /\ AnswerEvm("internal_error") /\ UNCHANGED requests
           \/ /\ m_tx.fn = "get_logs"
              /\ \E k \in keys : requests' \in SUBSET (keys \ {k})
              /\ evmAnswers' = evmAnswers \o <<"internal_error", "internal_error">>

\* The answer to a query of one key; get_block_number ignores what it read,
\* get_transaction parses it.
handle_single_key(r, granted) ==
    /\ Answered(r) /\ r.then \in SingleKey
    /\ requests' = requests \ {r}
    /\ \/ (granted \/ r.then = "get_block_number") /\ AnswerEvm("value")
       \/ (IF granted THEN r.then = "get_transaction" ELSE r.then # "get_block_number")
            /\ AnswerEvm("function_load")
    /\ UNCHANGED <<host, acquired, status>>

\* run_get_block: the transaction of a ticket number, if there is one, and
\* then its receipt (lock_tx_receipt).
handle_get_block(r, granted) ==
    /\ Answered(r) /\ r.then = "get_block"
    /\ UNCHANGED <<host, acquired, status>>
    /\ \/ requests' = requests \ {r} /\ AnswerEvm("value")
       \/ granted /\ requests' = {Request(<<"receipt">>, FALSE, "receipt")} /\ NoAnswer
       \/ granted /\ requests' = requests \ {r} /\ AnswerEvm("function_load")

handle_lock_tx_receipt(r, granted) ==
    /\ Answered(r) /\ r.then = "receipt"
    /\ requests' = requests \ {r}
    /\ \/ granted /\ AnswerEvm("value")
       \/ AnswerEvm("function_load")
    /\ UNCHANGED <<host, acquired, status>>

\* handle_get_logs_try_lock_response: a refusal answers at once, and the
\* last key that is granted answers with the logs that match.
handle_get_logs(r, granted) ==
    /\ Answered(r) /\ r.then = "get_logs"
    /\ requests' = requests \ {r}
    /\ acquired' = IF granted THEN acquired + 1 ELSE acquired
    /\ CASE ~granted -> AnswerEvm("function_load")
         [] granted /\ acquired' = Len(m_tx.keys) -> AnswerEvm("value")
         [] OTHER -> NoAnswer
    /\ UNCHANGED <<host, status>>

EvmNext ==
    \/ run_execute_transaction \/ do_run_query
    \/ \E r \in requests, granted \in BOOLEAN :
        \/ handle_lock_from_account(r, granted) \/ handle_lock_txid(r, granted)
        \/ lock_ticket_number_key(r, granted) \/ lock_index_keys(r, granted)
        \/ handle_single_key(r, granted) \/ handle_get_block(r, granted)
        \/ handle_get_logs(r, granted) \/ handle_lock_tx_receipt(r, granted)
    \/ StartExec \/ VmSetStorage \/ VmReads \/ VmLogs \/ VmSelfdestructs
    \/ VmCallsOut \/ VmReturns
    \/ m_tx.fn \in Transactions /\ \E g \in 0..Gas(m_tx) : EndExec(g)

-----------------------------------------------------------------------------
Balances(accounts) ==
    MapThenSumSet(LAMBDA x : IF accounts[x] = <<>> THEN 0 ELSE accounts[x][1].m_balance,
                  Addr)

Delivered == evmAnswers # <<>> /\ evmAnswers[1] = "updates" /\ ~is_readonly

(***************************************************************************)
(* A transaction hands over only updates of keys it holds a write lock     *)
(* for, however the contract and its nested calls read and wrote before,   *)
(* and whichever of its locks were refused.  Exempt are a precompile's     *)
(* account, which is never locked, and the index of logs, whose refusal    *)
(* lock_index_keys ignores (get_account, set_storage, should_retry).  And  *)
(* no run hands over updates or a value after it was answered already:     *)
(* the answers that come twice are errors (do_run, run_get_logs).          *)
(***************************************************************************)
UpdatesAreLocked ==
    /\ Delivered =>
        \A k \in UpdatedKeys(host) :
            \/ <<k, TRUE>> \in host.held
            \/ k \in {AccountKey(x) : x \in Precompile} \cup {LogIndexKey(x) : x \in Addr}
    /\ \A i \in 2..Len(evmAnswers) : evmAnswers[i] \notin {"updates", "value"}

(***************************************************************************)
(* A transaction makes no money: what its updates leave in all accounts,   *)
(* together with the gas it paid for, is no more than was there, whatever  *)
(* moves between which accounts, reverted or destructed (transfer,         *)
(* handle_lock_from_account, finalize).  It is so for transactions whose   *)
(* value and gas together are a number of 256 bits: nothing checks that,   *)
(* and the funds required are otherwise those of the number that is left.  *)
(***************************************************************************)
FitsUint256 == m_tx.value + m_tx.gas * m_tx.price < Uint256

NoValueCreated ==
    Delivered /\ FitsUint256 =>
        Balances(get_state_updates(host).account)
            + (m_tx.gas - status[2]) * m_tx.price
          <= Balances(store.account)
=============================================================================

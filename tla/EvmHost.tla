------------------------------ MODULE EvmHost ------------------------------
(***************************************************************************)
(* evm_host: the state that a contract sees while it runs                  *)
(* (src/parsec/agent/runners/evm/host.cpp).  The host caches accounts,     *)
(* code and storage as it locks their keys, and at the end the entries it  *)
(* locked for writing are the state updates of the transaction.            *)
(*                                                                         *)
(* The operators take the host's state, h, and return the state after.     *)
(* An optional value is <<>> or <<v>>; an entry of a cache is <<>> or      *)
(* <<optional value, locked for writing>>.  Storage words, code and log    *)
(* contents are members of small sets; gas metering (the storage status,   *)
(* warm and cold accesses) is left out.                                    *)
(***************************************************************************)
EXTENDS Naturals, Sequences, FiniteSets

CONSTANTS
    Addr,               \* addresses
    Precompile,         \* those of precompiled contracts
    StorageKey,
    Uint256,            \* the modulus of evmc::uint256be
    ContractAddress     \* contract_address: the address a sender creates at

VARIABLES
    store,              \* what the shards hold when the ticket begins
    is_readonly         \* m_is_readonly_run

EvmAccount == [m_balance |-> 0, m_nonce |-> 0, m_destruct |-> FALSE]

AccountKey(a) == <<"account", a>>
CodeKey(a) == <<"code", a>>
StorageKeyOf(a, k) == <<"storage", a, k>>
LogIndexKey(a) == <<"logs", a>>

Plus(x, y) == (x + y) % Uint256
Minus(x, y) == (x + Uint256 - y) % Uint256
Times(x, y) == (x * y) % Uint256

is_precompile(a) == a \in Precompile

\* What the constructor leaves; held is the set of <<key, write>> that the
\* broker granted to this ticket, aborted an assertion that failed.
NewHost ==
    [m_accounts |-> [a \in Addr |-> <<>>],
     m_account_code |-> [a \in Addr |-> <<>>],
     m_account_storage |-> [a \in Addr |-> [k \in StorageKey |-> <<>>]],
     m_init_state |-> [a \in Addr |-> <<>>],
     m_retry |-> FALSE,
     m_logs |-> {},
     m_success |-> FALSE,
     held |-> {},
     aborted |-> FALSE]

\* A cached entry serves a request unless it is to be written and was only
\* locked for reading.
Serves(entry, write) == entry # <<>> /\ (entry[2] \/ ~write)

\* (Faulty: a refused lock is not remembered.)
get_key_no_retry(h, key, write, denied) ==
    IF key \in denied THEN h ELSE [h EXCEPT !.held = @ \cup {<<key, write>>}]

\* get_key: waits for the lock; a refused one marks the run for a retry.
get_key(h, key, write, denied) ==
    IF key \in denied THEN [h EXCEPT !.m_retry = TRUE]
    ELSE [h EXCEPT !.held = @ \cup {<<key, write>>}]

Result(h, v) == [host |-> h, val |-> v]

get_account(h, a, write, denied) ==
    IF is_precompile(a) THEN Result(h, <<EvmAccount>>)
    ELSE IF Serves(h.m_accounts[a], write) THEN Result(h, h.m_accounts[a][1])
    ELSE LET g == get_key(h, AccountKey(a), write, denied)
             v == store.account[a]
         IN  IF AccountKey(a) \in denied THEN Result(g, <<>>)
             ELSE Result([g EXCEPT !.m_accounts[a] = <<v, write>>], v)

get_account_storage(h, a, k, write, denied) ==
    IF is_precompile(a) THEN Result(h, <<>>)
    ELSE IF Serves(h.m_account_storage[a][k], write)
    THEN Result(h, h.m_account_storage[a][k][1])
    ELSE LET g == get_key(h, StorageKeyOf(a, k), write, denied)
             v == store.storage[a][k]
         IN  IF StorageKeyOf(a, k) \in denied THEN Result(g, <<>>)
             ELSE Result([g EXCEPT !.m_account_storage[a][k] = <<v, write>>], v)

get_account_code(h, a, write, denied) ==
    IF is_precompile(a) THEN Result(h, <<>>)
    ELSE IF Serves(h.m_account_code[a], write)
    THEN Result(h, h.m_account_code[a][1])
    ELSE LET g == get_key(h, CodeKey(a), write, denied)
             v == store.code[a]
         IN  IF CodeKey(a) \in denied THEN Result(g, <<>>)
             ELSE Result([g EXCEPT !.m_account_code[a] = <<v, write>>], v)

\* The queries of the VM, for what they lock: account_exists and get_balance,
\* get_storage, and get_code_size, get_code_hash and copy_code.
get_balance(h, a, denied) ==
    LET g == get_account(h, a, FALSE, denied)
    IN  Result(g.host, IF g.val = <<>> THEN 0 ELSE g.val[1].m_balance)

get_storage(h, a, k, denied) == get_account_storage(h, a, k, FALSE, denied).host

get_code_size(h, a, denied) ==
    LET g == get_account_code(h, a, FALSE, denied)
    IN  Result(g.host, IF is_precompile(a) \/ g.val # <<>> THEN 1 ELSE 0)

\* set_storage: an account that does not exist yet is created.  It is looked
\* for twice, with the locks denied and then again refused; the second time it
\* must not be found.
set_storage(h, a, k, value, denied, again) ==
    LET found == get_account(h, a, FALSE, denied)
        second == IF is_readonly THEN found ELSE get_account(found.host, a, TRUE, again)
        fresh == [second.host EXCEPT
                    !.m_accounts[a] = <<<<EvmAccount>>, ~is_readonly>>,
                    !.aborted = second.val # <<>>]
        acc == IF found.val = <<>> THEN fresh ELSE found.host
        s == get_account_storage(acc, a, k, ~is_readonly, again).host
    IN  [s EXCEPT !.m_account_storage[a][k] = <<<<value>>, ~is_readonly>>,
                  !.m_accounts[a] = IF @ = <<>> THEN <<found.val, FALSE>> ELSE @]

\* (Faulty: both accounts are read before either is written.)
transfer_reads_first(h, from, to, value, denied) ==
    LET f == get_account(h, from, ~is_readonly, denied)
        t == get_account(f.host, to, ~is_readonly, denied)
        to_acc == IF t.val = <<>> THEN EvmAccount ELSE t.val[1]
    IN  IF f.val = <<>> THEN [f.host EXCEPT !.aborted = TRUE]
        ELSE LET val == IF value = 0 THEN f.val[1].m_balance ELSE value
                 paid == [f.val[1] EXCEPT !.m_balance = Minus(@, val),
                                          !.m_destruct = @ \/ value = 0]
                 got == [to_acc EXCEPT !.m_balance = Plus(@, val)]
                 h1 == [t.host EXCEPT !.m_accounts[from] = <<<<paid>>, ~is_readonly>>]
             IN  [h1 EXCEPT !.m_accounts[to] = <<<<got>>, ~is_readonly>>]

\* transfer: value zero moves the whole balance and destructs the account.
\* The account that pays must exist.
transfer(h, from, to, value, denied) ==
    LET f == get_account(h, from, ~is_readonly, denied)
    IN  IF f.val = <<>> THEN [f.host EXCEPT !.aborted = TRUE]
        ELSE LET val == IF value = 0 THEN f.val[1].m_balance ELSE value
                 paid == [f.val[1] EXCEPT !.m_balance = Minus(@, val),
                                          !.m_destruct = @ \/ value = 0]
                 h1 == [f.host EXCEPT !.m_accounts[from] = <<<<paid>>, ~is_readonly>>]
                 t == get_account(h1, to, ~is_readonly, denied)
                 to_acc == IF t.val = <<>> THEN EvmAccount ELSE t.val[1]
                 got == [to_acc EXCEPT !.m_balance = Plus(@, val)]
             IN  [t.host EXCEPT !.m_accounts[to] = <<<<got>>, ~is_readonly>>]

selfdestruct(h, a, beneficiary, denied) == transfer(h, a, beneficiary, 0, denied)

emit_log(h, a) == [h EXCEPT !.m_logs = @ \cup {a}]

\* call up to the code's execution: the value moves, and whether there is
\* code to run.  A precompile has a code size and no code: copy_code then
\* returns less than get_code_size said.
call(h, msg, denied) ==
    LET moves == msg.value # 0 /\ msg.kind = "call"
        paid == IF moves THEN transfer(h, msg.sender, msg.recipient, msg.value, denied)
                ELSE h
        c == get_code_size(paid, msg.code_address, denied)
    IN  Result(CASE c.val = 0 /\ moves -> [c.host EXCEPT !.m_success = TRUE]
                 [] c.val = 1 /\ is_precompile(msg.code_address) ->
                        [c.host EXCEPT !.aborted = TRUE]
                 [] OTHER -> c.host,
               c.val)

\* create up to the code's execution; val says whether the sender was found.
create(h, msg, denied) ==
    LET s == get_account(h, msg.sender, FALSE, denied)
        paid == IF msg.value # 0
                THEN transfer(s.host, msg.sender, msg.recipient, msg.value, denied)
                ELSE s.host
    IN  IF s.val = <<>> THEN Result(s.host, FALSE) ELSE Result(paid, TRUE)

\* create after a successful execution: the account and its code.
CreateEpilogue(h, a, denied) ==
    LET g == get_account(h, a, ~is_readonly, denied)
        acc == IF g.val = <<>> THEN EvmAccount ELSE g.val[1]
        h1 == [g.host EXCEPT !.m_accounts[a] = <<<<acc>>, ~is_readonly>>]
        c == get_account_code(h1, a, ~is_readonly, denied)
    IN  [c.host EXCEPT !.m_account_code[a] = <<<<"code">>, ~is_readonly>>]

\* insert_account: the sender's account, with the gas already paid.
insert_account(h, a, acc) ==
    LET accounts == IF h.m_accounts[a] # <<>> THEN h.m_accounts
                    ELSE [h.m_accounts EXCEPT ![a] = <<<<acc>>, ~is_readonly>>]
    IN  [h EXCEPT !.m_accounts = accounts, !.m_init_state = accounts]

revert(h) == [h EXCEPT !.m_accounts = h.m_init_state]

\* finalize: what is left of the gas goes back to the sender.
finalize(h, origin, gas_left, gas_price) ==
    IF is_readonly THEN h
    ELSE LET g == get_account(h, origin, TRUE, {})
             acc == [g.val[1] EXCEPT !.m_balance = Plus(@, Times(gas_left, gas_price))]
         IN  [g.host EXCEPT !.m_accounts[origin] = <<<<acc>>, TRUE>>]

\* get_state_updates: the keys, and what the shards hold once they are
\* committed.  A destructed account is stored as an empty value.
Updated(entry) == entry # <<>> /\ entry[1] # <<>> /\ entry[2]

UpdatedKeys(h) ==
    {AccountKey(a) : a \in {x \in Addr : Updated(h.m_accounts[x])}}
      \cup {CodeKey(a) : a \in {x \in Addr : Updated(h.m_account_code[x])}}
      \cup {StorageKeyOf(p[1], p[2]) : p \in {x \in Addr \X StorageKey :
                                   Updated(h.m_account_storage[x[1]][x[2]])}}
      \cup {LogIndexKey(a) : a \in h.m_logs} \cup {<<"receipt">>, <<"ticket">>}

Serialized(acc) == IF acc.m_destruct THEN <<>> ELSE <<acc>>

get_state_updates(h) ==
    [account |-> [a \in Addr |-> IF Updated(h.m_accounts[a])
                                 THEN Serialized(h.m_accounts[a][1][1])
                                 ELSE store.account[a]],
     code |-> [a \in Addr |-> IF Updated(h.m_account_code[a])
                              THEN h.m_account_code[a][1] ELSE store.code[a]],
     storage |-> [a \in Addr |-> [k \in StorageKey |->
                     IF Updated(h.m_account_storage[a][k])
                     THEN h.m_account_storage[a][k][1]
                     ELSE store.storage[a][k]]]]
=============================================================================

------------------------------- MODULE Client -------------------------------
(***************************************************************************)
(* A client (src/src/uhs/client): its wallet, the transactions and inputs  *)
(* that wait for confirmation, and the two files it keeps them in.         *)
(* client-cli runs one command per process.  A command is a sequence of    *)
(* steps (todo) that a crash may cut short; the next process starts from   *)
(* the files.  A file is truncated when it is opened and then written, so  *)
(* that a crash in between leaves part of it.                              *)
(*                                                                         *)
(* The transaction processor is a ledger: it settles a transaction it      *)
(* received when its inputs are unspent, and refuses it otherwise.  The    *)
(* answer to a client may be lost.  The client is that of the two-phase    *)
(* processor.  The atomizer's differs in what it hears: it gets no answer  *)
(* that confirms, and its sync finds only transactions that have settled.  *)
(***************************************************************************)
EXTENDS Wallet

CONSTANTS
    MaxReceived,    \* bound on payments of others
    MaxCrashes,     \* bound on commands cut short
    Reimport        \* may an input be imported again?

ASSUME ClientAssumption ==
    MaxReceived \in Nat /\ MaxCrashes \in Nat /\ Reimport \in BOOLEAN

VARIABLES
    m_pending_txs,      \* IDs
    m_pending_inputs,   \* ID -> the coin received with that transaction
    m_pending_spend,    \* coins in the inputs of pending transactions
    client_file, wallet_file,
    todo,               \* the steps left of the command that runs
    current,            \* the transaction it is about
    sent,               \* transactions the processor received
    settled, refused,   \* what it decided
    imported,           \* history: the coins whose import was stored
    abandoned, crashes, \* history: transactions, commands killed
    cut                 \* history: where in save() one was killed

pendingVars == <<m_pending_txs, m_pending_inputs, m_pending_spend>>
fileVars == <<client_file, wallet_file>>
ledgerVars == <<sent, settled, refused>>
historyVars == <<imported, abandoned, crashes, cut>>
clientVars ==
    <<walletVars, pendingVars, fileVars, todo, current, ledgerVars, historyVars>>

\* A client without a command.
ClientIdle ==
    /\ m_pending_txs = {} /\ m_pending_inputs = <<>> /\ m_pending_spend = {}
    /\ client_file = [txs |-> {}, inputs |-> <<>>, spend |-> {}]
    /\ wallet_file = [keys |-> 0, utxos |-> {}]
    /\ todo = <<>> /\ current = 0
    /\ sent = {} /\ settled = {} /\ refused = {}
    /\ imported = {} /\ abandoned = {} /\ crashes = 0 /\ cut = {}

ClientInit ==
    /\ wallet = EmptyWallet /\ created = <<>> /\ confirmed = {}
    /\ ClientIdle

save == <<"save_client_state", "save_wallet">>

-----------------------------------------------------------------------------
(* The ledger. *)
CoinsIn(t) == ToSet(created[t].inputs)

Spent == UNION {CoinsIn(t) : t \in settled}

MaySettle(t) == \A c \in CoinsIn(t) : c.tx \in settled \cup {0} /\ c \notin Spent

\* A transaction of somebody else spends a coin with a key of somebody else.
FromOthers(t) == \E c \in CoinsIn(t) : c.key = 0

\* The processor decides on a transaction.  One of somebody else may be
\* refused for a coin that is spent.  (Only while the client is idle or waits
\* for an answer: its other steps do not read the ledger.)
Decide(t) ==
    /\ todo \in {<<>>, <<"receive">>}
    /\ t \in sent \ (settled \cup refused)
    /\ \/ MaySettle(t) /\ settled' = settled \cup {t} /\ UNCHANGED refused
       \/ /\ FromOthers(t) \/ ~MaySettle(t)
          /\ refused' = refused \cup {t}
          /\ UNCHANGED settled
    /\ UNCHANGED <<walletVars, pendingVars, fileVars, todo, current, sent,
                   historyVars>>

\* (Faulty: an ID is known when the transaction arrives.)
check_tx_id_of_sent(t) == t \in sent

\* A locking shard's cache of IDs holds those of every batch it applied,
\* aborted transactions included.
check_tx_id(t) == t \in settled \cup refused

\* Somebody else pays to keys of this client, and tells it.
OtherPays(n, value, key) ==
    /\ todo = <<>>
    /\ Len(created) < MaxCreated
    /\ Cardinality({t \in DOMAIN created : FromOthers(t)}) < MaxReceived
    /\ key <= wallet_file.keys
    /\ created' = Append(created,
                    FullTx(<<Coin(0, Len(created) + 1, n * value, 0)>>,
                           [i \in 1..n |-> Output(value, key)]))
    /\ sent' = sent \cup {Len(created) + 1}
    /\ UNCHANGED <<wallet, confirmed, pendingVars, fileVars, todo, current,
                   settled, refused, historyVars>>

-----------------------------------------------------------------------------
(* The commands. *)
Idle == todo = <<>>

\* client::mint: the transaction is pending, and saved, before it is sent.
mint(n, value) ==
    /\ Idle
    /\ Make(mint_new_coins(wallet, n, value))
    /\ current' = Len(created) + 1
    /\ m_pending_txs' = m_pending_txs \cup {Len(created) + 1}
    /\ todo' = save \o <<"send", "receive">>
    /\ UNCHANGED <<m_pending_inputs, m_pending_spend, fileVars, ledgerVars,
                   historyVars>>

\* register_pending_tx saves before the transaction becomes pending.
\* (Faulty: it does not save.)
register_pending_tx_unsaved ==
    <<"import_transaction">> \o save \o <<"send", "receive">>

register_pending_tx ==
    save \o <<"import_transaction">> \o save \o <<"send", "receive">>

\* A payment: its inputs are marked, and it is sent.
Submit(payments) ==
    /\ Idle
    /\ Make(payments)
    /\ current' = Len(created) + 1
    /\ m_pending_spend' = m_pending_spend \cup ToSet(Last(created').inputs)
    /\ todo' = register_pending_tx
    /\ UNCHANGED <<m_pending_txs, m_pending_inputs, fileVars, ledgerVars,
                   historyVars>>

send(value, payee) == Submit(send_to(wallet, value, payee))

client_fan(n, value, payee) == Submit(fan(wallet, n, value, payee))

\* (Asked for when there is no key: others come with mint and with change.)
new_address ==
    /\ Idle
    /\ wallet.m_keys = 0
    /\ \E g \in generate_key(wallet) : wallet' = g[1]
    /\ todo' = save
    /\ UNCHANGED <<created, confirmed, pendingVars, fileVars, current,
                   ledgerVars, historyVars>>

\* The map is keyed by transaction: a second input of one that is pending is
\* dropped, as insert keeps the element that is there.
import_send_input(coin) ==
    /\ Idle
    /\ Reimport \/ (FromOthers(coin.tx) /\ coin \notin imported)
    /\ is_spendable(wallet, coin)
    /\ m_pending_inputs' = [t \in DOMAIN m_pending_inputs \cup {coin.tx} |->
            IF t \in DOMAIN m_pending_inputs THEN m_pending_inputs[t] ELSE coin]
    /\ todo' = save
    /\ UNCHANGED <<walletVars, m_pending_txs, m_pending_spend, fileVars,
                   current, ledgerVars, historyVars>>

\* abandon_transaction gives back the inputs that are marked and are not in
\* another pending transaction.
GivenBack(t, others) ==
    {c \in CoinsIn(t) \cap m_pending_spend : \A u \in others : c \notin CoinsIn(u)}

abandon_transaction(t) ==
    /\ Idle
    /\ t \in m_pending_txs
    /\ m_pending_txs' = m_pending_txs \ {t}
    /\ LET back == GivenBack(t, m_pending_txs \ {t})
       IN  /\ m_pending_spend' = m_pending_spend \ back
           /\ wallet' = confirm_inputs(wallet, SetToSeq(back))
    /\ abandoned' = abandoned \cup {t}
    /\ todo' = save
    /\ UNCHANGED <<created, confirmed, m_pending_inputs, fileVars, current,
                   ledgerVars, imported, crashes, cut>>

\* client::confirm_transaction, from sync or from the answer of a sentinel:
\* the pending transaction, then the pending input.
ConfirmPending(t) ==
    LET w == IF t \in m_pending_txs THEN Confirm(wallet, t) ELSE wallet
        received == DOMAIN m_pending_inputs \cap {t}
    IN  /\ wallet' = confirm_inputs(w, SetToSeq({m_pending_inputs[u] : u \in received}))
        /\ m_pending_txs' = m_pending_txs \ {t}
        /\ m_pending_spend' = IF t \in m_pending_txs
                              THEN m_pending_spend \ CoinsIn(t)
                              ELSE m_pending_spend
        /\ m_pending_inputs' = [u \in DOMAIN m_pending_inputs \ {t} |-> m_pending_inputs[u]]

\* sync, one pending transaction at a time.
sync(t) ==
    /\ Idle
    /\ t \in m_pending_txs \cup DOMAIN m_pending_inputs
    /\ check_tx_id(t)
    /\ ConfirmPending(t)
    /\ todo' = save
    /\ UNCHANGED <<created, confirmed, fileVars, current, ledgerVars, historyVars>>

-----------------------------------------------------------------------------
(* The steps of a command. *)
At(step) == todo # <<>> /\ Head(todo) = step

Advance ==
    /\ todo' = Tail(todo)
    /\ current' = IF Tail(todo) = <<>> THEN 0 ELSE current

import_transaction ==
    /\ At("import_transaction")
    /\ m_pending_txs' = m_pending_txs \cup {current}
    /\ Advance
    /\ UNCHANGED <<walletVars, m_pending_inputs, m_pending_spend, fileVars,
                   ledgerVars, historyVars>>

save_client_state ==
    /\ At("save_client_state")
    /\ client_file' = [txs |-> m_pending_txs, inputs |-> m_pending_inputs,
                       spend |-> m_pending_spend]
    /\ imported' = imported \cup Range(m_pending_inputs)
    /\ Advance
    /\ UNCHANGED <<walletVars, pendingVars, wallet_file, ledgerVars, abandoned,
                   crashes, cut>>

save_wallet ==
    /\ At("save_wallet")
    /\ wallet_file' = [keys |-> wallet.m_keys, utxos |-> wallet.m_utxos_set]
    /\ Advance
    /\ UNCHANGED <<walletVars, pendingVars, client_file, ledgerVars,
                   historyVars>>

\* execute_transaction, or send_mint_tx, reaches the processor or not.
Send ==
    /\ At("send")
    /\ sent' \in {sent, sent \cup {current}}
    /\ Advance
    /\ UNCHANGED <<walletVars, pendingVars, fileVars, settled, refused,
                   historyVars>>

\* The answer of the sentinel, or of the coordinator to a mint, if one comes.
ReceiveAnswer ==
    /\ At("receive")
    /\ \/ Advance /\ UNCHANGED <<wallet, pendingVars>>
       \/ current \in settled /\ ConfirmPending(current) /\ todo' = save /\ current' = 0
    /\ UNCHANGED <<created, confirmed, fileVars, ledgerVars, historyVars>>

\* client::init in the next process, wallet::load and load_client_state.  The
\* queue is the set in the order of the transactions' hashes.
Load(wfile, cfile) ==
    /\ \E queue \in SetToSeqs(wfile.utxos) :
        wallet' = [EmptyWallet EXCEPT
                    !.m_keys = wfile.keys,
                    !.m_utxos_set = wfile.utxos,
                    !.m_spend_queue = queue,
                    !.m_balance = SumCoins(wfile.utxos)]
    /\ m_pending_txs' = cfile.txs
    /\ m_pending_inputs' = cfile.inputs
    /\ m_pending_spend' = cfile.spend
    /\ todo' = <<>> /\ current' = 0
    /\ UNCHANGED <<created, confirmed, ledgerVars, imported, abandoned>>

Crash ==
    /\ todo # <<>>
    /\ crashes < MaxCrashes
    /\ crashes' = crashes + 1

Stopped == todo = <<"stopped">>

\* The next command, after one that ended or was killed between two writes.
Restart ==
    /\ ~Stopped
    /\ \/ todo = <<>> /\ UNCHANGED <<crashes, cut>>
       \/ Crash /\ cut' = IF At("save_wallet") THEN cut \cup {"between"} ELSE cut
    /\ Load(wallet_file, client_file)
    /\ UNCHANGED fileVars

\* Killed inside wallet::save after the keys: the next process has a part of
\* the coins, and does not notice.
CutWallet ==
    /\ At("save_wallet") /\ Crash
    /\ cut' = cut \cup {"wallet"}
    /\ wallet_file' \in [keys : {wallet.m_keys}, utxos : SUBSET wallet.m_utxos_set]
    /\ Load(wallet_file', client_file)
    /\ UNCHANGED client_file

\* Killed inside save_client_state, or inside wallet::save before the keys are
\* written.  A part of the client's file is a fatal error to the processes that
\* follow; without the keys they have a new client.  This one is at its end.
CutFile ==
    /\ Crash
    /\ \/ At("save_client_state") /\ client_file' = <<>> /\ UNCHANGED wallet_file
       \/ /\ At("save_wallet") /\ wallet_file' = [keys |-> 0, utxos |-> {}]
          /\ UNCHANGED client_file
    /\ cut' = cut \cup {"file"}
    /\ todo' = <<"stopped">> /\ current' = 0
    /\ wallet' = EmptyWallet
    /\ m_pending_txs' = {} /\ m_pending_inputs' = <<>> /\ m_pending_spend' = {}
    /\ UNCHANGED <<created, confirmed, ledgerVars, imported, abandoned>>

ClientNext ==
    \/ mint(1, Max(Amount))
    \/ send(Min(Amount), 0)
    \/ client_fan(MaxOutputs, Min(Amount), 1)
    \/ new_address
    \/ OtherPays(MaxOutputs, Min(Amount), 1)
    \/ \E t \in DOMAIN created :
        \/ \E i \in DOMAIN created[t].outputs :
                import_send_input(input_from_output(t, i))
        \/ abandon_transaction(t)
        \/ sync(t)
        \/ Decide(t)
    \/ import_transaction \/ save_client_state \/ save_wallet
    \/ Send \/ ReceiveAnswer
    \/ Restart \/ CutWallet \/ CutFile

-----------------------------------------------------------------------------
(***************************************************************************)
(* A key is on disk before anybody can be paid with it: whatever process   *)
(* is killed when, except while wallet::save writes the keys, the wallet   *)
(* file has the keys of the outputs a transaction that was sent gives to   *)
(* this client (register_pending_tx and import_transaction save first).    *)
(***************************************************************************)
KeysSavedBeforeUse ==
    "file" \in cut \/ \A t \in sent : \A i \in DOMAIN created[t].outputs :
        created[t].outputs[i].key <= wallet_file.keys

(***************************************************************************)
(* No coin is in two transactions that are pending, also when a command is *)
(* killed between or inside its steps and the coin comes back from a file. *)
(***************************************************************************)
NoCoinTwicePending ==
    Reimport \/ \A t, u \in m_pending_txs : t # u => CoinsIn(t) \cap CoinsIn(u) = {}

(***************************************************************************)
(* check_tx_id answers "true if the shards have confirmed the given        *)
(* transaction, false if the transaction is unknown to the shards"         *)
(* (twophase_client.hpp): sync confirms, and the wallet counts, only       *)
(* outputs of transactions that settled.  The shards also remember aborted *)
(* transactions.                                                           *)
(***************************************************************************)
SyncConfirmsSettled ==
    \A c \in wallet.m_utxos_set : c.tx \in settled

(***************************************************************************)
(* But for those of aborted transactions the wallet does not count coins   *)
(* it does not have, whenever it is killed: a coin in it is the output of  *)
(* a transaction that was decided and is unspent, unless it was given back *)
(* by abandon_transaction and the transaction settled nevertheless.        *)
(***************************************************************************)
NoFalseCoin ==
    \A c \in wallet.m_utxos_set :
        /\ c.tx \in settled \cup refused
        /\ c \notin Spent \/ \E t \in abandoned : c \in CoinsIn(t) \/ Reimport

(***************************************************************************)
(* No coin is forgotten, also when a command is killed, unless it is       *)
(* killed inside save() (save_client_state is done and save_wallet is not, *)
(* or one of them is under way): an unspent coin of this client's keys     *)
(* that it paid to itself, or whose import it stored, is in the wallet or  *)
(* waits for a pending input, or is an input of a transaction that is      *)
(* pending, marked as pending, abandoned, or confirmed though it was       *)
(* refused.                                                                *)
(***************************************************************************)
OwnCoins(t) == ToSet(OwnOutputs(wallet, t))

Accounted(c) ==
    \/ c \in wallet.m_utxos_set \cup Range(m_pending_inputs)
    \/ c \in Spent \cup m_pending_spend
    \/ \E u \in m_pending_txs \cup abandoned \cup refused \cup ({current} \ {0}) :
            c \in CoinsIn(u)

NoCoinForgotten ==
    cut = {} =>
        /\ \A c \in imported : Accounted(c)
        /\ \A t \in settled \ (m_pending_txs \cup abandoned) :
            ~FromOthers(t) => \A c \in OwnCoins(t) : Accounted(c)
=============================================================================

------------------------------- MODULE Wallet -------------------------------
(***************************************************************************)
(* The wallet (src/src/uhs/transaction/wallet.cpp): the coins a client may *)
(* spend, their queue, their total, and seeded coins that exist as a range *)
(* of indices until they are spent.                                        *)
(*                                                                         *)
(* A key is the number under which it was generated, 0 a key of somebody   *)
(* else.  A transaction's ID is its place in created; the hash of inputs   *)
(* and outputs is as unique.  An input that refers to an output is a coin. *)
(***************************************************************************)
EXTENDS Naturals, Sequences, SequencesExt, FiniteSetsExt

CONSTANTS
    max_keys,       \* keys are reused when there are more than this
    m_seed_value,   \* the value of a seeded coin
    Seeds,          \* how many coins are seeded
    Amount,         \* amounts asked for
    MaxOutputs,     \* bound on the outputs asked for
    MaxCreated      \* bound on transactions

ASSUME WalletAssumption ==
    /\ {max_keys, m_seed_value, Seeds, MaxOutputs, MaxCreated} \subseteq Nat
    /\ Amount \subseteq Nat

VARIABLES
    wallet,     \* the members of the wallet
    created,    \* the transactions, by ID
    confirmed   \* history: IDs given to confirm_transaction

walletVars == <<wallet, created, confirmed>>

EmptyWallet ==
    [m_keys |-> 0, m_utxos_set |-> {}, m_spend_queue |-> <<>>, m_balance |-> 0,
     m_seed_from |-> 0, m_seed_to |-> 0]

\* seed() on a new wallet: the seed's key is the first one.
seed(w) == [w EXCEPT !.m_keys = 1, !.m_seed_to = Seeds]

-----------------------------------------------------------------------------
Coin(t, i, value, key) == [tx |-> t, index |-> i, value |-> value, key |-> key]

Output(value, key) == [value |-> value, key |-> key]

create_seeded_input(i) == Coin(0, i, m_seed_value, 1)

input_from_output(t, i) ==
    Coin(t, i, created[t].outputs[i].value, created[t].outputs[i].key)

TotalValue(s) == FoldLeft(LAMBDA total, c : total + c.value, 0, s)

SumCoins(S) == MapThenSumSet(LAMBDA c : c.value, S)

is_spendable(w, coin) == coin.key \in 1..w.m_keys

\* The outcomes of generate_key: the wallet and the key.
generate_key(w) ==
    IF w.m_keys > max_keys
    THEN {<<w, k>> : k \in 1..w.m_keys}
    ELSE {<<[w EXCEPT !.m_keys = @ + 1], w.m_keys + 1>>}

\* balance() and count(), seeded coins included.
balance(w) == w.m_balance + (w.m_seed_to - w.m_seed_from) * m_seed_value

count(w) == Cardinality(w.m_utxos_set) + (w.m_seed_to - w.m_seed_from)

-----------------------------------------------------------------------------
\* The order in which coins are spent: seeded ones, then the oldest.
Spendable(w) ==
    [i \in 1..(w.m_seed_to - w.m_seed_from) |->
        create_seeded_input(w.m_seed_from + i - 1)] \o w.m_spend_queue

\* The wallet without the first n spendable coins.
\* (Faulty: the seeded coins are not counted off.)
WithoutKeepsSeeds(w, n) ==
    LET seeded == Min({n, w.m_seed_to - w.m_seed_from})
        spent == SubSeq(w.m_spend_queue, 1, n - seeded)
    IN  [w EXCEPT !.m_balance = @ - TotalValue(spent),
                  !.m_utxos_set = @ \ ToSet(spent),
                  !.m_spend_queue = SubSeq(@, n - seeded + 1, Len(@))]

Without(w, n) ==
    LET seeded == Min({n, w.m_seed_to - w.m_seed_from})
        spent == SubSeq(w.m_spend_queue, 1, n - seeded)
    IN  [w EXCEPT !.m_seed_from = @ + seeded,
                  !.m_balance = @ - TotalValue(spent),
                  !.m_utxos_set = @ \ ToSet(spent),
                  !.m_spend_queue = SubSeq(@, n - seeded + 1, Len(@))]

\* accumulate_inputs: how many coins are taken for an amount.  None: there is
\* not enough, and the seeded coins are given back.
accumulate_inputs(w, amount) ==
    {n \in 0..Len(Spendable(w)) :
        /\ TotalValue(SubSeq(Spendable(w), 1, n)) >= amount
        /\ \A k \in 0..(n - 1) : TotalValue(SubSeq(Spendable(w), 1, k)) < amount}

FullTx(inputs, outputs) == [inputs |-> inputs, outputs |-> outputs]

\* What a wallet makes of a payment: itself and the transaction.  The change,
\* if any, goes to a key of its own.
\* (Faulty: no change.)
PayWithoutChange(w, amount, Outputs(_)) ==
    {<<Without(w, n), FullTx(SubSeq(Spendable(w), 1, n), Outputs(<<>>))>> :
        n \in accumulate_inputs(w, amount)}

Pay(w, amount, Outputs(_)) ==
    UNION {LET inputs == SubSeq(Spendable(w), 1, n)
               change == TotalValue(inputs) - amount
           IN  IF change = 0
               THEN {<<Without(w, n), FullTx(inputs, Outputs(<<>>))>>}
               ELSE {<<g[1], FullTx(inputs, Outputs(<<Output(change, g[2])>>))>> :
                        g \in generate_key(Without(w, n))} :
           n \in accumulate_inputs(w, amount)}

send_to(w, amount, payee) ==
    Pay(w, amount, LAMBDA change : <<Output(amount, payee)>> \o change)

fan(w, output_count, value, payee) ==
    Pay(w, output_count * value,
        LAMBDA change : change \o [i \in 1..output_count |-> Output(value, payee)])

\* The other send_to: so many inputs in equal parts, the rest in the last one.
\* Nothing if the coins are too few or worth too little.
Parts(total, n, payee) ==
    [i \in 1..n |->
        Output(IF i = n THEN total - (n - 1) * (total \div n) ELSE total \div n,
               payee)]

send_inputs_to(w, input_count, output_count, payee) ==
    {<<Without(w, n), FullTx(SubSeq(Spendable(w), 1, n),
                         Parts(TotalValue(SubSeq(Spendable(w), 1, n)),
                               output_count, payee))>> :
        n \in {k \in {input_count} :
                /\ count(w) >= k
                /\ \/ output_count = 1
                   \/ TotalValue(SubSeq(Spendable(w), 1, k)) >= output_count}}

\* mint_new_coins: a key for every output, the transaction without inputs.
mint_new_coins(w, n_outputs, value) ==
    LET Mint[i \in 0..n_outputs] ==
            IF i = 0 THEN {<<w, FullTx(<<>>, <<>>)>>}
            ELSE UNION {{<<g[1], FullTx(<<>>, Append(m[2].outputs, Output(value, g[2])))>> :
                            g \in generate_key(m[1])} : m \in Mint[i - 1]}
    IN  Mint[n_outputs]

\* update_balance: credits join set and queue if they are new.  Debits leave
\* the set, not the queue.
update_balance(w, credits, debits) ==
    LET new == SelectSeq(credits, LAMBDA c : c \notin w.m_utxos_set)
        erased == debits \cap (w.m_utxos_set \cup ToSet(new))
    IN  [w EXCEPT !.m_utxos_set = (@ \cup ToSet(new)) \ erased,
                  !.m_balance = @ + TotalValue(new) - SumCoins(erased),
                  !.m_spend_queue = @ \o new]

\* wallet::confirm_transaction: the outputs with a key of this wallet.
OwnOutputs(w, t) ==
    SelectSeq([i \in DOMAIN created[t].outputs |-> input_from_output(t, i)],
              LAMBDA c : is_spendable(w, c))

Confirm(w, t) == update_balance(w, OwnOutputs(w, t), ToSet(created[t].inputs))

confirm_inputs(w, credits) == update_balance(w, credits, {})

-----------------------------------------------------------------------------
\* A wallet in the hands of a load generator: transactions are made and
\* confirmed in any order.
WalletInit ==
    /\ wallet = seed(EmptyWallet)
    /\ created = <<>>
    /\ confirmed = {}

Make(results) ==
    /\ Len(created) < MaxCreated
    /\ \E r \in results : wallet' = r[1] /\ created' = Append(created, r[2])
    /\ UNCHANGED confirmed

confirm_transaction(t) ==
    /\ t \in DOMAIN created \ confirmed
    /\ wallet' = Confirm(wallet, t)
    /\ confirmed' = confirmed \cup {t}
    /\ UNCHANGED created

WalletNext ==
    \/ \E n \in 1..MaxOutputs, v \in Amount : Make(mint_new_coins(wallet, n, v))
    \/ \E v \in Amount, payee \in {0, 1} : Make(send_to(wallet, v, payee))
    \/ \E n \in 1..MaxOutputs, v \in Amount, payee \in {0, 1} :
            Make(fan(wallet, n, v, payee))
    \/ \E n \in 1..(MaxOutputs + 1), m \in 1..MaxOutputs, payee \in {0, 1} :
            Make(send_inputs_to(wallet, n, m, payee))
    \/ \E t \in DOMAIN created : confirm_transaction(t)

-----------------------------------------------------------------------------
\* The type invariant of the wallet.
WalletTypeOK ==
    /\ wallet.m_keys \in 0..(max_keys + 1)
    /\ wallet.m_balance \in Nat
    /\ wallet.m_seed_from \in 0..wallet.m_seed_to
    /\ \A c \in wallet.m_utxos_set : is_spendable(wallet, c)

(***************************************************************************)
(* The queue, the set and the balance are three accounts of the same       *)
(* coins, whatever is made and confirmed in whichever order: the queue     *)
(* holds each coin of the set once, as update_balance asserts.             *)
(***************************************************************************)
QueueMatchesSet ==
    /\ IsInjective(wallet.m_spend_queue)
    /\ ToSet(wallet.m_spend_queue) = wallet.m_utxos_set
    /\ wallet.m_balance = SumCoins(wallet.m_utxos_set)

(***************************************************************************)
(* A transaction is worth what it spends (send_to, fan, change), unless it *)
(* mints: the sentinels reject any other.                                  *)
(***************************************************************************)
ValueConserved ==
    \A t \in DOMAIN created :
        created[t].inputs # <<>> =>
            TotalValue(created[t].inputs) = TotalValue(created[t].outputs)

(***************************************************************************)
(* The wallet never spends a coin twice, seeded or not                     *)
(* (accumulate_inputs): the inputs of all its transactions differ.         *)
(***************************************************************************)
NoCoinSpentTwice ==
    \A t, u \in DOMAIN created :
        \A i \in DOMAIN created[t].inputs, j \in DOMAIN created[u].inputs :
            created[t].inputs[i] = created[u].inputs[j] => t = u /\ i = j

(***************************************************************************)
(* No money appears or vanishes: the balance is what was seeded and        *)
(* confirmed less what was put into transactions, also after attempts that *)
(* failed for lack of funds and gave seeded coins back.                    *)
(***************************************************************************)
FundsAccounted ==
    balance(wallet)
        + MapThenSumSet(LAMBDA t : TotalValue(created[t].inputs), DOMAIN created)
      = Seeds * m_seed_value
        + MapThenSumSet(LAMBDA t : TotalValue(OwnOutputs(wallet, t)), confirmed)
=============================================================================

----------------------------- MODULE Validation -----------------------------
(***************************************************************************)
(* What sentinels check of a transaction by itself, without the ledger     *)
(* (src/src/uhs/transaction/validation.cpp), and the hashes the ledger     *)
(* knows it by (transaction.cpp).                                          *)
(*                                                                         *)
(* Totals are kept modulo Modulus, the 2^64 of a uint64_t.  A hash is the  *)
(* sequence of what is hashed, so different data have different hashes.    *)
(* A signature is a Boolean: does it verify for this transaction?          *)
(***************************************************************************)
EXTENDS Naturals, Sequences, SequencesExt, FiniteSetsExt

CONSTANTS
    Modulus,        \* 2^64
    OutPoint,       \* outputs of earlier transactions
    Key,            \* public keys
    InvalidKey,     \* bytes that are not a public key
    MaxInputs, MaxOutputCount   \* bounds on the transactions checked

ASSUME ValidationAssumption ==
    /\ Modulus \in Nat \ {0}
    /\ MaxInputs \in Nat /\ MaxOutputCount \in Nat
    /\ InvalidKey \notin Key

VARIABLES
    full_tx,    \* the transaction at hand
    verdict     \* what check_tx returned; "": nothing yet

validationVars == <<full_tx, verdict>>

uint64 == 0..(Modulus - 1)

\* An output commits to the hash of a key; the hash stands for the key.  (Only
\* an input's is looked at: an output to an invalid key appears as an input.)
output == [m_value : uint64, commitment : Key]

input == [m_prevout : OutPoint, m_value : uint64,
          commitment : Key \cup {InvalidKey}]

witness ==
    [kind : {"empty", "unknown", "wrong_length"}, key : {InvalidKey},
     verifies : {FALSE}]
    \cup [kind : {"p2pk"}, key : Key \cup {InvalidKey}, verifies : BOOLEAN]

-----------------------------------------------------------------------------
NoError == <<"none", 0>>

\* The first index of s, from 1, at which Bad holds; the loops of check_tx
\* return there.
FirstError(s, Bad(_), code) ==
    IF \E i \in DOMAIN s : Bad(i)
    THEN <<code, Min({i \in DOMAIN s : Bad(i)})>>
    ELSE NoError

\* The checks one after the other, up to the first error.
OrElse(err, next) == IF err = NoError THEN next ELSE err

check_output_value(out) == out.m_value < 1

check_input_set(tx) ==
    FirstError(tx.m_inputs,
               LAMBDA i : \E j \in 1..(i - 1) :
                    tx.m_inputs[j].m_prevout = tx.m_inputs[i].m_prevout,
               "duplicate")

check_tx_structure(tx) ==
    IF tx.m_inputs = <<>> THEN <<"no_inputs", 0>>
    ELSE IF tx.m_outputs = <<>> THEN <<"no_outputs", 0>>
    ELSE IF Len(tx.m_inputs) # Len(tx.m_witness) THEN <<"missing_witness", 0>>
    ELSE check_input_set(tx)

\* The total of the values, or Modulus where the running total wraps around.
\* (Faulty: it is not noticed.)
TotalWraps(s) == FoldLeft(LAMBDA total, o : (total + o.m_value) % Modulus, 0, s)

Total(s) ==
    FoldLeft(LAMBDA total, o :
                IF total = Modulus \/ (total + o.m_value) % Modulus <= total
                THEN Modulus
                ELSE total + o.m_value, 0, s)

check_in_out_set(tx) ==
    IF Total(tx.m_inputs) = Modulus \/ Total(tx.m_outputs) = Modulus
    THEN <<"value_overflow", 0>>
    ELSE IF Total(tx.m_inputs) # Total(tx.m_outputs)
    THEN <<"asymmetric_values", 0>>
    ELSE NoError

\* check_witness and check_p2pk_witness: the reason, "none" if there is none.
check_witness(tx, i) ==
    LET wit == tx.m_witness[i]
    IN  CASE wit.kind = "empty" -> "missing_witness_program_type"
          [] wit.kind = "unknown" -> "unknown_witness_program_type"
          [] wit.kind = "wrong_length" -> "malformed"
          [] wit.kind = "p2pk" /\ wit.key # tx.m_inputs[i].commitment ->
                "program_mismatch"
          [] wit.kind = "p2pk" /\ wit.key = tx.m_inputs[i].commitment ->
                IF wit.key = InvalidKey THEN "invalid_public_key"
                ELSE IF wit.verifies THEN "none" ELSE "invalid_signature"

WitnessError(tx) ==
    LET bad == {i \in DOMAIN tx.m_witness : check_witness(tx, i) # "none"}
    IN  IF bad = {} THEN NoError
        ELSE <<check_witness(tx, Min(bad)), Min(bad)>>

check_tx(tx) ==
    OrElse(check_tx_structure(tx),
    OrElse(FirstError(tx.m_inputs,
               LAMBDA i : check_output_value(tx.m_inputs[i]), "data_error"),
    OrElse(FirstError(tx.m_outputs,
               LAMBDA i : check_output_value(tx.m_outputs[i]), "zero_value"),
    OrElse(check_in_out_set(tx), WitnessError(tx)))))

-----------------------------------------------------------------------------
\* Hashes: of a transaction, of an input, of an output (its UHS ID).
tx_id(tx) == <<tx.m_inputs, tx.m_outputs>>

input_hash(in) == <<in.m_prevout[1], in.m_prevout[2], in.m_value, in.commitment>>

uhs_id_from_output(entropy, i, out) ==
    <<entropy, i, out.m_value, out.commitment>>

spend_output(tx, i) ==
    [m_prevout |-> <<tx_id(tx), i>>, m_value |-> tx.m_outputs[i].m_value,
     commitment |-> tx.m_outputs[i].commitment]

compact_tx(tx) ==
    [m_id |-> tx_id(tx),
     m_inputs |-> [i \in DOMAIN tx.m_inputs |-> input_hash(tx.m_inputs[i])],
     m_uhs_outputs |-> [i \in DOMAIN tx.m_outputs |->
                        uhs_id_from_output(tx_id(tx), i, tx.m_outputs[i])]]

\* check_attestations: enough of them, and each by a known sentinel and valid.
check_attestations(attestations, pubkeys, threshold) ==
    /\ Cardinality(attestations) >= threshold
    /\ \A att \in attestations : att.pubkey \in pubkeys /\ att.verifies

-----------------------------------------------------------------------------
\* A transaction arrives and is checked.
full_txs ==
    [m_inputs : BoundedSeq(input, MaxInputs),
     m_outputs : BoundedSeq(output, MaxOutputCount),
     m_witness : BoundedSeq(witness, MaxInputs)]

NoTx == [m_inputs |-> <<>>, m_outputs |-> <<>>, m_witness |-> <<>>]

ValidationInit == full_tx \in full_txs /\ verdict = <<"", 0>>

ValidationNext ==
    /\ verdict = <<"", 0>>
    /\ verdict' = check_tx(full_tx)
    /\ UNCHANGED full_tx

-----------------------------------------------------------------------------
SumOf(s) == FoldLeft(LAMBDA total, o : total + o.m_value, 0, s)

\* What a transaction must be, with exact totals.
WellFormed(tx) ==
    /\ Len(tx.m_inputs) > 0 /\ Len(tx.m_outputs) > 0
    /\ Len(tx.m_witness) = Len(tx.m_inputs)
    /\ \A i, j \in DOMAIN tx.m_inputs :
            i # j => tx.m_inputs[i].m_prevout # tx.m_inputs[j].m_prevout
    /\ \A o \in ToSet(tx.m_inputs) \cup ToSet(tx.m_outputs) : o.m_value > 0
    /\ SumOf(tx.m_inputs) = SumOf(tx.m_outputs)
    /\ SumOf(tx.m_inputs) < Modulus
    /\ \A i \in DOMAIN tx.m_witness :
            /\ tx.m_witness[i].kind = "p2pk"
            /\ tx.m_witness[i].key = tx.m_inputs[i].commitment
            /\ tx.m_witness[i].key # InvalidKey
            /\ tx.m_witness[i].verifies

(***************************************************************************)
(* check_tx accepts exactly the well-formed transactions: in particular no *)
(* money is made by totals that wrap around, and none that fits is refused *)
(* (check_in_out_set).                                                     *)
(***************************************************************************)
AcceptsWellFormed ==
    verdict[1] # "" => (verdict = NoError <=> WellFormed(full_tx))

(***************************************************************************)
(* The error a client is told is the one its transaction has: an overflow  *)
(* is one of the exact totals, a duplicate has an earlier twin, and the    *)
(* input of a witness error has none of the errors checked before.         *)
(***************************************************************************)
ErrorIsReal ==
    LET ins == full_tx.m_inputs
        outs == full_tx.m_outputs
        i == verdict[2]
    IN  CASE verdict[1] = "value_overflow" ->
                SumOf(ins) >= Modulus \/ SumOf(outs) >= Modulus
          [] verdict[1] = "asymmetric_values" -> SumOf(ins) # SumOf(outs)
          [] verdict[1] = "duplicate" ->
                \E j \in DOMAIN ins : j < i /\ ins[j].m_prevout = ins[i].m_prevout
          [] verdict[1] = "invalid_signature" ->
                /\ SumOf(ins) = SumOf(outs)
                /\ ~full_tx.m_witness[i].verifies
                /\ full_tx.m_witness[i].key = ins[i].commitment
          [] OTHER -> TRUE

(***************************************************************************)
(* An output is spent under the UHS ID it was created with: the hash of    *)
(* the input made from it is the one compact_tx gives the ledger for the   *)
(* output, and no two outputs share one (input::hash, uhs_id_from_output). *)
(***************************************************************************)
SpentAsCreated ==
    LET ids == compact_tx(full_tx).m_uhs_outputs
    IN  /\ \A i \in DOMAIN full_tx.m_outputs :
                ids[i] = input_hash(spend_output(full_tx, i))
        /\ IsInjective(ids)

(***************************************************************************)
(* check_tx is right about every transaction, and the compact transaction  *)
(* made from one it accepts names the outputs the ledger will look for     *)
(* (check_tx, compact_tx).                                                 *)
(***************************************************************************)
ValidationSound == AcceptsWellFormed /\ ErrorIsReal /\ SpentAsCreated
=============================================================================

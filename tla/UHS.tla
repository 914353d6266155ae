-------------------------------- MODULE UHS --------------------------------
(***************************************************************************)
(* What every architecture promises about the unspent hash set: one set of *)
(* hashes, in which a transaction with enough attestations settles at one  *)
(* instant, and only if all of its inputs are in the set.  Transactions    *)
(* that settle together share no input.                                    *)
(***************************************************************************)
EXTENDS Transactions

VARIABLE uhs

UHSInit == uhs = Seed

Settle(S) ==
    /\ \A t, u \in S : t # u => ~Conflict(t, u)
    /\ UNION {m_inputs[t] : t \in S} \subseteq uhs
    /\ uhs' = (uhs \ UNION {m_inputs[t] : t \in S})
                \cup UNION {m_uhs_outputs[t] : t \in S}

UHSNext == \E S \in SUBSET Attested : S # {} /\ Settle(S)

UHSSpec == UHSInit /\ [][UHSNext]_uhs
=============================================================================

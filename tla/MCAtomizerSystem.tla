-------------------------- MODULE MCAtomizerSystem --------------------------
(***************************************************************************)
(* Two shards and two atomizer nodes.  t1 and t2 compete for a, t1 needs   *)
(* both shards, and t3 mints.  The initial state chooses whether the       *)
(* atomizer is driven by the system or by any true attestations, with      *)
(* insert as well as insert_complete.                                      *)
(***************************************************************************)
EXTENDS AtomizerSystem, TLC

CONSTANTS a, b, c, d, t1, t2, t3, s1, s2

MCTx == {t1, t2, t3}
MCUhsId == {a, b, c, d}
MCInputs == (t1 :> {a, b} @@ t2 :> {a} @@ t3 :> {})
MCOutputs == (t1 :> {} @@ t2 :> {d} @@ t3 :> {c})
MCSeed == {a, b}
MCCovers == (s1 :> {a, d} @@ s2 :> {b, c})

VARIABLE driver

vars == <<driver, systemVars>>

Init == SystemInit /\ driver \in {"system", "attestations"}

Next ==
    /\ UNCHANGED driver
    /\ \/ driver = "system" /\ SystemNext
       \/ driver = "attestations" /\ AtomizerNext /\ UNCHANGED <<nodeVars, shardVars>>

Spec == Init /\ [][Next]_vars

NodeSymmetry == Permutations(Node)
=============================================================================

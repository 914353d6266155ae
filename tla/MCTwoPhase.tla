----------------------------- MODULE MCTwoPhase -----------------------------
(***************************************************************************)
(* Two shards and three transactions.  t1 and t2 compete for a; t3 spends  *)
(* the output of t1; every transaction involves both shards.               *)
(***************************************************************************)
EXTENDS TwoPhase, TLC

CONSTANTS a, b, c, g, f, t1, t2, t3, s1, s2

MCTx == {t1, t2, t3}
MCUhsId == {a, b, c, g, f}
MCInputs == (t1 :> {a} @@ t2 :> {a, b} @@ t3 :> {c})
MCOutputs == (t1 :> {c} @@ t2 :> {g} @@ t3 :> {f})
MCHomeShard == (a :> s1 @@ b :> s2 @@ c :> s2 @@ g :> s1 @@ f :> s1)
MCTxShard == (t1 :> s1 @@ t2 :> s2 @@ t3 :> s2)
MCSeed == {a, b}
DtxSymmetry == Permutations(Dtx)
=============================================================================

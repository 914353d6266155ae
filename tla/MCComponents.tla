---------------------------- MODULE MCComponents ----------------------------
(***************************************************************************)
(* Components that are checked on their own, one per behaviour: the        *)
(* initial state chooses the subject, and the others stay as they are.     *)
(***************************************************************************)
EXTENDS CacheSet, Watchtower, Client, Validation, RaftStore, TicketMachine, Codec,
        MCEvm

CONSTANTS
    Subject,    \* the components of this run
    id1, id2, id3, t1, t2, t3

MCTx == {t1, t2, t3}
MCUhsId == {id1, id2, id3}
MCInputs == (t1 :> {id1} @@ t2 :> {id2} @@ t3 :> {id1})
MCOutputs == (t1 :> {id2} @@ t2 :> {id3} @@ t3 :> {})
MCSeed == {id1}
MCOutPoint == {<<t1, 1>>, <<t2, 1>>}

VARIABLE subject

vars == <<subject, cacheVars, watchtowerVars, clientVars, validationVars,
          storeVars, ticketVars, codecVars, evmVars>>

\* The components other than s do not change.
Still(s) ==
    /\ UNCHANGED subject
    /\ IF s = "cache" THEN TRUE ELSE UNCHANGED cacheVars
    /\ IF s = "watchtower" THEN TRUE ELSE UNCHANGED watchtowerVars
    /\ CASE s = "wallet" -> UNCHANGED <<pendingVars, fileVars, todo, current,
                                         ledgerVars, historyVars>>
         [] s = "client" -> TRUE
         [] OTHER -> UNCHANGED clientVars
    /\ IF s = "validation" THEN TRUE ELSE UNCHANGED validationVars
    /\ IF s = "store" THEN TRUE ELSE UNCHANGED storeVars
    /\ IF s = "tickets" THEN TRUE ELSE UNCHANGED ticketVars
    /\ IF s = "codec" THEN TRUE ELSE UNCHANGED codecVars
    /\ IF s = "evm" THEN TRUE ELSE UNCHANGED evmVars

MCQueryIdle == CHOOSE q \in MCQuery : q.fn = "unknown"

\* A component that is not the subject has one initial state.
Init ==
    /\ subject \in Subject
    /\ CacheInit /\ WatchtowerInit
    /\ IF subject = "wallet" THEN WalletInit /\ ClientIdle ELSE ClientInit
    /\ IF subject = "validation" THEN ValidationInit
       ELSE full_tx = NoTx /\ verdict = <<"", 0>>
    /\ StoreInit /\ TicketsInit
    /\ IF subject = "codec" THEN CodecInit ELSE CodecIdle
    /\ IF subject = "evm" THEN TRUE ELSE m_tx = MCQueryIdle
    /\ EvmInit

Next ==
    \/ subject = "cache" /\ CacheNext /\ Still("cache")
    \/ subject = "watchtower" /\ WatchtowerNext /\ Still("watchtower")
    \/ subject = "wallet" /\ WalletNext /\ Still("wallet")
    \/ subject = "client" /\ ClientNext /\ Still("client")
    \/ subject = "validation" /\ ValidationNext /\ Still("validation")
    \/ subject = "store" /\ StoreNext /\ Still("store")
    \/ subject = "tickets" /\ TicketsNext /\ Still("tickets")
    \/ subject = "codec" /\ CodecNext /\ Still("codec")
    \/ subject = "evm" /\ EvmNext /\ Still("evm")

Spec == Init /\ [][Next]_vars

-----------------------------------------------------------------------------
(***************************************************************************)
(* A wallet that is used without a client keeps one account of its coins   *)
(* in queue, set and balance, spends no coin twice, and neither makes nor  *)
(* loses money (wallet.cpp).  A client may give coins back or credit them  *)
(* from elsewhere.                                                         *)
(***************************************************************************)
WalletSound ==
    subject = "wallet" =>
        /\ WalletTypeOK /\ QueueMatchesSet /\ ValueConserved
        /\ NoCoinSpentTwice /\ FundsAccounted

(***************************************************************************)
(* A client and its two files, killed at any step or not: keys are saved   *)
(* before they are paid, no coin is in two pending transactions, none is   *)
(* counted that is not there, and none is forgotten unless the process is  *)
(* killed inside save() (client.cpp).                                      *)
(***************************************************************************)
ClientSound ==
    subject = "client" =>
        /\ WalletTypeOK /\ QueueMatchesSet /\ ValueConserved
        /\ KeysSavedBeforeUse /\ NoCoinTwicePending
        /\ NoFalseCoin /\ NoCoinForgotten
=============================================================================

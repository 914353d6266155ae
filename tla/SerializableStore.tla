-------------------------- MODULE SerializableStore --------------------------
(***************************************************************************)
(* What PArSEC promises of the contracts it runs: a contract takes effect  *)
(* in one step or not at all, and the values it read are those of the      *)
(* store at that step.                                                     *)
(***************************************************************************)
CONSTANTS Keys, Tickets, Values, EmptyValue

VARIABLES
    store,      \* the value of every key
    history     \* per ticket, what it read and wrote, once it took effect

NotExecuted == [reads |-> <<>>, writes |-> <<>>]

Maps == UNION {[K -> Values] : K \in SUBSET Keys}

Init ==
    /\ store = [k \in Keys |-> EmptyValue]
    /\ history = [t \in Tickets |-> NotExecuted]

Execute(t) ==
    /\ history[t] = NotExecuted
    /\ history' = [history EXCEPT ![t] = history'[t]]
    /\ history'[t].reads \in Maps \ {<<>>}
    /\ history'[t].writes \in Maps
    /\ \A k \in DOMAIN history'[t].reads : store[k] = history'[t].reads[k]
    /\ store' = [k \in Keys |->
                    IF k \in DOMAIN history'[t].writes
                    THEN history'[t].writes[k] ELSE store[k]]

Next == \E t \in Tickets : Execute(t)

Spec == Init /\ [][Next]_<<store, history>>

=============================================================================

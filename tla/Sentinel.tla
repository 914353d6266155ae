------------------------------ MODULE Sentinel ------------------------------
(***************************************************************************)
(* A sentinel executing one transaction in either architecture             *)
(* (src/src/uhs/atomizer/sentinel/controller.cpp and                       *)
(* src/src/uhs/twophase/sentinel_2pc/controller.cpp): it validates the     *)
(* transaction, collects attestations from the other sentinels one at a    *)
(* time, and forwards the compact transaction to shards or to a            *)
(* coordinator, whose answer it passes on.                                 *)
(***************************************************************************)
EXTENDS Validation

CONSTANTS
    Others,         \* the other sentinels of m_sentinel_clients
    Self,           \* this one
    Thresholds,     \* the values of m_attestation_threshold explored
    NumInputs,      \* inputs 1..NumInputs of the transaction
    MaxDisconnects, \* bound on lost connections
    m_shard_data    \* the inputs within the range of each shard, a sequence

ASSUME SentinelAssumption ==
    /\ Self \notin Others
    /\ \A n \in Thresholds : n \in Nat /\ n <= Cardinality(Others) + 1
    /\ NumInputs \in Nat \ {0} /\ MaxDisconnects \in Nat
    /\ m_shard_data # <<>>
    /\ \A i \in DOMAIN m_shard_data : m_shard_data[i] \subseteq 1..NumInputs

VARIABLES
    architecture,           \* "atomizer" or "2pc"
    m_attestation_threshold,
    statically_valid,       \* does check_tx accept the transaction?
    s_state,                \* where execute_transaction is
    m_attestations,         \* of the compact transaction, by their signer
    requested, asked,       \* gather_attestations; asked: the call that is out
    answer_lost,            \* the answer to the call that is out will not come
    online,                 \* the other sentinels that can be sent to
    coordinator_online,
    disconnects,            \* connections lost so far
    recipients,             \* the shards the transaction was sent to
    answers                 \* calls of result_callback

sentinelVars == <<architecture, m_attestation_threshold, statically_valid,
                  s_state, m_attestations, requested, asked, answer_lost, online,
                  coordinator_online, disconnects, recipients, answers>>

settings == <<architecture, m_attestation_threshold, statically_valid>>

Attestation(who) == [pubkey |-> who, verifies |-> TRUE]

-----------------------------------------------------------------------------
SentinelInit ==
    /\ architecture \in {"atomizer", "2pc"}
    /\ m_attestation_threshold \in Thresholds
    /\ statically_valid \in BOOLEAN
    /\ s_state = "new"
    /\ m_attestations = {} /\ requested = {} /\ asked = {} /\ answer_lost = FALSE
    /\ online \in SUBSET Others /\ coordinator_online \in BOOLEAN
    /\ disconnects = 0 /\ recipients = {} /\ answers = <<>>

\* A sentinel without a transaction.
SentinelIdle ==
    /\ architecture = "atomizer" /\ m_attestation_threshold = 0
    /\ statically_valid = TRUE
    /\ s_state = "done"
    /\ m_attestations = {} /\ requested = {} /\ asked = {} /\ answer_lost = FALSE
    /\ online = {} /\ coordinator_online = FALSE
    /\ disconnects = 0 /\ recipients = {} /\ answers = <<>>

\* gather_attestations: on to sending once there are enough.
\* (Faulty: one too few.)
GatherOneLess(attestations) ==
    IF Cardinality(attestations) + 1 < m_attestation_threshold
    THEN "gather" ELSE "send"

Gather(attestations) ==
    IF Cardinality(attestations) < m_attestation_threshold
    THEN "gather" ELSE "send"

\* The atomizer's sentinel answers at once; the other one later, except about
\* an invalid transaction.
execute_transaction ==
    /\ s_state = "new"
    /\ m_attestations' =
            IF statically_valid /\ (architecture = "atomizer"
                                    \/ m_attestation_threshold > 0)
            THEN {Attestation(Self)} ELSE {}
    /\ s_state' = IF statically_valid THEN Gather(m_attestations') ELSE "done"
    /\ answers' = CASE ~statically_valid -> <<"static_invalid">>
                    [] statically_valid /\ architecture = "atomizer" ->
                            <<"pending">>
                    [] OTHER -> <<>>
    /\ UNCHANGED <<settings, requested, asked, answer_lost, online,
                   coordinator_online, disconnects, recipients>>

\* One turn of the loop that picks another sentinel at random and succeeds in
\* sending to it; the turns that fail change nothing.
\* (Faulty: one that could not be sent to is not tried again.)
validate_transaction_at_once(x) ==
    /\ s_state = "gather"
    /\ x \notin requested
    /\ s_state' = IF x \in online THEN "waiting" ELSE "gather"
    /\ asked' = {x} \cap online
    /\ requested' = requested \cup ({x} \ online)
    /\ UNCHANGED <<settings, m_attestations, answer_lost, online, coordinator_online,
                   disconnects, recipients, answers>>

validate_transaction_at(x) ==
    /\ s_state = "gather"
    /\ x \notin requested /\ x \in online
    /\ s_state' = "waiting"
    /\ asked' = {x}
    /\ UNCHANGED <<settings, m_attestations, requested, answer_lost, online,
                   coordinator_online, disconnects, recipients, answers>>

\* The other sentinel's attestation.
attestation_received ==
    /\ s_state = "waiting" /\ ~answer_lost
    /\ requested' = requested \cup asked
    /\ asked' = {}
    /\ m_attestations' = m_attestations \cup {Attestation(x) : x \in asked}
    /\ s_state' = Gather(m_attestations')
    /\ UNCHANGED <<settings, answer_lost, online, coordinator_online, disconnects,
                   recipients, answers>>

\* validate_result_handler without a value: the transaction ends here.
no_attestation_received ==
    /\ s_state = "waiting" /\ ~answer_lost
    /\ asked' = {}
    /\ s_state' = "done"
    /\ answers' = IF architecture = "2pc" THEN Append(answers, "none")
                  ELSE answers
    /\ UNCHANGED <<settings, m_attestations, requested, answer_lost, online,
                   coordinator_online, disconnects, recipients>>

\* The loop of the atomizer's send_compact_tx over the shards from a random
\* offset.  It looks at input i of the transaction at turn i, whichever input
\* j it is about, and beyond the last input reads what happens to be there.
InRange(shard, i) ==
    IF i <= NumInputs THEN {i \in m_shard_data[shard]} ELSE BOOLEAN

\* The shard it is sent to, if any, with the shards up connected: the first
\* one in whose range the input is found.
Recipients(up, offset) ==
    LET Shards == Len(m_shard_data)
        idx(i) == ((i - 1 + offset) % Shards) + 1   \* the shard of turn i
        Turns == {i \in 1..Shards : idx(i) \in up}
        Missed(S) == \A i \in S : FALSE \in InRange(idx(i), i)
    IN  {{idx(i)} : i \in {j \in Turns : /\ TRUE \in InRange(idx(j), j)
                                        /\ Missed(Turns \cap 1..(j - 1))}}
        \cup {{} : all \in {TRUE} \cap {Missed(Turns)}}

send_to_shards ==
    /\ s_state = "send" /\ architecture = "atomizer"
    /\ \E up \in SUBSET DOMAIN m_shard_data,
          offset \in 0..(Len(m_shard_data) - 1) :
            recipients' \in Recipients(up, offset)
    /\ s_state' = "done"
    /\ UNCHANGED <<settings, m_attestations, requested, asked, answer_lost, online,
                   coordinator_online, disconnects, answers>>

\* send_compact_tx of the two-phase sentinel retries until it is sent.
send_to_coordinator ==
    /\ s_state = "send" /\ architecture = "2pc"
    /\ coordinator_online
    /\ s_state' = "sent"
    /\ UNCHANGED <<settings, m_attestations, requested, asked, answer_lost, online,
                   coordinator_online, disconnects, recipients, answers>>

result_handler ==
    /\ s_state = "sent" /\ ~answer_lost
    /\ s_state' = "done"
    /\ \E a \in {"confirmed", "state_invalid", "none"} :
            answers' = Append(answers, a)
    /\ UNCHANGED <<settings, m_attestations, requested, asked, answer_lost, online,
                   coordinator_online, disconnects, recipients>>

\* Connections come and go.
Reconnect ==
    /\ s_state # "done"
    /\ \/ \E x \in Others \ online : online' = online \cup {x}
          /\ UNCHANGED coordinator_online
       \/ ~coordinator_online /\ coordinator_online' = TRUE /\ UNCHANGED online
    /\ UNCHANGED <<settings, s_state, m_attestations, requested, asked, answer_lost,
                   disconnects, recipients, answers>>

\* The connection over which the answer is due may take it along, unless it
\* has arrived: a call with a callback has no timeout, and nobody asks again.
Disconnect ==
    /\ s_state # "done"
    /\ disconnects < MaxDisconnects /\ disconnects' = disconnects + 1
    /\ \/ \E x \in online :
            /\ online' = online \ {x}
            /\ answer_lost' \in {answer_lost, answer_lost \/ x \in asked}
            /\ UNCHANGED coordinator_online
       \/ /\ coordinator_online /\ coordinator_online' = FALSE
          /\ answer_lost' \in {answer_lost, answer_lost \/ s_state = "sent"}
          /\ UNCHANGED online
    /\ UNCHANGED <<settings, s_state, m_attestations, requested, asked,
                   recipients, answers>>

\* What the sentinel does by itself or on an answer.
SentinelStep ==
    \/ execute_transaction
    \/ \E x \in Others : validate_transaction_at(x)
    \/ attestation_received
    \/ no_attestation_received
    \/ send_to_shards
    \/ send_to_coordinator
    \/ result_handler

SentinelNext == SentinelStep \/ Reconnect \/ Disconnect

SentinelSpec == SentinelInit /\ [][SentinelNext]_sentinelVars

-----------------------------------------------------------------------------
\* The values the variables can have.
SentinelTypeOK ==
    /\ architecture \in {"atomizer", "2pc"}
    /\ m_attestation_threshold \in Thresholds
    /\ statically_valid \in BOOLEAN
    /\ s_state \in {"new", "gather", "waiting", "send", "sent", "done"}
    /\ {att.pubkey : att \in m_attestations} \subseteq Others \cup {Self}
    /\ requested \subseteq Others /\ online \subseteq Others
    /\ asked \subseteq Others /\ (asked # {} <=> s_state = "waiting")
    /\ answer_lost \in BOOLEAN /\ (answer_lost => s_state \in {"waiting", "sent"})
    /\ coordinator_online \in BOOLEAN
    /\ disconnects \in 0..MaxDisconnects
    /\ recipients \subseteq DOMAIN m_shard_data
    /\ Len(answers) <= 1

(***************************************************************************)
(* What a sentinel forwards passes check_attestations at the shard or      *)
(* coordinator that receives it, which would otherwise drop it without a   *)
(* word (gather_attestations against check_attestations).                  *)
(***************************************************************************)
ForwardedIsAttested ==
    s_state \in {"send", "sent"} \/ recipients # {} =>
        /\ statically_valid
        /\ check_attestations(m_attestations, Others \cup {Self},
                              m_attestation_threshold)

(***************************************************************************)
(* The client of the two-phase sentinel is answered exactly once, and when *)
(* nothing more can happen to its transaction: a refusal is never followed *)
(* by a confirmation (validate_result_handler, result_handler).            *)
(***************************************************************************)
AnsweredAtTheEnd ==
    architecture = "2pc" => (Len(answers) = IF s_state = "done" THEN 1 ELSE 0)

\* Nobody it still needs is connected.
CutOff ==
    \/ /\ s_state = "gather"
       /\ online \subseteq {att.pubkey : att \in m_attestations}
    \/ s_state = "send" /\ architecture = "2pc" /\ ~coordinator_online

(***************************************************************************)
(* An execution ends although sentinels and coordinators are unreachable   *)
(* for a while (the retry loops of gather_attestations and                 *)
(* send_compact_tx).  Two things may keep it from its end for good: nobody *)
(* left to send to, and an answer lost with its connection, which neither  *)
(* a timeout nor a retry makes up for.                                     *)
(***************************************************************************)
ExecutionEnds == s_state = "new" ~> s_state = "done" \/ answer_lost \/ []CutOff

(***************************************************************************)
(* With every shard connected, the transaction reaches a shard for each of *)
(* its inputs.  docs/uhs-architectures.md:147 says so; it takes one        *)
(* attestation from each of them for the atomizer to complete it.          *)
(***************************************************************************)
ReachesEveryInput ==
    architecture = "atomizer" /\ s_state = "send" =>
        \A offset \in 0..(Len(m_shard_data) - 1) :
            \A to \in Recipients(DOMAIN m_shard_data, offset) :
                UNION {m_shard_data[i] : i \in to} = 1..NumInputs

(***************************************************************************)
(* A sentinel forwards only what will be accepted, and the client of the   *)
(* two-phase sentinel hears once and at the end (execute_transaction).     *)
(***************************************************************************)
SentinelSound == SentinelTypeOK /\ ForwardedIsAttested /\ AnsweredAtTheEnd
=============================================================================

---------------------------- MODULE MCProcesses ----------------------------
(***************************************************************************)
(* The parts with threads and connections of their own, one per behaviour: *)
(* the initial state chooses the subject, and the others stay as they are. *)
(***************************************************************************)
EXTENDS CoordinatorThreads, BlockFeed, Sentinel, Peer, Rpc, TLC

CONSTANTS
    Subject,    \* the components of this run
    c1, c2, t1, t2

MCOutPoint == {<<t1, 1>>, <<t2, 1>>}
MCShardData == <<{1}, {2}, {1}>>

VARIABLE subject

vars == <<subject, threadsVars, feedVars, validationVars, sentinelVars, peerVars,
          rpcVars>>

\* The components other than s do not change.
Still(s) ==
    /\ UNCHANGED <<subject, validationVars>>
    /\ IF s = "threads" THEN TRUE ELSE UNCHANGED threadsVars
    /\ IF s = "feed" THEN TRUE ELSE UNCHANGED feedVars
    /\ IF s = "sentinel" THEN TRUE ELSE UNCHANGED sentinelVars
    /\ IF s = "peer" THEN TRUE ELSE UNCHANGED peerVars
    /\ IF s = "rpc" THEN TRUE ELSE UNCHANGED rpcVars

\* Two callers, up to their names.
MCKinds == {<<"wait", "timeout">>, <<"wait", "async">>, <<"timeout", "async">>}

\* A component that is not the subject has one initial state.
Init ==
    /\ subject \in Subject
    /\ ThreadsInit
    /\ FeedInit
    /\ subject # "feed" => client = "shard"
    /\ full_tx = NoTx /\ verdict = <<"", 0>>
    /\ IF subject = "sentinel" THEN SentinelInit ELSE SentinelIdle
    /\ IF subject = "peer" THEN TRUE
       ELSE m_attempt_reconnect = TRUE /\ sock = "up"
    /\ PeerInit
    /\ IF subject = "rpc"
       THEN rpcKind \in {c1 :> k[1] @@ c2 :> k[2] : k \in MCKinds}
       ELSE /\ rpcKind = [x \in Caller |-> "wait"]
            /\ asyncHandler = [x \in RpcServer |-> TRUE]
            /\ connection = [x \in RpcServer |-> TRUE]
    /\ RpcInit

Next ==
    \/ subject = "threads" /\ ThreadsNext /\ Still("threads")
    \/ subject = "feed" /\ FeedNext /\ Still("feed")
    \/ subject = "sentinel" /\ SentinelNext /\ Still("sentinel")
    \/ subject = "peer" /\ PeerNext /\ Still("peer")
    \/ subject = "rpc" /\ RpcNext /\ Still("rpc")

Spec == Init /\ [][Next]_vars

\* The fairness of the subject's own specification.
FairSpec ==
    /\ Spec
    /\ WF_threadsVars(subject = "threads" /\ StarterStep)
    /\ WF_threadsVars(subject = "threads" /\ HandlerStep)
    /\ WF_threadsVars(subject = "threads" /\ BatcherStep)
    /\ \A x \in ExecThread : WF_threadsVars(subject = "threads" /\ ExecDone(x))
    /\ WF_feedVars(subject = "feed" /\ FeedProgress)
    /\ WF_sentinelVars(subject = "sentinel" /\ SentinelStep)
    /\ WF_peerVars(subject = "peer" /\ do_send)
    /\ WF_peerVars(subject = "peer" /\ do_recv)
    /\ WF_peerVars(subject = "peer" /\ (do_reconnect \/ peer_close))
    /\ WF_peerVars(subject = "peer" /\ downPc # "idle" /\ peer_shutdown)
    /\ WF_rpcVars(subject = "rpc" /\ RpcStep)

-----------------------------------------------------------------------------
(***************************************************************************)
(* Peers: whatever breaks, reconnects and shuts down, no packet is written *)
(* twice or out of order and no thread is started over a running one       *)
(* (peer.cpp).  Remote calls: however calls, answers, timeouts, breaks and *)
(* the client's destruction interleave, a caller gets the answer to its    *)
(* own request, once, and every request is executed at most once per send  *)
(* (tcp_client.hpp, connection_manager.cpp).                               *)
(***************************************************************************)
NetworkSound ==
    /\ subject = "peer" => PeerSound
    /\ subject = "rpc" => RpcSound

(***************************************************************************)
(* A broken connection is noticed and closed, shutdown returns unless its  *)
(* notification was lost; calls with a timeout return, all calls return    *)
(* once the client closes, and while connections hold every request is     *)
(* answered, unless the handler missed the notification of the close       *)
(* (peer.cpp, tcp_client.hpp, connection_manager.cpp).                     *)
(***************************************************************************)
NetworkLive == PeerLive /\ RpcLive
=============================================================================

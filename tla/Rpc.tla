--------------------------------- MODULE Rpc ---------------------------------
(***************************************************************************)
(* RPC over TCP: a tcp_client with its callers, the connection managers at *)
(* both ends, and tcp_servers with a blocking or an asynchronous handler   *)
(* (src/util/rpc, src/util/network/connection_manager.cpp).                *)
(*                                                                         *)
(* A connection keeps the order of packets; it may break, which loses what *)
(* is under way, and the client's peer reconnects, which the server takes  *)
(* for a new peer.  (Peer models the threads of one connection.)  A caller *)
(* calls once: it waits without a limit, waits with a timeout, or gives a  *)
(* callback.                                                               *)
(***************************************************************************)
EXTENDS Naturals, SequencesExt

CONSTANTS
    Caller,
    RpcServer,
    MaxConnectionBreaks

VARIABLES
    rpcKind,            \* per caller: "wait", "timeout" or "async"
    rpcPc,              \* per caller: "idle", "sending", "waiting", "returned"
    request_id,         \* per caller, the id of its request
    m_current_request_id,
    m_responses,        \* the callers whose entry is in m_responses
    promise,            \* per caller, <<>> or the value its promise was set to
    rpcResults,         \* per caller, what it or its callback was given, in order
    rpcClient,          \* "open", "closed" (m_net), "hung" or "destroyed"
    asyncHandler,       \* per server, whether its handler is asynchronous
    connection,         \* per server, whether the client's peer is connected
    outgoing, incoming, \* per server, packets queued or under way
    clientNet,          \* the client's connection manager
    serverNet,          \* per server, its connection manager
    callbacks,          \* per server, requests whose answer is due
    executions,         \* per caller, how often its request was executed
    connectionBreaks

callVars == <<rpcKind, rpcPc, request_id, m_current_request_id, m_responses,
              promise, rpcResults, rpcClient>>
wireVars == <<connection, outgoing, incoming, connectionBreaks>>
serverVars == <<asyncHandler, serverNet, callbacks, executions>>
rpcVars == <<callVars, wireVars, clientNet, serverVars>>

Nullopt == "nullopt"

\* A connection manager: a queue of received packets per peer, the flag that
\* some have packets, and the packets its handler has taken.
Manager(peers) ==
    [m_async_recv_queues |-> [i \in peers |-> <<>>],
     m_async_recv_data |-> FALSE, pkts |-> <<>>]

RpcInit ==
    /\ rpcKind \in [Caller -> {"wait", "timeout", "async"}]
    /\ rpcPc = [c \in Caller |-> "idle"]
    /\ request_id = [c \in Caller |-> 0]
    /\ m_current_request_id = 0
    /\ m_responses = {}
    /\ promise = [c \in Caller |-> <<>>]
    /\ rpcResults = [c \in Caller |-> <<>>]
    /\ rpcClient = "open"
    /\ asyncHandler \in [RpcServer -> BOOLEAN]
    /\ connection \in [RpcServer -> BOOLEAN]        \* init without error_fatal
    /\ outgoing = [s \in RpcServer |-> <<>>]
    /\ incoming = [s \in RpcServer |-> <<>>]
    /\ clientNet = Manager(RpcServer)
    /\ serverNet = [s \in RpcServer |-> Manager({1})]
    /\ callbacks = [s \in RpcServer |-> {}]
    /\ executions = [c \in Caller |-> 0]
    /\ connectionBreaks = 0

-----------------------------------------------------------------------------
\* connection_manager: the callback of a peer that received a packet ...
recv_cb(net, peer, pkt) ==
    [net EXCEPT !.m_async_recv_queues[peer] = Append(@, pkt),
                !.m_async_recv_data = TRUE]

\* ... and handle_messages, which takes the first packet of every queue.
CanHandle(net) == net.pkts = <<>> /\ net.m_async_recv_data

handle_messages(net) ==
    LET Q == net.m_async_recv_queues
        peers == SetToSeq({p \in DOMAIN Q : Q[p] # <<>>})
    IN  [m_async_recv_queues |->
            [p \in DOMAIN Q |-> IF Q[p] = <<>> THEN <<>> ELSE Tail(Q[p])],
         m_async_recv_data |-> \E p \in DOMAIN Q : Len(Q[p]) > 1,
         pkts |-> [i \in DOMAIN peers |-> Head(Q[peers[i]]) @@ [peer |-> peers[i]]]]

\* The server's peer of its current connection with the client: the last one.
CurrentPeer(s) == Len(serverNet[s].m_async_recv_queues)

\* A packet reaches the other end.
ServerReceives(s) ==
    /\ connection[s] /\ outgoing[s] # <<>>
    /\ serverNet' = [serverNet EXCEPT
                       ![s] = recv_cb(@, CurrentPeer(s), Head(outgoing[s]))]
    /\ outgoing' = [outgoing EXCEPT ![s] = Tail(@)]
    /\ UNCHANGED <<callVars, connection, incoming, connectionBreaks, clientNet,
                   asyncHandler, callbacks, executions>>

ClientReceives(s) ==
    /\ connection[s] /\ incoming[s] # <<>>
    /\ clientNet' = recv_cb(clientNet, s, Head(incoming[s]))
    /\ incoming' = [incoming EXCEPT ![s] = Tail(@)]
    /\ UNCHANGED <<callVars, connection, outgoing, connectionBreaks, serverVars>>

\* A connection breaks.  Packets in the client's queue may stay there for the
\* next connection: a packet queued while the peer closes the old one does.
BreakConnection(s) ==
    /\ connection[s] /\ connectionBreaks < MaxConnectionBreaks
    /\ connectionBreaks' = connectionBreaks + 1
    /\ connection' = [connection EXCEPT ![s] = FALSE]
    /\ \E n \in 0..Len(outgoing[s]) :
            outgoing' = [outgoing EXCEPT ![s] = SubSeq(@, n + 1, Len(@))]
    /\ incoming' = [incoming EXCEPT ![s] = <<>>]
    /\ UNCHANGED <<callVars, clientNet, serverVars>>

\* The client's peer connects again; pump accepts and adds a new peer.
Accept(s) ==
    /\ ~connection[s] /\ rpcClient = "open"
    /\ connection' = [connection EXCEPT ![s] = TRUE]
    /\ serverNet' = [serverNet EXCEPT ![s].m_async_recv_queues = Append(@, <<>>)]
    /\ UNCHANGED <<callVars, outgoing, incoming, connectionBreaks, clientNet,
                   asyncHandler, callbacks, executions>>

\* connection_manager::send to a peer: lost when its connection is gone.
SendTo(s, peer, pkt) ==
    incoming' = IF connection[s] /\ peer = CurrentPeer(s)
                THEN [incoming EXCEPT ![s] = Append(@, pkt)] ELSE incoming

-----------------------------------------------------------------------------
\* The server's handler.
ServerHandles(s) ==
    /\ CanHandle(serverNet[s])
    /\ serverNet' = [serverNet EXCEPT ![s] = handle_messages(@)]
    /\ UNCHANGED <<callVars, wireVars, clientNet, asyncHandler, callbacks, executions>>

Answer(pkt, payload) == [id |-> pkt.id, from |-> pkt.from, payload |-> payload]

\* tcp_server's handler for the next packet.
NextPacket(s) ==
    /\ serverNet[s].pkts # <<>>
    /\ serverNet' = [serverNet EXCEPT ![s].pkts = Tail(@)]
    /\ executions' = [executions EXCEPT ![Head(serverNet[s].pkts).from] = @ + 1]
    /\ UNCHANGED <<callVars, asyncHandler, connection, outgoing, connectionBreaks,
                   clientNet>>

\* blocking_call answers at once, with a value or without.
blocking_call(s) ==
    /\ ~asyncHandler[s] /\ NextPacket(s)
    /\ LET pkt == Head(serverNet[s].pkts)
       IN  \E v \in {"value", Nullopt} : SendTo(s, pkt.peer, Answer(pkt, v))
    /\ UNCHANGED callbacks

\* async_call: the handler keeps the callback, or refuses and fails at once.
async_call(s) ==
    /\ asyncHandler[s] /\ NextPacket(s)
    /\ LET pkt == Head(serverNet[s].pkts)
       IN  \/ /\ callbacks' = [callbacks EXCEPT ![s] = @ \cup {pkt}]
              /\ UNCHANGED incoming
           \/ SendTo(s, pkt.peer, Answer(pkt, Nullopt)) /\ UNCHANGED callbacks

\* An answer is there, in any order.
resp_cb(s, pkt) ==
    /\ pkt \in callbacks[s]
    /\ callbacks' = [callbacks EXCEPT ![s] = @ \ {pkt}]
    /\ \E v \in {"value", Nullopt} : SendTo(s, pkt.peer, Answer(pkt, v))
    /\ UNCHANGED <<callVars, connection, outgoing, connectionBreaks, clientNet,
                   asyncHandler, serverNet, executions>>

-----------------------------------------------------------------------------
\* (Faulty: the id is read, and incremented later.)
make_request_same_id(c) ==
    /\ request_id' = [request_id EXCEPT ![c] = m_current_request_id]
    /\ UNCHANGED m_current_request_id

make_request(c) ==
    /\ request_id' = [request_id EXCEPT ![c] = m_current_request_id]
    /\ m_current_request_id' = m_current_request_id + 1

\* client::call, up to the entry in m_responses.
rpc_call(c) ==
    /\ rpcPc[c] = "idle" /\ rpcClient = "open"
    /\ make_request(c)
    /\ m_responses' = m_responses \cup {c}
    /\ rpcPc' = [rpcPc EXCEPT ![c] = "sending"]
    /\ UNCHANGED <<rpcKind, promise, rpcResults, rpcClient, wireVars, clientNet,
                   serverVars>>

\* A caller returns with an optional response.
Return(c, v) ==
    /\ rpcPc' = [rpcPc EXCEPT ![c] = "returned"]
    /\ rpcResults' = [rpcResults EXCEPT ![c] = Append(@, v)]

\* send_request, to some server that is connected ...
send_to_one(c, s) ==
    /\ rpcPc[c] = "sending" /\ connection[s]
    /\ outgoing' = [outgoing EXCEPT
                      ![s] = Append(@, [id |-> request_id[c], from |-> c])]
    /\ rpcPc' = [rpcPc EXCEPT ![c] = IF rpcKind[c] = "async" THEN "returned"
                                     ELSE "waiting"]
    /\ UNCHANGED <<rpcKind, request_id, m_current_request_id, m_responses, promise,
                   rpcResults, rpcClient, connection, incoming, connectionBreaks,
                   clientNet, serverVars>>

\* ... or to none: the entry is taken out again.
SendFails(c) ==
    /\ rpcPc[c] = "sending" /\ \A s \in RpcServer : ~connection[s]
    /\ m_responses' = m_responses \ {c}
    /\ IF rpcKind[c] # "async" THEN Return(c, <<>>)
       ELSE rpcPc' = [rpcPc EXCEPT ![c] = "failed"] /\ UNCHANGED rpcResults
    /\ UNCHANGED <<rpcKind, request_id, m_current_request_id, promise, rpcClient,
                   wireVars, clientNet, serverVars>>

\* set_response: the entries T of m_responses are taken out, and their promises
\* set or their callbacks called with v.  client::call's own callback drops a
\* response that is not there.
set_response(T, v) ==
    /\ m_responses' = m_responses \ T
    /\ promise' = [c \in Caller |-> IF c \in T /\ rpcKind[c] # "async"
                                    THEN <<v>> ELSE promise[c]]
    /\ rpcResults' = [c \in Caller |-> IF c \in T /\ rpcKind[c] = "async" /\ v # <<>>
                                       THEN Append(rpcResults[c], v) ELSE rpcResults[c]]

\* The client's handler thread ...
ClientHandles ==
    /\ CanHandle(clientNet) /\ rpcClient = "open"
    /\ clientNet' = handle_messages(clientNet)
    /\ UNCHANGED <<callVars, wireVars, serverVars>>

\* ... gives a response to the entry with its id, if that is still there.
response_handler ==
    /\ clientNet.pkts # <<>> /\ rpcClient # "destroyed"
    /\ clientNet' = [clientNet EXCEPT !.pkts = Tail(@)]
    /\ LET pkt == Head(clientNet.pkts)
       IN  set_response({c \in m_responses : request_id[c] = pkt.id},
                        <<[from |-> pkt.from, payload |-> pkt.payload]>>)
    /\ UNCHANGED <<rpcKind, rpcPc, request_id, m_current_request_id, rpcClient,
                   wireVars, serverVars>>

\* call_raw after the wait: the promise was set, or the time is up.  A
\* response that comes at the same time is dropped.
GetsResponse(c) ==
    /\ rpcPc[c] = "waiting" /\ promise[c] # <<>>
    /\ Return(c, promise[c][1])
    /\ UNCHANGED <<rpcKind, request_id, m_current_request_id, m_responses, promise,
                   rpcClient, wireVars, clientNet, serverVars>>

TimesOut(c) ==
    /\ rpcPc[c] = "waiting" /\ rpcKind[c] = "timeout"
    /\ m_responses' = m_responses \ {c}
    /\ promise' = [promise EXCEPT ![c] = IF c \in m_responses THEN <<<<>>>> ELSE @]
    /\ Return(c, <<>>)
    /\ UNCHANGED <<rpcKind, request_id, m_current_request_id, rpcClient, wireVars,
                   clientNet, serverVars>>

\* The destructor closes the connections, joins the handler thread, and ends
\* what still waits.  (Nobody may be about to use the client then.)  A handler
\* that was about to wait may take the packets that are there once more.
\* close sets m_running and notifies without the mutex of the wait: a handler
\* that has just found m_running set and nothing to do misses both, sleeps, and
\* is never joined.
CloseClient ==
    /\ rpcClient = "open" /\ \A c \in Caller : rpcPc[c] # "sending"
    /\ \/ /\ rpcClient' = "closed"
          /\ clientNet' \in {clientNet} \cup
                {handle_messages(n) : n \in {x \in {clientNet} : CanHandle(x)}}
       \/ /\ clientNet.pkts = <<>> /\ ~clientNet.m_async_recv_data
          /\ rpcClient' = "hung" /\ UNCHANGED clientNet
    /\ connection' = [s \in RpcServer |-> FALSE]
    /\ outgoing' = [s \in RpcServer |-> <<>>] /\ incoming' = [s \in RpcServer |-> <<>>]
    /\ UNCHANGED <<rpcKind, rpcPc, request_id, m_current_request_id, m_responses,
                   promise, rpcResults, connectionBreaks, serverVars>>

EndResponses ==
    /\ rpcClient = "closed" /\ clientNet.pkts = <<>>
    /\ rpcClient' = "destroyed"
    /\ set_response(m_responses, <<>>)
    /\ UNCHANGED <<rpcKind, rpcPc, request_id, m_current_request_id, wireVars,
                   clientNet, serverVars>>

\* The threads that run whatever the callers and the network do.
RpcStep ==
    \/ \E s \in RpcServer :
        \/ ServerReceives(s) \/ ClientReceives(s) \/ ServerHandles(s)
        \/ blocking_call(s) \/ async_call(s)
        \/ \E pkt \in callbacks[s] : resp_cb(s, pkt)
    \/ \E c \in Caller :
        \/ \E s \in RpcServer : send_to_one(c, s)
        \/ SendFails(c) \/ GetsResponse(c) \/ TimesOut(c)
    \/ ClientHandles \/ response_handler \/ EndResponses

RpcNext ==
    \/ RpcStep
    \/ \E c \in Caller : rpc_call(c)
    \/ \E s \in RpcServer : BreakConnection(s) \/ Accept(s)
    \/ CloseClient

-----------------------------------------------------------------------------
Stranded(net) ==
    net.pkts = <<>> /\ ~net.m_async_recv_data
      /\ \E p \in DOMAIN net.m_async_recv_queues : net.m_async_recv_queues[p] # <<>>

(***************************************************************************)
(* However answers, timeouts, broken connections and the destructor fall   *)
(* together: a caller or its callback is given at most one response, which *)
(* is that to its own request; no request is executed twice; a call that   *)
(* failed to be sent never calls back; an entry stays in m_responses only  *)
(* while its caller or callback waits; and no packet lies in a queue that  *)
(* nobody will look at (tcp_client, connection_manager::handle_messages).  *)
(***************************************************************************)
RpcSound ==
    /\ \A c \in Caller :
          /\ Len(rpcResults[c]) <= 1 /\ executions[c] <= 1
          /\ \A i \in DOMAIN rpcResults[c] :
                rpcResults[c][i] # <<>> => rpcResults[c][i][1].from = c
          /\ rpcPc[c] = "failed" => rpcResults[c] = <<>>
          /\ c \in m_responses =>
                IF rpcKind[c] = "async" THEN rpcResults[c] = <<>> /\ rpcPc[c] # "failed"
                ELSE rpcPc[c] # "returned"
    /\ rpcClient = "destroyed" => m_responses = {}
    /\ ~Stranded(clientNet) /\ \A s \in RpcServer : ~Stranded(serverNet[s])

(***************************************************************************)
(* A call with a timeout returns, any call returns once the client is      *)
(* closed, and while connections hold every request is answered, whatever  *)
(* else is under way (call_raw, ~tcp_client, handle_messages): unless the  *)
(* handler misses the notification of close, after which the destructor    *)
(* and the calls without a timeout wait for ever.                          *)
(***************************************************************************)
RpcLive ==
    \A c \in Caller :
        /\ rpcPc[c] = "waiting" /\ (rpcKind[c] = "timeout" \/ rpcClient = "closed")
              ~> rpcPc[c] = "returned"
        /\ c \in m_responses
              ~> c \notin m_responses \/ connectionBreaks > 0 \/ rpcClient = "hung"
=============================================================================

-------------------------------- MODULE Peer --------------------------------
(***************************************************************************)
(* peer: one end of a TCP connection and its three threads                 *)
(* (src/util/network/peer.cpp), on a tcp_socket and a blocking_queue.  The *)
(* send thread drains the queue, the receive thread hands packets to a     *)
(* callback, and the reconnect thread replaces a broken connection.  Any   *)
(* thread may queue packets, and one calls shutdown.                       *)
(*                                                                         *)
(* A step is what a thread does between two points where another can come  *)
(* in between.  A condition variable is modelled with the window between   *)
(* the evaluation of its predicate and the wait ("park"): m_shut_down is   *)
(* set without the mutex, so a notification can fall into it.              *)
(***************************************************************************)
EXTENDS Naturals, Sequences

CONSTANTS
    MaxPackets,     \* packets that are queued
    MaxBreaks       \* times that the network or the remote end breaks a connection

VARIABLES
    m_attempt_reconnect,
    peer_running, m_shut_down, m_reconnect,
    m_buffer, m_wake,       \* the blocking queue m_send_queue
    sock,                   \* "up", "dead" (the other end is gone) or "closed" (no fd)
    sendPc, recvPc,         \* "none" (joined), or what the thread does next
    reconPc, closePc, downPc,
    packet,                 \* the packet the send thread popped
    sender,                 \* "checked": a caller of send saw that it may queue
    queued, breaks,
    written                 \* packets written so far, on any connection

peerVars == <<m_attempt_reconnect, peer_running, m_shut_down, m_reconnect, m_buffer,
              m_wake, sock, sendPc, recvPc, reconPc, closePc, downPc, packet,
              sender, queued, breaks, written>>

peerFlags == <<m_attempt_reconnect, peer_running, m_shut_down, m_reconnect>>
queueVars == <<m_buffer, m_wake>>
peerThreads == <<sendPc, recvPc, reconPc, closePc, downPc, packet>>
peerHistory == <<sender, queued, breaks, written>>

\* A peer starts with a socket that is connected, or whose connection failed.
PeerInit ==
    /\ m_attempt_reconnect \in BOOLEAN
    /\ peer_running = TRUE /\ m_shut_down = FALSE /\ m_reconnect = FALSE
    /\ m_buffer = <<>> /\ m_wake = FALSE
    /\ sock \in {"up", "closed"}
    /\ m_attempt_reconnect \/ sock = "up"
    /\ sendPc = "loop" /\ recvPc = "loop" /\ reconPc = "loop"
    /\ closePc = "idle" /\ downPc = "idle"
    /\ packet = <<>> /\ sender = "idle" /\ queued = 0 /\ breaks = 0
    /\ written = <<>>

-----------------------------------------------------------------------------
\* blocking_queue

queue_push(x) == m_buffer' = Append(m_buffer, x) /\ m_wake' = TRUE

\* pop returns with an item, or with none once clear woke it.
CanPop == m_buffer # <<>> \/ m_wake
queue_pop ==
    IF m_buffer # <<>>
    THEN /\ packet' = <<Head(m_buffer)>>
         /\ m_buffer' = Tail(m_buffer)
         /\ m_wake' = (Tail(m_buffer) # <<>>)
    ELSE packet' = <<>> /\ UNCHANGED queueVars

\* (Faulty: nobody is woken.)
queue_clear_silently == m_buffer' = <<>> /\ m_wake' = FALSE

queue_clear == m_buffer' = <<>> /\ m_wake' = TRUE

queue_reset == m_wake' = FALSE /\ UNCHANGED m_buffer

-----------------------------------------------------------------------------
\* send, by any thread: dropped once the peer was shut down.  The check and
\* the push are two steps.
peer_send ==
    \/ /\ sender = "idle" /\ queued < MaxPackets /\ ~m_shut_down
       /\ sender' = "checked" /\ UNCHANGED <<queueVars, queued>>
       /\ UNCHANGED <<peerFlags, sock, peerThreads, breaks, written>>
    \/ /\ sender = "checked"
       /\ sender' = "idle" /\ queued' = queued + 1 /\ queue_push(queued')
       /\ UNCHANGED <<peerFlags, sock, peerThreads, breaks, written>>

\* The connection breaks.
Break ==
    /\ sock = "up" /\ breaks < MaxBreaks
    /\ sock' = "dead" /\ breaks' = breaks + 1
    /\ UNCHANGED <<peerFlags, queueVars, peerThreads, sender, queued, written>>

\* signal_reconnect: the flag is set under the mutex, so that a reconnect
\* thread in the window of its wait cannot miss it.
signal_reconnect ==
    /\ reconPc # "park"
    /\ m_reconnect' = TRUE
    /\ reconPc' = IF reconPc = "wait" THEN "loop" ELSE reconPc
    /\ UNCHANGED <<m_attempt_reconnect, peer_running, m_shut_down>>

\* The send thread.  "assert" is the failure of its assertion.
do_send ==
    \/ /\ sendPc = "loop" /\ sendPc' = IF peer_running THEN "pop" ELSE "done"
       /\ UNCHANGED <<peerFlags, queueVars, sock, recvPc, reconPc, closePc, downPc,
                      packet, peerHistory>>
    \/ /\ sendPc = "pop" /\ CanPop /\ queue_pop
       /\ sendPc' = CASE m_buffer # <<>> -> "write"
                      [] m_buffer = <<>> /\ ~peer_running -> "done"
                      [] OTHER -> "assert"
       /\ UNCHANGED <<peerFlags, sock, recvPc, reconPc, closePc, downPc, peerHistory>>
    \/ /\ sendPc = "write" /\ sock # "closed"   \* a write may outlive the other end
       /\ sendPc' = "loop" /\ packet' = <<>>
       /\ written' = Append(written, packet[1])
       /\ UNCHANGED <<peerFlags, queueVars, sock, recvPc, reconPc, closePc, downPc,
                      sender, queued, breaks>>
    \/ /\ sendPc = "write" /\ sock # "up"
       /\ signal_reconnect /\ sendPc' = "done" /\ packet' = <<>>
       /\ UNCHANGED <<queueVars, sock, recvPc, closePc, downPc, peerHistory>>

\* The receive thread; a packet that arrives is handed to the callback.
do_recv ==
    \/ /\ recvPc = "loop" /\ recvPc' = IF peer_running THEN "read" ELSE "done"
       /\ UNCHANGED <<peerFlags, queueVars, sock, sendPc, reconPc, closePc, downPc,
                      packet, peerHistory>>
    \/ /\ recvPc = "read" /\ sock = "up" /\ recvPc' = "loop"
       /\ UNCHANGED <<peerFlags, queueVars, sock, sendPc, reconPc, closePc, downPc,
                      packet, peerHistory>>
    \/ /\ recvPc = "read" /\ sock # "up"
       /\ signal_reconnect /\ recvPc' = "done"
       /\ UNCHANGED <<queueVars, sock, sendPc, closePc, downPc, packet, peerHistory>>

-----------------------------------------------------------------------------
\* close, by the reconnect thread or by shutdown: the socket is closed,
\* the send thread woken, and both threads joined.
\* The thread that called close goes on.
ReturnFromClose ==
    IF reconPc = "close"
    THEN /\ reconPc' = IF m_attempt_reconnect THEN "connect" ELSE "clear"
         /\ UNCHANGED downPc
    ELSE downPc' = "done" /\ UNCHANGED reconPc

socket_disconnect == sock' = "closed"

peer_close ==
    /\ reconPc = "close" \/ downPc = "close"
    /\ UNCHANGED <<m_attempt_reconnect, m_shut_down, m_reconnect, packet, peerHistory>>
    /\ \/ /\ closePc = "idle" /\ peer_running' = FALSE /\ closePc' = "disconnect"
          /\ UNCHANGED <<queueVars, sock, sendPc, recvPc, reconPc, downPc>>
       \/ /\ closePc = "disconnect" /\ socket_disconnect /\ closePc' = "clear"
          /\ UNCHANGED <<peer_running, queueVars, sendPc, recvPc, reconPc, downPc>>
       \/ /\ closePc = "clear" /\ queue_clear /\ closePc' = "join"
          /\ UNCHANGED <<peer_running, sock, sendPc, recvPc, reconPc, downPc>>
       \/ /\ closePc = "join"
          /\ sendPc \in {"done", "none"} /\ recvPc \in {"done", "none"}
          /\ sendPc' = "none" /\ recvPc' = "none" /\ closePc' = "reset"
          /\ UNCHANGED <<peer_running, queueVars, sock, reconPc, downPc>>
       \/ /\ closePc = "reset" /\ queue_reset /\ closePc' = "idle" /\ ReturnFromClose
          /\ UNCHANGED <<peer_running, sock, sendPc, recvPc>>

\* tcp_socket::reconnect: disconnects, and connects or fails.
socket_reconnect ==
    \/ sock' = "up" /\ reconPc' = "restart"
    \/ sock' = "closed" /\ reconPc' = "retry"

\* The reconnect thread, apart from close.
do_reconnect ==
    /\ closePc = "idle"
    /\ \/ /\ reconPc = "loop"       \* the loop's condition and the wait's predicate
          /\ reconPc' = CASE m_shut_down -> "done"
                          [] ~m_shut_down /\ m_reconnect -> "close"
                          [] OTHER -> "park"
          /\ m_reconnect' = FALSE
          /\ m_shut_down' = (m_shut_down \/ (m_reconnect /\ ~m_attempt_reconnect))
          /\ UNCHANGED <<peer_running, queueVars, sock, sendPc, recvPc>>
       \/ /\ reconPc = "park" /\ reconPc' = "wait"
          /\ UNCHANGED <<peer_running, m_shut_down, m_reconnect, queueVars, sock,
                         sendPc, recvPc>>
       \/ /\ reconPc = "connect"
          /\ IF m_shut_down THEN reconPc' = "done" /\ UNCHANGED sock
             ELSE socket_reconnect
          /\ UNCHANGED <<peer_running, m_shut_down, m_reconnect, queueVars, sendPc,
                         recvPc>>
       \/ /\ reconPc = "retry" /\ reconPc' = "connect"     \* wait_for ends in time
          /\ UNCHANGED <<peer_running, m_shut_down, m_reconnect, queueVars, sock,
                         sendPc, recvPc>>
       \/ /\ reconPc = "restart"
          /\ IF m_shut_down
             THEN reconPc' = "done" /\ UNCHANGED <<peer_running, sendPc, recvPc>>
             ELSE /\ peer_running' = TRUE /\ reconPc' = "loop"
                  /\ sendPc' = "loop" /\ recvPc' = "loop"
          /\ UNCHANGED <<m_shut_down, m_reconnect, queueVars, sock>>
       \/ /\ reconPc = "clear" /\ queue_clear /\ reconPc' = "done"
          /\ UNCHANGED <<peer_running, m_shut_down, m_reconnect, sock, sendPc, recvPc>>
    /\ UNCHANGED <<m_attempt_reconnect, closePc, downPc, packet, peerHistory>>

\* shutdown: the flag, the notification, the join of the reconnect thread, and
\* close.
peer_shutdown ==
    \/ /\ downPc = "idle" /\ m_shut_down' = TRUE /\ downPc' = "notify"
       /\ UNCHANGED <<m_attempt_reconnect, peer_running, m_reconnect, reconPc>>
       /\ UNCHANGED <<queueVars, sock, sendPc, recvPc, closePc, packet, peerHistory>>
    \/ /\ downPc = "notify" /\ downPc' = "join"
       /\ reconPc' = IF reconPc = "wait" THEN "loop" ELSE reconPc
       /\ UNCHANGED <<peerFlags, queueVars, sock, sendPc, recvPc, closePc, packet,
                      peerHistory>>
    \/ /\ downPc = "join" /\ reconPc = "done" /\ downPc' = "close"
       /\ UNCHANGED <<peerFlags, queueVars, sock, sendPc, recvPc, reconPc, closePc,
                      packet, peerHistory>>

PeerNext ==
    \/ peer_send \/ Break \/ peer_shutdown
    \/ do_send \/ do_recv \/ do_reconnect \/ peer_close

PeerFairness ==
    /\ WF_peerVars(do_send) /\ WF_peerVars(do_recv)
    /\ WF_peerVars(do_reconnect \/ peer_close)
    /\ WF_peerVars(downPc # "idle" /\ peer_shutdown)

-----------------------------------------------------------------------------
(***************************************************************************)
(* Whatever breaks, reconnects and shuts down in between: the send thread  *)
(* never finds its queue empty while the peer runs (the assertion in       *)
(* do_send), a thread is started only when the one before it was joined,   *)
(* no packet is written twice or before one that was queued earlier, also  *)
(* across connections, and after shutdown nothing runs (peer.cpp).         *)
(***************************************************************************)
PeerSound ==
    /\ sendPc # "assert"
    /\ reconPc = "restart" => sendPc = "none" /\ recvPc = "none"
    /\ \A i, j \in DOMAIN written : i < j => written[i] < written[j]
    /\ downPc = "done" =>
           /\ sendPc = "none" /\ recvPc = "none" /\ reconPc = "done"
           /\ sock = "closed" /\ ~peer_running

\* The reconnect thread waits although it is to stop: shutdown's notification
\* came between its predicate and its wait.
NotificationLost == downPc = "join" /\ reconPc = "wait"

(***************************************************************************)
(* A connection that broke is noticed and closed, and a shutdown returns   *)
(* unless its notification was lost, whatever the threads were doing       *)
(* (do_recv, do_reconnect, shutdown).                                      *)
(***************************************************************************)
PeerLive ==
    /\ sock = "dead" ~> sock # "dead"
    /\ downPc = "notify" ~> (downPc = "done" \/ NotificationLost)
=============================================================================

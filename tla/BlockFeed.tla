------------------------------ MODULE BlockFeed ------------------------------
(***************************************************************************)
(* How a block reaches everyone in the atomizer architecture.  The leader  *)
(* broadcasts a block once (atomizer/controller.cpp).  The archiver        *)
(* (archiver/controller.cpp) stores blocks in order, keeps later ones      *)
(* aside, asks the atomizer for the one before and lets it prune.  Shards  *)
(* (shard/controller.cpp) and the watchtower (watchtower/controller.cpp)   *)
(* fetch what they missed from the archiver.                               *)
(*                                                                         *)
(* A block is its height.  A broadcast reaches any part of the receivers;  *)
(* packets to one receiver come from several connections and are not       *)
(* ordered.  Raft is external: a request is applied to one replicated map. *)
(* Clients of the archiver do not affect each other or the archiver, so a  *)
(* behaviour has one, a shard or the watchtower.                           *)
(***************************************************************************)
EXTENDS Naturals, FiniteSets

CONSTANTS
    MaxHeight,          \* bound on blocks
    MaxLost,            \* bound on get_block requests or responses lost at a time
    MaxRestarts         \* bound on restarts of the archiver and its clients

ASSUME BlockFeedAssumption ==
    MaxHeight \in Nat /\ MaxLost \in Nat /\ MaxRestarts \in Nat

Height == 1..MaxHeight

VARIABLES
    made,           \* the height of the last block made
    m_blocks,       \* state_machine::m_blocks
    toArchiver,     \* blocks on their way to the archiver
    get_block_requests,     \* on their way to the leader
    prune_requests,         \* on their way to the leader
    m_db,           \* the heights the archiver stored
    m_best_height,  \* the archiver's best height, also in its database
    m_deferred,
    client,         \* "shard" or "watchtower"
    toClient,       \* blocks on their way to the client
    m_blk,          \* the block its atomizer_handler is busy with, 0: none
    m_best,         \* shard::m_best_block_height, watchtower m_last_blk_height
    m_sock,         \* whether the client's connection to the archiver is up
    lost,           \* heights the archiver asked for in vain since it started
    restarts

archiverVars == <<toArchiver, m_db, m_best_height, m_deferred>>
followerVars == <<client, toClient, m_blk, m_best, m_sock>>
requestVars == <<get_block_requests, prune_requests>>
feedVars == <<made, m_blocks, archiverVars, requestVars, followerVars, lost, restarts>>

FeedInit ==
    /\ made = 0
    /\ m_blocks = {}
    /\ toArchiver = {}
    /\ get_block_requests = {}
    /\ prune_requests = {}
    /\ m_db = {}
    /\ m_best_height = 0
    /\ m_deferred = {}
    /\ client \in {"shard", "watchtower"}
    /\ toClient = {}
    /\ m_blk = 0
    /\ m_best = 0
    /\ m_sock = TRUE
    /\ lost = {}
    /\ restarts = 0

-----------------------------------------------------------------------------
\* The state machine's make_block_request and the leader's
\* raft_result_handler.  The leader may fail before or during the broadcast,
\* or a connection may be down: the block reaches the archiver and the client
\* or not.
make_block(toA, toC) ==
    /\ made < MaxHeight
    /\ made' = made + 1
    /\ m_blocks' = m_blocks \cup {made + 1}
    /\ toArchiver' = IF toA THEN toArchiver \cup {made + 1} ELSE toArchiver
    /\ toClient' = IF toC THEN toClient \cup {made + 1} ELSE toClient
    /\ UNCHANGED <<m_db, m_best_height, m_deferred, requestVars, client, m_blk,
                   m_best, m_sock, lost, restarts>>

\* server_handler and the state machine's get_block_request.  A block that is
\* not found is not answered.
get_block(h) ==
    /\ h \in get_block_requests
    /\ get_block_requests' = get_block_requests \ {h}
    /\ toArchiver' = toArchiver \cup ({h} \cap m_blocks)
    /\ UNCHANGED <<made, m_blocks, prune_requests, m_db, m_best_height,
                   m_deferred, followerVars, lost, restarts>>

\* server_handler and the state machine's prune_request.
prune(h) ==
    /\ h \in prune_requests
    /\ prune_requests' = prune_requests \ {h}
    /\ m_blocks' = {g \in m_blocks : g >= h}
    /\ UNCHANGED <<made, get_block_requests, archiverVars, followerVars, lost,
                   restarts>>

\* A prune request that is lost stays where it is.  A lost get_block request:
\* send_to_one found no connection, or the leader lost its office before it
\* answered.
LoseRequest(h) ==
    /\ Cardinality(lost) < MaxLost
    /\ h \in get_block_requests
    /\ lost' = lost \cup {h}
    /\ get_block_requests' = get_block_requests \ {h}
    /\ UNCHANGED <<made, m_blocks, prune_requests, archiverVars, followerVars,
                   restarts>>

-----------------------------------------------------------------------------
\* digest_block, called with block h, calls itself with the deferred blocks
\* that follow, up to n.
RecursesTo(h, n) ==
    n >= h /\ (h + 1)..n \subseteq m_deferred /\ n + 1 \notin m_deferred

\* (Faulty: pruned as soon as any later block is here.)
request_prune_next(digested) == prune_requests \cup {h + 2 : h \in digested}

\* The blocks the archiver lets the atomizer prune, for each block digested.
request_prune(digested) == prune_requests \cup digested

\* The previous block is asked for unless it is deferred as well.
request_block(h) == get_block_requests \cup ({h - 1} \ m_deferred)

\* archiver controller::atomizer_handler and digest_block.
archiver_digest_block(h) ==
    /\ h \in toArchiver
    /\ toArchiver' = toArchiver \ {h}
    /\ \/ /\ h <= m_best_height
          /\ UNCHANGED <<m_db, m_best_height, m_deferred, requestVars>>
       \/ /\ h > m_best_height + 1
          /\ get_block_requests' = request_block(h)
          /\ m_deferred' = m_deferred \cup {h}
          /\ UNCHANGED <<m_db, m_best_height, prune_requests>>
       \/ /\ h = m_best_height + 1
          /\ \E n \in Height :
                LET digested == {h} \cup (m_deferred \cap h..n)
                IN  /\ RecursesTo(h, n)
                    /\ m_db' = m_db \cup digested
                    /\ m_best_height' = n
                    /\ prune_requests' = request_prune(digested)
                    /\ m_deferred' = m_deferred \ digested
          /\ UNCHANGED get_block_requests
    /\ UNCHANGED <<made, m_blocks, followerVars, lost, restarts>>

\* The archiver restarts: what it deferred and what was on its way is lost,
\* and so is its client's connection, which archiver::client does not
\* restore.  init_best_block reads the best height.
RestartArchiver ==
    /\ restarts < MaxRestarts
    /\ restarts' = restarts + 1
    /\ toArchiver' = {}
    /\ m_deferred' = {} /\ lost' = {}
    /\ m_sock' = FALSE
    /\ UNCHANGED <<made, m_blocks, m_db, m_best_height, requestVars, client,
                   toClient, m_blk, m_best>>

-----------------------------------------------------------------------------
\* archiver::client::get_block and the archiver's get_block.
Archived(h) == m_sock /\ h \in m_db

\* Both atomizer_handlers take the next packet when they are done with one.
ReceiveBlock(h) ==
    /\ m_blk = 0
    /\ h \in toClient
    /\ m_blk' = h
    /\ toClient' = toClient \ {h}
    /\ UNCHANGED <<made, m_blocks, archiverVars, requestVars, client, m_best,
                   m_sock, lost, restarts>>

\* One round of a handler's loop: it digests block h, and returns or goes on.
Digest(h, returns) ==
    /\ m_best' = h
    /\ m_blk' = IF returns THEN 0 ELSE m_blk
    /\ UNCHANGED <<made, m_blocks, archiverVars, requestVars, client, toClient,
                   m_sock, lost, restarts>>

\* (Faulty: a shard does not stop at a block it already has.)
shard_atomizer_handler_without_break ==
    /\ client = "shard"
    /\ m_blk # 0
    /\ \/ m_blk = m_best + 1 /\ Digest(m_blk, TRUE)
       \/ m_blk > m_best + 1 /\ Archived(m_best + 1) /\ Digest(m_best + 1, FALSE)

\* shard controller::atomizer_handler: digest, or return if the block is old,
\* or fetch the block after the best one; without it the loop waits.
shard_atomizer_handler ==
    /\ client = "shard"
    /\ m_blk # 0
    /\ \/ m_blk = m_best + 1 /\ Digest(m_blk, TRUE)
       \/ m_blk <= m_best /\ Digest(m_best, TRUE)
       \/ m_blk > m_best + 1 /\ Archived(m_best + 1) /\ Digest(m_best + 1, FALSE)

\* watchtower controller::atomizer_handler.  The loop has no way out for an
\* old block: it goes on with the archiver's blocks.
watchtower_atomizer_handler ==
    /\ client = "watchtower"
    /\ m_blk # 0
    /\ \/ m_blk = m_best + 1 /\ Digest(m_blk, TRUE)
       \/ m_blk # m_best + 1 /\ Archived(m_best + 1) /\ Digest(m_best + 1, FALSE)

\* The client restarts and connects to the archiver again.  A shard opens its
\* database; the watchtower starts at block 0.
RestartClient ==
    /\ restarts < MaxRestarts
    /\ restarts' = restarts + 1
    /\ m_blk' = 0
    /\ toClient' = {}
    /\ m_best' = IF client = "watchtower" THEN 0 ELSE m_best
    /\ m_sock' = TRUE
    /\ UNCHANGED <<made, m_blocks, archiverVars, requestVars, client, lost>>

-----------------------------------------------------------------------------
\* The steps that happen by themselves.
FeedProgress ==
    \/ \E h \in Height : get_block(h)
    \/ \E h \in Height : archiver_digest_block(h)
    \/ \E h \in Height : ReceiveBlock(h)
    \/ shard_atomizer_handler
    \/ watchtower_atomizer_handler

FeedNext ==
    \/ \E toA, toC \in BOOLEAN : make_block(toA, toC)
    \/ \E h \in Height : prune(h)
    \/ \E h \in Height : LoseRequest(h)
    \/ RestartArchiver
    \/ RestartClient
    \/ FeedProgress

FeedSpec == FeedInit /\ [][FeedNext]_feedVars

\* Packets on their way arrive, and threads are scheduled.
FairFeedSpec == FeedSpec /\ WF_feedVars(FeedProgress)

-----------------------------------------------------------------------------
(***************************************************************************)
(* No block is lost: a block that was made is in the atomizer's state      *)
(* machine until the archiver has stored it, whatever is pruned, lost or   *)
(* restarted (digest_block, request_prune, prune_request).                 *)
(***************************************************************************)
BlocksKept == 1..made \subseteq m_blocks \cup m_db

(***************************************************************************)
(* The archive has no gaps: the archiver's best height says exactly which  *)
(* blocks it can serve, and a block it deferred is one it has not stored   *)
(* (archiver digest_block).                                                *)
(***************************************************************************)
ArchiveHasNoGaps ==
    /\ m_db = 1..m_best_height
    /\ m_deferred \cap m_db = {}

(***************************************************************************)
(* A block the archiver defers does not wait for ever: the blocks before   *)
(* it are fetched one by one (request_block), unless a restart forgets it. *)
(* A block that is asked for in vain holds up itself and the ones after it *)
(* until a restart, for digest_block asks only once; it holds up no other, *)
(* and after the restart all are fetched.                                  *)
(***************************************************************************)
HeldUp(h) == \E g \in lost : g < h /\ g \notin m_db

DeferredIsDigested ==
    \A h \in Height : h \in m_deferred ~> (h \notin m_deferred \/ HeldUp(h))

(***************************************************************************)
(* A client that received a block gets to that height once the archiver is *)
(* there, through the archiver if it missed blocks, unless it restarts or  *)
(* its connection is gone (atomizer_handler of shards and watchtower).     *)
(***************************************************************************)
ClientCatchesUp ==
    m_blk \in 1..m_best_height ~> (m_best >= m_blk \/ ~m_sock)

(***************************************************************************)
(* A handler returns and takes the next packet once the archiver has the   *)
(* blocks before the one it is busy with.  A shard's does also when it has *)
(* that block already; the watchtower's does not (the atomizer_handlers).  *)
(***************************************************************************)
HandlerReturns ==
    (/\ m_blk # 0 /\ m_best_height + 1 >= m_blk
     /\ client = "watchtower" => m_blk > m_best) ~> (m_blk = 0 \/ ~m_sock)

(***************************************************************************)
(* A watchtower whose handler holds a block it has already, which reached  *)
(* it late, never reads its queue again.  It catches up with the archiver  *)
(* all the same, as long as the two stay connected (watchtower             *)
(* controller::atomizer_handler).                                          *)
(***************************************************************************)
WatchtowerFollows ==
    (client = "watchtower" /\ m_blk \in 1..m_best /\ m_best < m_best_height)
        ~> (m_best = m_best_height \/ ~m_sock \/ m_blk = 0)

(***************************************************************************)
(* The archive is safe: no block is lost and none is missing below the     *)
(* archiver's best height (archiver digest_block, atomizer prune).         *)
(***************************************************************************)
FeedSafe == BlocksKept /\ ArchiveHasNoGaps

(***************************************************************************)
(* The feed makes progress: deferred blocks are digested but for those a   *)
(* lost answer holds up, and shards and watchtowers catch up, and return   *)
(* to their queues or follow the archive.                                  *)
(***************************************************************************)
FeedLive ==
    /\ DeferredIsDigested /\ ClientCatchesUp
    /\ HandlerReturns /\ WatchtowerFollows
=============================================================================

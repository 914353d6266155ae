-------------------------------- MODULE Agent --------------------------------
(***************************************************************************)
(* An agent process of PArSEC: the agent that drives one contract          *)
(* execution (src/src/parsec/agent/impl.cpp), the Lua runner it calls      *)
(* (agent/runners/lua/impl.cpp) and the broker it shares with the other    *)
(* agents of its process (src/src/parsec/broker/impl.cpp).                 *)
(*                                                                         *)
(* The three call each other synchronously, so a response of a shard, or a *)
(* (re)start by the server, runs one chain of calls, each the last thing   *)
(* its caller does.  A link of the chain is an operator from a local state *)
(* L to the local state after it, which may name the next link to call:    *)
(*   t        the ticket                                                   *)
(*   a        the agent and its runner                                     *)
(*   b        the broker's entry for the ticket                            *)
(*   out      the requests sent, per shard                                 *)
(*   report   what the result callback was called with ("" if it was not)  *)
(*   down     the shards no request can be sent to                         *)
(*   outcome  how the contract ends                                        *)
(*   next     the link to call next and its argument, or <<>>              *)
(***************************************************************************)
EXTENDS RuntimeLockingShard

CONSTANTS
    Function,       \* per ticket, the key of the contract's code, or "none"
    Contract,       \* per ticket, the locks it asks for: <<key, lock type>>
    ReadOnly        \* tickets of read-only runs

\* broker: the entry of a ticket in m_tickets.
NoKeyState == [m_key_state |-> "none", m_locktype |-> "read",
               m_value |-> EmptyValue]

NoBrokerTicket == [m_state |-> "none",
                   m_shard_states |-> [s \in Shards |-> "absent"],
                   m_key_states |-> [k \in Keys |-> NoKeyState]]

\* agent: impl's members; pc and pending are the runner's place in the
\* contract and the locks being acquired again after a restart.
NewAgent == [m_state |-> "init", m_result |-> "none",
             m_permanent_error |-> FALSE, m_wounded |-> FALSE,
             m_requested_locks |-> [k \in Keys |-> "none"],
             pending |-> {}, pc |-> 1]

Used(L) == {s \in Shards : L.b.m_shard_states[s] # "absent"}

AllShards(L, state) == \A s \in Used(L) : L.b.m_shard_states[s] = state

\* A loop over shards T that marks each with state and sends it a request,
\* and stops at the first that cannot be reached.  (The container is
\* unordered: some fixed order.)
SendEach(L, T, state, Msg(_)) ==
    LET bad == T \cap L.down
        sent == {s \in T : \A x \in bad : s < x}
        tried == {s \in T : \A x \in bad : s <= x}
    IN [L EXCEPT
         !.b.m_shard_states = [s \in Shards |-> IF s \in tried THEN state ELSE @[s]],
         !.out = [s \in Shards |-> IF s \in sent THEN Append(@[s], Msg(s)) ELSE @[s]]]

\* The last call of a link.
Call(L, link, arg) == [L EXCEPT !.next = <<link, arg>>]

Failed(L, T) == T \cap L.down # {}

-----------------------------------------------------------------------------
\* agent: do_result in the states that report to the server.
report_result(L) == [L EXCEPT !.report = L.a.m_result]

\* agent::handle_finish and broker's handle_recovery_finish.
finish_callback(L, err) ==
    IF L.a.m_state = "recovering"
    THEN [L EXCEPT !.report = IF err = "ok" THEN "" ELSE "recovery_error"]
    ELSE IF L.a.m_state # "finish_sent" THEN L
    ELSE IF err # "ok"
    THEN report_result([L EXCEPT !.a.m_state = "finish_failed",
                                 !.a.m_result = "error"])
    ELSE report_result([L EXCEPT !.a.m_state = "finish_complete"])

\* broker::finish
broker_finish(L) ==
    LET T == {s \in Used(L) : L.b.m_shard_states[s] # "finished"}
        sent == SendEach(L, T, "finishing",
                         LAMBDA s : [op |-> "finish", ticket |-> L.t])
    IN CASE L.b.m_state \in {"none", "begun", "prepared"} ->
              Call(L, "finish_callback", "error")
         [] L.b.m_state = "aborted" ->
              Call([L EXCEPT !.b = NoBrokerTicket], "finish_callback", "ok")
         [] OTHER -> IF Failed(L, T) THEN Call(sent, "finish_callback", "error")
                     ELSE sent

\* broker::handle_finish
broker_handle_finish(L, s, res) ==
    LET done == [L EXCEPT !.b.m_shard_states[s] = "finished"]
    IN IF \/ L.b.m_state # "committed"
          \/ L.b.m_shard_states[s] # "finishing"
          \/ res # "ok"
       THEN Call(L, "finish_callback", "error")
       ELSE IF AllShards(done, "finished")
       THEN Call([done EXCEPT !.b = NoBrokerTicket], "finish_callback", "ok")
       ELSE done

\* agent::do_finish
do_finish(L) == Call([L EXCEPT !.a.m_state = "finish_sent"], "broker_finish", "")

-----------------------------------------------------------------------------
\* agent::handle_rollback and broker's handle_recovery_rollback
rollback_callback(L, err) ==
    IF L.a.m_state = "recovering"
    THEN IF err # "ok" THEN [L EXCEPT !.report = "recovery_error"]
         ELSE Call(L, "broker_finish", "")
    ELSE IF L.a.m_state # "rollback_sent" THEN L
    ELSE IF err # "ok"
    THEN report_result([L EXCEPT !.a.m_state = "rollback_failed",
                                 !.a.m_result = "error"])
    ELSE IF L.a.m_permanent_error THEN do_finish(L)
    ELSE report_result([L EXCEPT !.a.m_state = "rollback_complete",
                                 !.a.m_result = "retry"])

\* broker::rollback
broker_rollback(L) ==
    LET T == {s \in Used(L) : L.b.m_shard_states[s] # "rolled_back"}
        sent == SendEach(L, T, "rolling_back",
                         LAMBDA s : [op |-> "rollback", ticket |-> L.t])
    IN CASE L.b.m_state # "begun" -> Call(L, "rollback_callback", "error")
         [] L.b.m_state = "begun" /\ Used(L) = {} ->
              Call([L EXCEPT !.b.m_state = "aborted"], "rollback_callback", "ok")
         [] OTHER -> IF Failed(L, T) THEN Call(sent, "rollback_callback", "error")
                     ELSE sent

\* broker::handle_rollback
broker_handle_rollback(L, s, res) ==
    LET done == [L EXCEPT
                  !.b.m_shard_states[s] = "rolled_back",
                  !.b.m_key_states = [k \in Keys |->
                      IF key_location(k) = s THEN NoKeyState ELSE @[k]]]
    IN IF \/ L.b.m_state # "begun"
          \/ L.b.m_shard_states[s] # "rolling_back"
          \/ res # "ok"
       THEN Call(L, "rollback_callback", "error")
       ELSE IF AllShards(done, "rolled_back")
       THEN Call([done EXCEPT !.b.m_state = "aborted"], "rollback_callback", "ok")
       ELSE done

\* agent::do_rollback
do_rollback(L, finish) ==
    broker_rollback([L EXCEPT !.a.m_state = "rollback_sent",
                              !.a.m_permanent_error = finish])

\* agent::do_result after a failure: a transient one is rolled back to be
\* retried, a permanent one to be finished.
do_result(L, state) ==
    do_rollback([L EXCEPT !.a.m_result = "error"],
                state \in {"function_get_error", "commit_error",
                           "function_exception"})

-----------------------------------------------------------------------------
\* agent::handle_commit and broker's handle_recovery_commit.  A broker's error
\* other than commit_hazard, and a wound, are transient.
CommitFailure(err) ==
    IF err \in {"broker_error", "wounded"} THEN "commit_failed"
    ELSE "commit_error"

commit_callback(L, err) ==
    IF L.a.m_state = "recovering"
    THEN IF err # "ok" THEN [L EXCEPT !.report = "recovery_error"]
         ELSE Call(L, "broker_finish", "")
    ELSE IF L.a.m_state # "commit_sent" THEN L
    ELSE IF err = "ok" THEN do_finish(L)
    ELSE Call(L, "do_result", CommitFailure(err))

\* broker::do_commit
broker_do_commit(L) ==
    LET T == {s \in Used(L) : L.b.m_shard_states[s] # "committed"}
        sent == SendEach(L, T, "committing",
                         LAMBDA s : [op |-> "commit", ticket |-> L.t])
    IN IF Failed(L, T) THEN Call(sent, "commit_callback", "broker_error") ELSE sent

\* broker::handle_commit
broker_handle_commit(L, s, res) ==
    LET done == [L EXCEPT !.b.m_shard_states[s] = "committed"]
    IN IF \/ L.b.m_state # "prepared"
          \/ L.b.m_shard_states[s] # "committing"
          \/ res # "ok"
       THEN Call(L, "commit_callback", "broker_error")
       ELSE IF AllShards(done, "committed")
       THEN Call([done EXCEPT !.b.m_state = "committed"], "commit_callback", "ok")
       ELSE done

broker_handle_prepare_first(L, s, res) ==
    LET done == [L EXCEPT !.b.m_shard_states[s] = "prepared"]
    IN IF L.b.m_state # "begun" THEN Call(L, "commit_callback", "broker_error")
       ELSE IF res # "ok" THEN Call(L, "commit_callback", res)
       ELSE Call([done EXCEPT !.b.m_state = "prepared"], "broker_do_commit", "")

\* broker::handle_prepare and do_handle_prepare
broker_handle_prepare(L, s, res) ==
    LET done == [L EXCEPT !.b.m_shard_states[s] = "prepared"]
    IN CASE L.b.m_state # "begun" -> Call(L, "commit_callback", "broker_error")
         [] /\ L.b.m_state = "begun"
            /\ L.b.m_shard_states[s] # "preparing" -> L
         [] OTHER ->
              IF res = "wounded"
              THEN IF \E x \in Shards : L.b.m_shard_states[x] = "wounded" THEN L
                   ELSE Call([L EXCEPT !.b.m_shard_states[s] = "wounded"],
                             "commit_callback", "wounded")
              ELSE IF res # "ok" THEN Call(L, "commit_callback", res)
              ELSE IF AllShards(done, "prepared")
              THEN Call([done EXCEPT !.b.m_state = "prepared"], "broker_do_commit", "")
              ELSE done

\* The contract's update: every key it asks to write gets the ticket's value.
Result(t) ==
    LET asked == {Contract[t][i] : i \in DOMAIN Contract[t]}
        K == {p[1] : p \in {q \in asked : q[2] = "write"}}
    IN [k \in (IF t \in ReadOnly THEN {} ELSE K) |-> t]

\* broker::do_prepare
broker_do_prepare(L) ==
    LET T == {s \in Used(L) : L.b.m_shard_states[s] # "prepared"}
        Part(s) == [k \in {x \in DOMAIN Result(L.t) : key_location(x) = s} |->
                        Result(L.t)[k]]
        sent == SendEach(L, T, "preparing",
                  LAMBDA s : [op |-> "prepare", ticket |-> L.t,
                              update |-> Part(s)])
    IN IF Failed(L, T) THEN Call(sent, "commit_callback", "broker_error") ELSE sent

\* broker::commit
broker_commit(L) ==
    CASE L.b.m_state \in {"none", "committed", "aborted"}
         \/ \E k \in Keys : L.b.m_key_states[k].m_key_state = "locking" ->
           Call(L, "commit_callback", "broker_error")
      [] /\ L.b.m_state \in {"begun", "prepared"}
         /\ \A k \in Keys : L.b.m_key_states[k].m_key_state # "locking"
         /\ L.a.m_state # "recovering"
         /\ \E k \in DOMAIN Result(L.t) :
              L.b.m_key_states[k].m_key_state = "none" ->
           Call(L, "commit_callback", "commit_hazard")
      [] OTHER -> IF L.b.m_state = "prepared" THEN Call(L, "broker_do_commit", "")
                  ELSE broker_do_prepare(L)

\* agent::handle_run and do_commit: the runner's result callback.
handle_run(L, res) ==
    IF L.a.m_state # "function_started" THEN L
    ELSE IF res = "update"
    THEN broker_commit([L EXCEPT !.a.m_state = "commit_sent",
                                 !.a.m_result = "update"])
    ELSE Call(L, "do_result", IF res = "wounded" THEN "function_failed"
                              ELSE "function_exception")

-----------------------------------------------------------------------------
\* broker::try_lock and handle_find_key: a lock already held is answered at
\* once; else the request goes to the key's shard.  The first lock after a
\* rollback starts the ticket again.
Restarted(b) ==
    IF b.m_state = "aborted" THEN [NoBrokerTicket EXCEPT !.m_state = "begun"]
    ELSE b

HasLock(b, k, lt) ==
    /\ b.m_key_states[k].m_key_state = "locked"
    /\ lt = "read" \/ b.m_key_states[k].m_locktype = "write"

Locking(L, k, lt) ==
    LET s == key_location(k)
        first == \A x \in KeysOf(s) : L.b.m_key_states[x].m_key_state = "none"
    IN [L EXCEPT
         !.b.m_shard_states[s] = IF @ = "absent" THEN "begun" ELSE @,
         !.b.m_key_states[k] = [@ EXCEPT !.m_key_state = "locking",
                                         !.m_locktype = lt],
         !.out[s] = IF s \in L.down THEN @ ELSE
             Append(@, [op |-> "try_lock", ticket |-> L.t, key |-> k,
                        locktype |-> lt, first_lock |-> first])]

\* What try_lock calls its callback with at once ("" when it does not).
TryLockNow(L, k, lt) ==
    IF L.b.m_state # "begun" THEN "error"
    ELSE IF HasLock(L.b, k, lt) THEN "ok"
    ELSE IF key_location(k) \in L.down THEN "error"
    ELSE ""

broker_try_lock(L, k, lt) ==
    LET started == [L EXCEPT !.b = Restarted(@)]
    IN IF started.b.m_state # "begun" \/ HasLock(started.b, k, lt)
       THEN started
       ELSE Locking(started, k, lt)

\* agent::do_try_lock_request for a ticket that is not wounded.
do_try_lock_request(L, k, lt) ==
    broker_try_lock([L EXCEPT !.a.m_requested_locks[k] =
                        IF @ = "write" THEN @ ELSE lt], k, lt)

\* lua_runner: schedule_contract runs the contract to its next lock request;
\* handle_try_lock gives it the lock, or ends it.
schedule_contract(L) ==
    IF L.a.pc > Len(Contract[L.t]) THEN Call(L, "handle_run", L.outcome)
    ELSE LET k == Contract[L.t][L.a.pc][1]
             lt == Contract[L.t][L.a.pc][2]
             next == do_try_lock_request(L, k, lt)
             now == TryLockNow([L EXCEPT !.b = Restarted(@)], k, lt)
         IN IF L.t \in ReadOnly /\ lt = "write" THEN Call(L, "handle_run", "exception")
            ELSE IF L.a.m_wounded THEN Call(L, "handle_run", "wounded")
            ELSE IF now = "" THEN next
            ELSE IF now = "error" THEN Call(next, "handle_run", "exception")
            ELSE Call([next EXCEPT !.a.pc = @ + 1], "schedule_contract", "")

\* agent::do_runner
do_runner(L) == Call([L EXCEPT !.a.pc = 1], "schedule_contract", "")

\* The locks requested by the attempt before, requested again at once.
Reacquire(L) ==
    LET again == {k \in Keys : L.a.m_requested_locks[k] # "none"}
        Ask(M, k) == do_try_lock_request(M, k, L.a.m_requested_locks[k])
        clean == [L EXCEPT !.a.m_requested_locks = [k \in Keys |-> "none"]]
        asked == FoldLeft(Ask, clean, SetToSeq(again))
    IN [asked EXCEPT !.a.pending =
          {k \in again : /\ asked.b.m_key_states[k].m_key_state = "locking"
                         /\ key_location(k) \notin L.down}]

\* agent::handle_function
handle_function(L, res) ==
    LET started == Reacquire([L EXCEPT !.a.m_state = "function_started"])
    IN IF L.a.m_state # "function_get_sent" THEN L
       ELSE IF res = "ok"
       THEN IF started.a.pending = {} THEN Call(started, "do_runner", "") ELSE started
       ELSE Call(L, "do_result", IF res \in {"error", "wounded"}
                                 THEN "function_get_failed" ELSE "function_get_error")

\* agent::do_start, and handle_begin or exec before it
do_start(L) ==
    LET fresh == [L EXCEPT !.a.m_state = "function_get_sent",
                           !.a.m_result = "none", !.a.m_wounded = FALSE]
        now == TryLockNow([fresh EXCEPT !.b = Restarted(@)],
                          Function[L.t], "read")
        asked == broker_try_lock(fresh, Function[L.t], "read")
    IN IF Function[L.t] = "none" THEN Call(fresh, "handle_function", "ok")
       ELSE IF now = "" THEN asked
       ELSE Call(asked, "handle_function", now)

\* agent::handle_try_lock_response, for the runner or for Reacquire.
try_lock_response(L, k, res) ==
    LET noted == [L EXCEPT !.a.m_wounded = @ \/ res = "wounded",
                           !.a.pending = @ \ {k}]
    IN IF L.a.m_state # "function_started" THEN L
       ELSE IF L.a.pending # {}
       THEN IF noted.a.pending = {} THEN Call(noted, "do_runner", "") ELSE noted
       ELSE IF res = "ok" THEN Call([noted EXCEPT !.a.pc = @ + 1], "schedule_contract", "")
       ELSE Call(noted, "handle_run", IF res = "wounded" THEN "wounded" ELSE "exception")

\* broker::handle_lock
handle_lock(L, k, res, v) ==
    LET known == /\ L.b.m_state # "none"
                 /\ L.b.m_key_states[k].m_key_state = "locking"
        locked == [L EXCEPT !.b.m_key_states[k] =
                      [@ EXCEPT !.m_key_state = "locked", !.m_value = v]]
        Tell(M, r) == IF M.a.m_state = "function_get_sent"
                      THEN Call(M, "handle_function", r)
                      ELSE try_lock_response(M, k, r)
    IN IF res # "ok" THEN Tell(L, res)
       ELSE IF known THEN Tell(locked, "ok")
       ELSE Tell(L, "error")

\* The broker's callback for a response of shard s.
HandleResponse(L, s, m) ==
    CASE m.op = "try_lock" -> handle_lock(L, m.key, m.result, m.value)
      [] m.op = "prepare" -> broker_handle_prepare(L, s, m.result)
      [] m.op = "commit" -> broker_handle_commit(L, s, m.result)
      [] m.op = "rollback" -> broker_handle_rollback(L, s, m.result)
      [] m.op = "finish" -> broker_handle_finish(L, s, m.result)

do_recovery_without_commit(L) ==
    IF AllShards(L, "committed")
    THEN Call([L EXCEPT !.b.m_state = "committed"], "broker_finish", "")
    ELSE broker_rollback([L EXCEPT !.b.m_state = "begun"])

do_recovery_without_rollback(L) ==
    IF AllShards(L, "committed")
    THEN Call([L EXCEPT !.b.m_state = "committed"], "broker_finish", "")
    ELSE broker_commit([L EXCEPT !.b.m_state = "prepared"])

\* broker::do_recovery for one ticket, whose states the shards reported.
do_recovery(L) ==
    LET committed == {s \in Used(L) : L.b.m_shard_states[s] = "committed"}
    IN CASE committed = Used(L) ->
              Call([L EXCEPT !.b.m_state = "committed"], "broker_finish", "")
         [] committed # Used(L) /\ committed # {} ->
              broker_commit([L EXCEPT !.b.m_state = "prepared"])
         [] OTHER -> broker_rollback([L EXCEPT !.b.m_state = "begun"])

-----------------------------------------------------------------------------
\* The link that L names, called.
CallNext(L) ==
    LET M == [L EXCEPT !.next = <<>>]
        link == L.next[1]
        arg == L.next[2]
    IN CASE link = "finish_callback" -> finish_callback(M, arg)
         [] link = "rollback_callback" -> rollback_callback(M, arg)
         [] link = "commit_callback" -> commit_callback(M, arg)
         [] link = "broker_finish" -> broker_finish(M)
         [] link = "broker_do_commit" -> broker_do_commit(M)
         [] link = "do_result" -> do_result(M, arg)
         [] link = "handle_run" -> handle_run(M, arg)
         [] link = "handle_function" -> handle_function(M, arg)
         [] link = "do_runner" -> do_runner(M)
         [] link = "schedule_contract" -> schedule_contract(M)

\* The states, in fact one, that the chain of calls beginning with L's ends in.
RECURSIVE Ends(_)
Ends(L) == UNION {IF M.next = <<>> THEN {M} ELSE Ends(CallNext(M)) : M \in {L}}
=============================================================================

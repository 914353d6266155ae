--------------------------- MODULE TicketMachine ---------------------------
(***************************************************************************)
(* The ticket machine and its clients: every transaction of PArSEC gets a  *)
(* ticket number of its own (src/parsec/ticket_machine).  A client fetches *)
(* ranges of numbers ahead and gives them out one by one; a callback that  *)
(* finds none waits for the range that is being fetched.                   *)
(*                                                                         *)
(* The machine is a Raft state machine behind an RPC server, without       *)
(* snapshots: a new leader has the counter its log leads to.  A request    *)
(* may be lost before or after it was replicated, and a leader that loses  *)
(* its leadership answers without a payload, which the client asserts      *)
(* never happens.  (The machine never answers with an error_code.)         *)
(***************************************************************************)
EXTENDS Naturals, Sequences

CONSTANTS
    TicketClient,
    m_range,            \* m_batch_size of the controller
    fetch_threshold,
    MaxGets,            \* calls of get_ticket_number
    MaxLostFetches

\* The client fetches before it has no number left.
ASSUME TicketAssumption ==
    m_range \in Nat /\ fetch_threshold \in Nat \ {0}

VARIABLES
    m_next_ticket_number,
    m_tickets,          \* per client, the numbers it holds
    m_fetching_tickets,
    m_callbacks,        \* per client, the callbacks that wait
    fetches,            \* per client, requests under way
    ranges,             \* per client, answers under way: <<first, last + 1>> or <<>>
    given,              \* <<callback, number>>: callbacks that were called
    gets, lostFetches,
    unfetched           \* clients whose callbacks wait after a fetch failed

clientQueues == <<m_tickets, m_fetching_tickets, m_callbacks, given, gets, unfetched>>
ticketVars == <<m_next_ticket_number, clientQueues, fetches, ranges, lostFetches>>

TicketsInit ==
    /\ m_next_ticket_number = 0
    /\ m_tickets = [x \in TicketClient |-> <<>>]
    /\ m_fetching_tickets = [x \in TicketClient |-> FALSE]
    /\ m_callbacks = [x \in TicketClient |-> <<>>]
    /\ fetches = [x \in TicketClient |-> 0]
    /\ ranges = [x \in TicketClient |-> <<>>]
    /\ given = {} /\ gets = 0 /\ lostFetches = 0 /\ unfetched = {}

\* fetch_tickets, which can fail.
fetch_tickets(x, sent) ==
    fetches' = [fetches EXCEPT ![x] = IF sent THEN @ + 1 ELSE @]

\* client::get_ticket_number; without numbers and unable to fetch some it
\* returns false.
get_ticket_number(x) ==
    /\ gets < MaxGets /\ gets' = gets + 1
    /\ UNCHANGED <<m_next_ticket_number, ranges, lostFetches>>
    /\ LET fetch == Len(m_tickets[x]) < fetch_threshold /\ ~m_fetching_tickets[x]
       IN  \E sent \in BOOLEAN :
            /\ fetch_tickets(x, fetch /\ sent)
            /\ m_fetching_tickets' =
                  [m_fetching_tickets EXCEPT ![x] = @ \/ (fetch /\ sent)]
            /\ unfetched' = IF fetch /\ sent THEN unfetched \ {x} ELSE unfetched
            /\ \/ /\ m_tickets[x] = <<>> /\ fetch /\ ~sent
                  /\ UNCHANGED <<m_tickets, m_callbacks, given>>
               \/ /\ m_tickets[x] = <<>> /\ (fetch => sent)
                  /\ m_callbacks' = [m_callbacks EXCEPT ![x] = Append(@, gets')]
                  /\ UNCHANGED <<m_tickets, given>>
               \/ /\ m_tickets[x] # <<>>
                  /\ given' = given \cup {<<gets', Head(m_tickets[x])>>}
                  /\ m_tickets' = [m_tickets EXCEPT ![x] = Tail(@)]
                  /\ UNCHANGED m_callbacks

\* (Faulty: the end of a range is taken for its last number.)
numbers_inclusive(range) == [i \in 1..(range[2] + 1 - range[1]) |-> range[1] + i - 1]

\* The numbers of a range, whose end is exclusive.
numbers(range) == [i \in 1..(range[2] - range[1]) |-> range[1] + i - 1]

\* handle_ticket_numbers: as many callbacks as there are numbers are called,
\* and more numbers fetched if some still wait.
handle_ticket_numbers(x) ==
    /\ ranges[x] # <<>> /\ ranges[x][1] # <<>>
    /\ LET tickets == m_tickets[x] \o numbers(ranges[x][1])
           cbs == m_callbacks[x]
           n == IF Len(tickets) < Len(cbs) THEN Len(tickets) ELSE Len(cbs)
       IN  /\ given' = given \cup {<<cbs[i], tickets[i]>> : i \in 1..n}
           /\ m_tickets' =
                [m_tickets EXCEPT ![x] = SubSeq(tickets, n + 1, Len(tickets))]
           /\ m_callbacks' = [m_callbacks EXCEPT ![x] = SubSeq(cbs, n + 1, Len(cbs))]
           /\ \E sent \in BOOLEAN :
                /\ fetch_tickets(x, n < Len(cbs) /\ sent)
                /\ m_fetching_tickets' =
                      [m_fetching_tickets EXCEPT ![x] = n < Len(cbs) /\ sent]
                /\ unfetched' = IF n < Len(cbs) /\ ~sent THEN unfetched \cup {x}
                                ELSE unfetched
    /\ ranges' = [ranges EXCEPT ![x] = Tail(@)]
    /\ UNCHANGED <<m_next_ticket_number, gets, lostFetches>>

\* impl::get_ticket_number, called by process_request once the request is
\* committed.
Serve(x) ==
    /\ fetches[x] > 0
    /\ fetches' = [fetches EXCEPT ![x] = @ - 1]
    /\ ranges' = [ranges EXCEPT ![x] =
                    Append(@, <<m_next_ticket_number, m_next_ticket_number + m_range>>)]
    /\ m_next_ticket_number' = m_next_ticket_number + m_range
    /\ UNCHANGED <<clientQueues, lostFetches>>

\* The request is lost, or its answer is, or it has no payload.
Lose(x) ==
    /\ fetches[x] > 0 /\ lostFetches < MaxLostFetches
    /\ lostFetches' = lostFetches + 1
    /\ fetches' = [fetches EXCEPT ![x] = @ - 1]
    /\ m_next_ticket_number' \in {m_next_ticket_number, m_next_ticket_number + m_range}
    /\ \/ UNCHANGED ranges
       \/ ranges' = [ranges EXCEPT ![x] = Append(@, <<>>)]
    /\ UNCHANGED clientQueues

\* An answer without a payload ends the client's process.
Asserted(x) == ranges[x] # <<>> /\ ranges[x][1] = <<>>

TicketsNext ==
    \E x \in TicketClient :
        \/ ~Asserted(x) /\ (get_ticket_number(x) \/ handle_ticket_numbers(x))
        \/ Serve(x) \/ Lose(x)

TicketsSpec == TicketsInit /\ [][TicketsNext]_ticketVars

-----------------------------------------------------------------------------
(***************************************************************************)
(* No ticket number is given out twice, by one client or by two, and none  *)
(* to a callback that already has one; a client fetches one range at a     *)
(* time; and a callback waits only while a range is being fetched or the   *)
(* fetch of another one failed (impl::get_ticket_number, client.cpp).      *)
(***************************************************************************)
TicketsSound ==
    /\ \A g, h \in given : (g[1] = h[1] \/ g[2] = h[2]) => g = h
    /\ \A x \in TicketClient :
        /\ \A i \in DOMAIN m_tickets[x] :
              /\ \A g \in given : g[2] # m_tickets[x][i]
              /\ \A y \in TicketClient \ {x} : \A j \in DOMAIN m_tickets[y] :
                    m_tickets[x][i] # m_tickets[y][j]
        /\ \A i \in DOMAIN m_callbacks[x] : \A g \in given : g[1] # m_callbacks[x][i]
        /\ fetches[x] + Len(ranges[x]) <= (IF m_fetching_tickets[x] THEN 1 ELSE 0)
        /\ m_callbacks[x] # <<>> => m_fetching_tickets[x] \/ x \in unfetched
=============================================================================

------------------------- MODULE TicketMachine_proofs -------------------------
(***************************************************************************)
(* Proofs about the ticket machine and its clients, for any clients, range *)
(* size, fetch threshold and number of calls and losses.                   *)
(*                                                                         *)
(* TicketsSound is not inductive: that a number a client gives out is new  *)
(* follows from where numbers may be.  The inductive invariant says that   *)
(* every number below the machine's counter is in at most one place: given *)
(* to a callback, held by a client, or in a range on its way to one, and   *)
(* likewise that every callback waits in one place until it is called.     *)
(***************************************************************************)
EXTENDS TicketMachine, TLAPS

TicketsType ==
    /\ m_next_ticket_number \in Nat /\ gets \in Nat
    /\ m_tickets \in [TicketClient -> Seq(Nat)]
    /\ m_fetching_tickets \in [TicketClient -> BOOLEAN]
    /\ m_callbacks \in [TicketClient -> Seq(Nat)]
    /\ fetches \in [TicketClient -> Nat]
    /\ ranges \in [TicketClient -> Seq({<<>>} \cup (Nat \X Nat))]
    /\ given \subseteq Nat \X Nat

\* A range is on its way to the client.
Arrives(x) == ranges[x] # <<>> /\ ranges[x][1] # <<>>

GivenOnce == \A g, h \in given : (g[1] = h[1] \/ g[2] = h[2]) => g = h

BelowCounters ==
    /\ \A g \in given : g[1] <= gets /\ g[2] < m_next_ticket_number
    /\ \A x \in TicketClient :
        /\ \A i \in DOMAIN m_tickets[x] : m_tickets[x][i] < m_next_ticket_number
        /\ \A i \in DOMAIN m_callbacks[x] : m_callbacks[x][i] <= gets

HeldOnce ==
    \A x, y \in TicketClient : \A i \in DOMAIN m_tickets[x], j \in DOMAIN m_tickets[y] :
        m_tickets[x][i] = m_tickets[y][j] => x = y /\ i = j

WaitsOnce ==
    \A x, y \in TicketClient : \A i \in DOMAIN m_callbacks[x], j \in DOMAIN m_callbacks[y] :
        m_callbacks[x][i] = m_callbacks[y][j] => x = y /\ i = j

NotGiven ==
    \A x \in TicketClient : \A g \in given :
        /\ \A i \in DOMAIN m_tickets[x] : g[2] # m_tickets[x][i]
        /\ \A i \in DOMAIN m_callbacks[x] : g[1] # m_callbacks[x][i]

Outside(n, r) == n < r[1] \/ r[2] <= n

RangesApart ==
    \A x \in TicketClient : Arrives(x) =>
        /\ ranges[x][1][2] <= m_next_ticket_number
        /\ \A g \in given : Outside(g[2], ranges[x][1])
        /\ \A y \in TicketClient : \A i \in DOMAIN m_tickets[y] :
                Outside(m_tickets[y][i], ranges[x][1])
        /\ \A y \in TicketClient \ {x} : Arrives(y) =>
                \/ ranges[x][1][2] <= ranges[y][1][1]
                \/ ranges[y][1][2] <= ranges[x][1][1]

OneFetch ==
    \A x \in TicketClient :
        /\ fetches[x] + Len(ranges[x]) <= (IF m_fetching_tickets[x] THEN 1 ELSE 0)
        /\ m_callbacks[x] # <<>> => m_fetching_tickets[x] \/ x \in unfetched

TicketsInv ==
    /\ TicketsType /\ GivenOnce /\ BelowCounters /\ HeldOnce /\ WaitsOnce
    /\ NotGiven /\ RangesApart /\ OneFetch

\* The empty queue has no position.
LEMMA NoPosition == DOMAIN <<>> = {}
OBVIOUS

\* Nothing is given out or held at the start.
LEMMA TicketsStart == ASSUME TicketsInit PROVE TicketsInv
<1>1. TicketsType
  BY DEF TicketsInit, TicketsType
<1>2. OneFetch
  <2>1. \A x \in TicketClient :
          /\ fetches[x] = 0 /\ ranges[x] = <<>> /\ ~m_fetching_tickets[x]
          /\ m_callbacks[x] = <<>>
    BY DEF TicketsInit
  <2>2. Len(<<>>) = 0 /\ 0 + 0 <= 0
    OBVIOUS
  <2> QED BY Zenon, <2>1, <2>2 DEF OneFetch
<1>3. /\ given = {}
      /\ \A x \in TicketClient : /\ DOMAIN m_tickets[x] = {} /\ DOMAIN m_callbacks[x] = {}
                               /\ ranges[x] = <<>>
  BY NoPosition DEF TicketsInit
<1>4. GivenOnce /\ BelowCounters /\ HeldOnce /\ WaitsOnce /\ NotGiven /\ RangesApart
  BY Zenon, <1>3
     DEF GivenOnce, BelowCounters, HeldOnce, WaitsOnce, NotGiven, RangesApart, Arrives
<1> QED
  BY <1>1, <1>2, <1>4 DEF TicketsInv

\* A function on 1..n is a sequence of length n.
LEMMA SeqOf ==
    ASSUME NEW S, NEW n \in Nat, NEW f \in [1..n -> S]
    PROVE  f \in Seq(S) /\ Len(f) = n
OBVIOUS

\* The numbers of a range, in order.
LEMMA NumbersOf ==
    ASSUME NEW a \in Nat, NEW b \in Nat
    PROVE  /\ numbers(<<a, b>>) \in Seq(Nat)
           /\ Len(numbers(<<a, b>>)) = IF a <= b THEN b - a ELSE 0
           /\ \A i \in 1..Len(numbers(<<a, b>>)) : numbers(<<a, b>>)[i] = a + i - 1
<1> DEFINE N == numbers(<<a, b>>)
           n == IF a <= b THEN b - a ELSE 0
<1>1. n \in Nat /\ 1..(b - a) = 1..n
  OBVIOUS
<1>2. N = [i \in 1..n |-> a + i - 1]
  BY <1>1 DEF numbers
<1>3. \A i \in 1..n : a + i - 1 \in Nat
  BY <1>1
<1> HIDE DEF N, n
<1>4. N \in [1..n -> Nat]
  BY <1>2, <1>3
<1>5. N \in Seq(Nat) /\ Len(N) = n
  BY <1>1, <1>4, SeqOf
<1>6. \A i \in 1..Len(N) : N[i] = a + i - 1
  BY <1>2, <1>5
<1> QED BY <1>5, <1>6 DEF N, n

\* The queue of numbers after a range was added: those held before, then the
\* numbers of the range in order.
LEMMA TicketsAdded ==
    ASSUME NEW T \in Seq(Nat), NEW a \in Nat, NEW b \in Nat, NEW U,
           U = T \o numbers(<<a, b>>)
    PROVE  /\ U \in Seq(Nat)
           /\ \A i \in DOMAIN U :
                \/ i \in DOMAIN T /\ U[i] = T[i]
                \/ /\ i > Len(T) /\ U[i] = a + (i - Len(T)) - 1
                   /\ a <= U[i] /\ U[i] < b
<1> DEFINE N == numbers(<<a, b>>)
<1>1. N \in Seq(Nat) /\ (\A i \in 1..Len(N) : N[i] = a + i - 1)
      /\ Len(N) = IF a <= b THEN b - a ELSE 0
  BY NumbersOf
<1>2. U = T \o N
  OBVIOUS
<1> HIDE DEF N
<1>3. /\ T \o N \in Seq(Nat) /\ DOMAIN (T \o N) = 1..(Len(T) + Len(N))
      /\ Len(T) \in Nat /\ Len(N) \in Nat
      /\ \A i \in 1..Len(T) : (T \o N)[i] = T[i]
      /\ \A i \in 1..Len(N) : (T \o N)[Len(T) + i] = N[i]
  <2>1. N \in Seq(Nat)
    BY <1>1
  <2> QED BY <2>1
<1>4. DOMAIN T = 1..Len(T)
  OBVIOUS
<1>5. ASSUME NEW l \in Nat, NEW k \in Nat, l = Len(T), k = Len(N), NEW i \in DOMAIN U
      PROVE  \/ i \in DOMAIN T /\ U[i] = T[i]
             \/ i > Len(T) /\ U[i] = a + (i - Len(T)) - 1 /\ a <= U[i] /\ U[i] < b
  <2>0. i \in 1..(l + k)
    BY <1>2, <1>3, <1>5
  <2>1. CASE i \in 1..l
    BY <1>2, <1>3, <1>5, <1>4, <2>1
  <2>2. CASE i \notin 1..l
    <3> DEFINE j == i - l
    <3>1. j \in 1..k /\ l + j = i /\ i > l
      BY <2>0, <2>2
    <3> HIDE DEF j
    <3>2. U[i] = N[j] /\ N[j] = a + j - 1
      BY <1>1, <1>2, <1>3, <1>5, <3>1
    <3>3. a <= a + j - 1 /\ a + j - 1 < b
      <4>1. k = IF a <= b THEN b - a ELSE 0
        BY <1>1, <1>5
      <4> QED BY <4>1, <3>1
    <3> QED BY <1>5, <3>1, <3>2, <3>3 DEF j
  <2> QED BY <2>1, <2>2
<1> QED BY <1>2, <1>3, <1>5

\* r is what is left of the queue q without its first n entries.
LeftOf(q, r, n) ==
    /\ r \in Seq(Nat)
    /\ \A i \in DOMAIN r : i + n \in DOMAIN q /\ r[i] = q[i + n] /\ i > 0

\* Tail leaves all but the first entry.
LEMMA TailLeaves ==
    ASSUME NEW q \in Seq(Nat), q # <<>>
    PROVE  LeftOf(q, Tail(q), 1) /\ 1 \in DOMAIN q /\ Head(q) = q[1] /\ q[1] \in Nat
<1>1. Tail(q) \in Seq(Nat) /\ Len(q) \in Nat /\ Len(q) > 0 /\ Len(Tail(q)) = Len(q) - 1
      /\ DOMAIN q = 1..Len(q) /\ DOMAIN Tail(q) = 1..(Len(q) - 1)
  OBVIOUS
<1>2. \A i \in 1..(Len(q) - 1) : i + 1 \in 1..Len(q) /\ Tail(q)[i] = q[i + 1] /\ i > 0
  OBVIOUS
<1>3. 1 \in DOMAIN q /\ Head(q) = q[1] /\ q[1] \in Nat
  BY <1>1
<1> QED BY Zenon, <1>1, <1>2, <1>3 DEF LeftOf

\* SubSeq(q, n + 1, Len(q)) leaves all but the first n entries.
LEMMA SubSeqLeaves ==
    ASSUME NEW q \in Seq(Nat), NEW n \in 0..Len(q)
    PROVE  LeftOf(q, SubSeq(q, n + 1, Len(q)), n)
<1> DEFINE r == SubSeq(q, n + 1, Len(q))
<1>1. r \in Seq(Nat) /\ Len(q) \in Nat /\ Len(r) = Len(q) - n /\ DOMAIN r = 1..(Len(q) - n)
      /\ DOMAIN q = 1..Len(q) /\ n \in Nat
  OBVIOUS
<1>2. \A i \in 1..(Len(q) - n) : i + n \in 1..Len(q) /\ r[i] = q[i + n] /\ i > 0
  OBVIOUS
<1> HIDE DEF r
<1>3. LeftOf(q, r, n)
  BY Zenon, <1>1, <1>2 DEF LeftOf
<1> QED BY <1>3 DEF r

\* get_ticket_number without a number, and unable to fetch some.
GetsNothing(x) == UNCHANGED <<m_tickets, m_callbacks, given>>

\* ... waiting for the numbers that are being fetched ...
GetsLater(x) ==
    /\ m_callbacks' = [m_callbacks EXCEPT ![x] = Append(@, gets + 1)]
    /\ UNCHANGED <<m_tickets, given>>

\* ... and with a number.
GetsNow(x) ==
    /\ m_tickets[x] # <<>>
    /\ given' = given \cup {<<gets + 1, Head(m_tickets[x])>>}
    /\ m_tickets' = [m_tickets EXCEPT ![x] = Tail(@)]
    /\ UNCHANGED m_callbacks

\* What get_ticket_number does to the requests for ranges.
LEMMA GetFetches ==
    ASSUME TicketsInv, NEW x \in TicketClient, get_ticket_number(x)
    PROVE  /\ gets' = gets + 1 /\ m_next_ticket_number' = m_next_ticket_number
           /\ ranges' = ranges
           /\ GetsNothing(x) \/ GetsLater(x) \/ GetsNow(x)
           /\ fetches' \in [TicketClient -> Nat]
           /\ m_fetching_tickets' \in [TicketClient -> BOOLEAN]
           /\ OneFetch'
<1> DEFINE fetch == Len(m_tickets[x]) < fetch_threshold /\ ~m_fetching_tickets[x]
<1>1. PICK sent \in BOOLEAN :
        /\ gets' = gets + 1 /\ m_next_ticket_number' = m_next_ticket_number
        /\ ranges' = ranges
        /\ fetches' = [fetches EXCEPT ![x] = IF fetch /\ sent THEN @ + 1 ELSE @]
        /\ m_fetching_tickets' = [m_fetching_tickets EXCEPT ![x] = @ \/ (fetch /\ sent)]
        /\ unfetched' = IF fetch /\ sent THEN unfetched \ {x} ELSE unfetched
        /\ \/ /\ m_tickets[x] = <<>> /\ fetch /\ ~sent /\ GetsNothing(x)
           \/ /\ m_tickets[x] = <<>> /\ (fetch => sent) /\ GetsLater(x)
           \/ GetsNow(x)
  BY DEF get_ticket_number, fetch_tickets, GetsNothing, GetsLater, GetsNow
<1> USE DEF TicketsInv, TicketsType
<1>2. /\ fetches' \in [TicketClient -> Nat]
      /\ m_fetching_tickets' \in [TicketClient -> BOOLEAN]
  BY <1>1
<1>3. \A y \in TicketClient \ {x} :
        /\ fetches'[y] = fetches[y] /\ m_fetching_tickets'[y] = m_fetching_tickets[y]
        /\ y \in unfetched' <=> y \in unfetched
        /\ m_callbacks'[y] = m_callbacks[y]
  BY <1>1 DEF GetsNothing, GetsLater, GetsNow
<1>4. /\ fetches'[x] = IF fetch /\ sent THEN fetches[x] + 1 ELSE fetches[x]
      /\ m_fetching_tickets'[x] = (m_fetching_tickets[x] \/ (fetch /\ sent))
      /\ x \in unfetched => x \in unfetched' \/ (fetch /\ sent)
      /\ m_callbacks'[x] = m_callbacks[x] \/ (m_tickets[x] = <<>> /\ (fetch => sent))
  BY <1>1 DEF GetsNothing, GetsLater, GetsNow
<1>5. ASSUME NEW y \in TicketClient
      PROVE  /\ fetches'[y] + Len(ranges'[y]) <= (IF m_fetching_tickets'[y] THEN 1 ELSE 0)
             /\ m_callbacks'[y] # <<>> => m_fetching_tickets'[y] \/ y \in unfetched'
  <2>1. /\ fetches[y] + Len(ranges[y]) <= (IF m_fetching_tickets[y] THEN 1 ELSE 0)
        /\ m_callbacks[y] # <<>> => m_fetching_tickets[y] \/ y \in unfetched
        /\ fetches[y] \in Nat /\ Len(ranges[y]) \in Nat /\ ranges'[y] = ranges[y]
        /\ m_fetching_tickets[y] \in BOOLEAN
    BY <1>1 DEF OneFetch
  <2>2. CASE y # x
    BY <1>3, <2>1, <2>2
  <2>3. CASE y = x
    <3>1. m_tickets[x] = <<>> => Len(m_tickets[x]) < fetch_threshold
      BY TicketAssumption
    <3>2. CASE fetch /\ sent
      <4>1. ~m_fetching_tickets[x] /\ m_fetching_tickets'[x] /\ fetches'[x] = fetches[x] + 1
        BY Zenon, <1>4, <3>2
      <4>2. fetches[x] + Len(ranges[x]) <= 0
        BY <2>1, <2>3, <4>1
      <4>3. fetches'[x] + Len(ranges'[x]) <= 1
        BY <2>1, <2>3, <4>1, <4>2
      <4> QED BY <2>3, <4>1, <4>3
    <3>3. CASE ~(fetch /\ sent)
      <4>1. /\ fetches'[x] = fetches[x] /\ m_fetching_tickets'[x] = m_fetching_tickets[x]
            /\ x \in unfetched => x \in unfetched'
        BY <1>4, <2>1, <2>3, <3>3
      <4>2. m_callbacks'[x] = m_callbacks[x] \/ m_fetching_tickets[x]
        BY <1>4, <3>1, <3>3
      <4> QED BY <2>1, <2>3, <4>1, <4>2
    <3> QED BY <3>2, <3>3
  <2> QED BY <2>2, <2>3
<1> QED BY <1>1, <1>2, <1>5 DEF OneFetch

\* client::get_ticket_number keeps every number and callback in one place.
LEMMA GetKeeps ==
    ASSUME TicketsInv, NEW x \in TicketClient, get_ticket_number(x)
    PROVE  TicketsInv'
<1>1. /\ gets' = gets + 1 /\ m_next_ticket_number' = m_next_ticket_number
      /\ ranges' = ranges
      /\ GetsNothing(x) \/ GetsLater(x) \/ GetsNow(x)
      /\ fetches' \in [TicketClient -> Nat]
      /\ m_fetching_tickets' \in [TicketClient -> BOOLEAN]
      /\ OneFetch'
  BY GetFetches
<1> USE DEF TicketsInv
<1>2. gets \in Nat /\ gets' \in Nat /\ \A n \in Nat : n <= gets => n <= gets' /\ n # gets'
  BY <1>1 DEF TicketsType
<1>3. \A y \in TicketClient : Arrives(y)' = Arrives(y)
  BY <1>1 DEF Arrives
<1>4. CASE GetsNothing(x)
  <2>1. m_tickets' = m_tickets /\ m_callbacks' = m_callbacks /\ given' = given
    BY <1>4 DEF GetsNothing
  <2>2. TicketsType'
    BY <1>1, <1>2, <2>1 DEF TicketsType
  <2>3. GivenOnce' /\ HeldOnce' /\ WaitsOnce' /\ NotGiven'
    BY <2>1 DEF GivenOnce, HeldOnce, WaitsOnce, NotGiven
  <2>4. BelowCounters'
    BY <1>1, <1>2, <2>1 DEF BelowCounters, TicketsType
  <2>5. RangesApart'
    BY <1>1, <1>3, <2>1 DEF RangesApart
  <2> QED BY <1>1, <2>2, <2>3, <2>4, <2>5
<1>5. CASE GetsLater(x)
  <2> DEFINE q == m_callbacks[x]
  <2>1. /\ m_tickets' = m_tickets /\ given' = given
        /\ m_callbacks' = [m_callbacks EXCEPT ![x] = Append(q, gets')]
        /\ q \in Seq(Nat)
    BY <1>1, <1>5 DEF GetsLater, TicketsType
  <2>2. /\ m_callbacks' \in [TicketClient -> Seq(Nat)]
        /\ m_callbacks'[x] = Append(q, gets')
        /\ \A y \in TicketClient \ {x} : m_callbacks'[y] = m_callbacks[y]
    BY <1>2, <2>1 DEF TicketsType
  <2>3. ASSUME NEW y \in TicketClient, NEW i \in DOMAIN m_callbacks'[y]
        PROVE  \/ i \in DOMAIN m_callbacks[y] /\ m_callbacks'[y][i] = m_callbacks[y][i]
               \/ y = x /\ i = Len(q) + 1 /\ i \notin DOMAIN m_callbacks[y] /\ m_callbacks'[y][i] = gets'
    <3>1. CASE y # x
      BY <2>2, <2>3, <3>1
    <3>2. CASE y = x
      BY <1>2, <2>1, <2>2, <2>3, <3>2
    <3> QED BY <3>1, <3>2
  <2>4. \A y \in TicketClient : \A i \in DOMAIN m_callbacks[y] :
           m_callbacks[y][i] \in Nat /\ m_callbacks[y][i] <= gets
    BY DEF TicketsType, BelowCounters
  <2>5. TicketsType'
    BY <1>1, <1>2, <2>1, <2>2 DEF TicketsType
  <2>6. GivenOnce' /\ HeldOnce'
    BY <2>1 DEF GivenOnce, HeldOnce
  <2>7. BelowCounters'
    <3>1. \A y \in TicketClient : \A i \in DOMAIN m_callbacks'[y] : m_callbacks'[y][i] <= gets'
      <4>1. gets' <= gets'
        BY <1>2
      <4> QED BY Zenon, <1>2, <2>3, <2>4, <4>1
    <3>2. \A g \in given : g[1] <= gets'
      <4>1. \A g \in given : g[1] \in Nat /\ g[1] <= gets
        BY DEF TicketsType, BelowCounters
      <4> QED BY Zenon, <1>2, <4>1
    <3> QED BY Zenon, <1>1, <2>1, <3>1, <3>2 DEF BelowCounters
  <2>8. WaitsOnce'
    <3>1. ASSUME NEW y \in TicketClient, NEW z \in TicketClient, NEW i \in DOMAIN m_callbacks'[y],
                 NEW j \in DOMAIN m_callbacks'[z], m_callbacks'[y][i] = m_callbacks'[z][j]
          PROVE  y = z /\ i = j
      <4>1. CASE i \in DOMAIN m_callbacks[y] /\ m_callbacks'[y][i] = m_callbacks[y][i]
        <5>1. m_callbacks'[y][i] # gets'
          BY Zenon, <1>2, <2>4, <4>1
        <5>2. j \in DOMAIN m_callbacks[z] /\ m_callbacks'[z][j] = m_callbacks[z][j]
          BY Zenon, <2>3, <3>1, <5>1
        <5>3. m_callbacks[y][i] = m_callbacks[z][j]
          BY Zenon, <3>1, <4>1, <5>2
        <5>4. i \in DOMAIN m_callbacks[y] /\ j \in DOMAIN m_callbacks[z]
          BY Zenon, <4>1, <5>2
        <5> QED BY Zenon, <5>3, <5>4 DEF WaitsOnce
      <4>2. CASE y = x /\ i = Len(q) + 1 /\ m_callbacks'[y][i] = gets'
        <5>1. ~(j \in DOMAIN m_callbacks[z] /\ m_callbacks'[z][j] = m_callbacks[z][j])
          BY Zenon, <1>2, <2>4, <3>1, <4>2
        <5> QED BY Zenon, <2>3, <3>1, <4>2, <5>1
      <4> QED BY Zenon, <2>3, <3>1, <4>1, <4>2
    <3> QED BY Zenon, <3>1 DEF WaitsOnce
  <2>9. NotGiven'
    <3>1. \A g \in given : g[1] \in Nat /\ g[1] <= gets
      BY DEF TicketsType, BelowCounters
    <3>2. ASSUME NEW y \in TicketClient, NEW g \in given, NEW i \in DOMAIN m_callbacks'[y]
          PROVE  g[1] # m_callbacks'[y][i]
      <4>1. g[1] # gets'
        BY Zenon, <1>2, <3>1, <3>2
      <4>2. \A k \in DOMAIN m_callbacks[y] : g[1] # m_callbacks[y][k]
        BY Zenon, <3>2 DEF NotGiven
      <4> QED BY Zenon, <2>3, <3>2, <4>1, <4>2
    <3>3. m_tickets' = m_tickets /\ given' = given
      BY <2>1
    <3> QED BY Zenon, <3>2, <3>3 DEF NotGiven
  <2>10. RangesApart'
    BY <1>1, <1>3, <2>1 DEF RangesApart
  <2> QED BY <1>1, <2>5, <2>6, <2>7, <2>8, <2>9, <2>10
<1>6. CASE GetsNow(x)
  <2> DEFINE q == m_tickets[x]
  <2>1. /\ q # <<>> /\ given' = given \cup {<<gets', Head(q)>>}
        /\ m_tickets' = [m_tickets EXCEPT ![x] = Tail(q)]
        /\ m_callbacks' = m_callbacks /\ q \in Seq(Nat)
    BY <1>1, <1>6 DEF GetsNow, TicketsType
  <2>2. LeftOf(q, Tail(q), 1) /\ 1 \in DOMAIN q /\ Head(q) = q[1] /\ q[1] \in Nat
    BY <2>1, TailLeaves
  <2>3. /\ m_tickets' \in [TicketClient -> Seq(Nat)] /\ m_tickets'[x] = Tail(q)
        /\ \A y \in TicketClient \ {x} : m_tickets'[y] = m_tickets[y]
    BY <2>1, <2>2 DEF TicketsType, LeftOf
  <2>4. /\ \A g \in given' : g \in given \/ g = <<gets', q[1]>>
        /\ given' \subseteq Nat \X Nat
    BY <1>2, <2>1, <2>2 DEF TicketsType
  <2>5. ASSUME NEW y \in TicketClient, NEW i \in DOMAIN m_tickets'[y]
        PROVE  \E k \in DOMAIN m_tickets[y] :
                  /\ m_tickets'[y][i] = m_tickets[y][k]
                  /\ k = (IF y = x THEN i + 1 ELSE i) /\ (y = x => k # 1)
    <3>1. CASE y # x
      BY <2>3, <2>5, <3>1
    <3>2. CASE y = x
      <4>1. i + 1 \in DOMAIN q /\ m_tickets'[x][i] = q[i + 1] /\ i > 0
        BY <2>2, <2>3, <2>5, <3>2 DEF LeftOf
      <4>2. i + 1 # 1
        BY <2>1, <2>2, <2>3, <2>5, <3>2, <4>1 DEF LeftOf
      <4> QED BY Zenon, <3>2, <4>1, <4>2
    <3> QED BY <3>1, <3>2
  <2>6. TicketsType'
    BY <1>1, <1>2, <2>1, <2>3, <2>4 DEF TicketsType
  <2>7. \A g \in given : g[1] \in Nat /\ g[1] <= gets /\ g[1] # gets' /\ g[2] # q[1]
    <3>1. \A g \in given : g[1] \in Nat /\ g[1] <= gets
      BY DEF TicketsType, BelowCounters
    <3> QED BY Zenon, <1>2, <2>2, <3>1 DEF NotGiven
  <2>8. GivenOnce'
    <3>1. <<gets', q[1]>>[1] = gets' /\ <<gets', q[1]>>[2] = q[1]
      OBVIOUS
    <3> QED BY Zenon, <2>4, <2>7, <3>1 DEF GivenOnce
  <2>9. HeldOnce'
    <3>1. ASSUME NEW y \in TicketClient, NEW z \in TicketClient, NEW i \in DOMAIN m_tickets'[y],
                 NEW j \in DOMAIN m_tickets'[z], m_tickets'[y][i] = m_tickets'[z][j]
          PROVE  y = z /\ i = j
      <4>1. PICK k \in DOMAIN m_tickets[y] :
               m_tickets'[y][i] = m_tickets[y][k] /\ k = (IF y = x THEN i + 1 ELSE i)
        BY <2>5, <3>1
      <4>2. PICK l \in DOMAIN m_tickets[z] :
               m_tickets'[z][j] = m_tickets[z][l] /\ l = (IF z = x THEN j + 1 ELSE j)
        BY <2>5, <3>1
      <4>3. y = z /\ k = l
        <5>1. m_tickets[y][k] = m_tickets[z][l]
          BY Zenon, <3>1, <4>1, <4>2
        <5> QED BY Zenon, <5>1 DEF HeldOnce
      <4>4. i \in Nat /\ j \in Nat
        BY <2>3, <3>1
      <4> QED BY <4>1, <4>2, <4>3, <4>4
    <3> QED BY Zenon, <3>1 DEF HeldOnce
  <2>10. WaitsOnce'
    BY <2>1 DEF WaitsOnce
  <2>11. NotGiven'
    <3>1. ASSUME NEW y \in TicketClient, NEW g \in given', NEW i \in DOMAIN m_tickets'[y]
          PROVE  g[2] # m_tickets'[y][i]
      <4>1. PICK k \in DOMAIN m_tickets[y] : m_tickets'[y][i] = m_tickets[y][k] /\ (y = x => k # 1)
        BY <2>5, <3>1
      <4>2. CASE g \in given
        BY Zenon, <4>1, <4>2 DEF NotGiven
      <4>3. CASE g = <<gets', q[1]>>
        <5>1. g[2] = m_tickets[x][1]
          BY <4>3
        <5> QED BY <2>2, <4>1, <5>1 DEF HeldOnce
      <4> QED BY <2>4, <3>1, <4>2, <4>3
    <3>2. ASSUME NEW y \in TicketClient, NEW g \in given', NEW i \in DOMAIN m_callbacks[y]
          PROVE  g[1] # m_callbacks[y][i]
      <4>1. m_callbacks[y][i] \in Nat /\ m_callbacks[y][i] <= gets
        BY DEF TicketsType, BelowCounters
      <4>2. m_callbacks[y][i] # gets'
        BY <1>2, <4>1
      <4>3. CASE g = <<gets', q[1]>>
        BY <4>2, <4>3
      <4> QED BY Zenon, <2>4, <4>3 DEF NotGiven
    <3> QED BY Zenon, <2>1, <3>1, <3>2 DEF NotGiven
  <2>12. BelowCounters'
    <3>1. ASSUME NEW g \in given'
          PROVE  g[1] <= gets' /\ g[2] < m_next_ticket_number
      <4>1. CASE g \in given
        BY <1>2, <4>1 DEF TicketsType, BelowCounters
      <4>2. CASE g = <<gets', q[1]>>
        BY <1>2, <2>2, <4>2 DEF BelowCounters
      <4> QED BY <2>4, <3>1, <4>1, <4>2
    <3>2. \A y \in TicketClient : \A i \in DOMAIN m_tickets'[y] : m_tickets'[y][i] < m_next_ticket_number
      BY Zenon, <2>5 DEF BelowCounters
    <3>3. \A y \in TicketClient : \A i \in DOMAIN m_callbacks[y] : m_callbacks[y][i] <= gets'
      <4>1. \A y \in TicketClient : \A i \in DOMAIN m_callbacks[y] :
               m_callbacks[y][i] \in Nat /\ m_callbacks[y][i] <= gets
        BY DEF TicketsType, BelowCounters
      <4> QED BY Zenon, <1>2, <4>1
    <3> QED BY Zenon, <1>1, <2>1, <3>1, <3>2, <3>3 DEF BelowCounters
  <2>13. RangesApart'
    <3>1. ASSUME NEW y \in TicketClient, Arrives(y)
          PROVE  /\ \A g \in given' : Outside(g[2], ranges[y][1])
                 /\ \A z \in TicketClient : \A i \in DOMAIN m_tickets'[z] :
                        Outside(m_tickets'[z][i], ranges[y][1])
      <4>1. \A z \in TicketClient : \A i \in DOMAIN m_tickets[z] :
                        Outside(m_tickets[z][i], ranges[y][1])
        BY Zenon, <3>1 DEF RangesApart
      <4>2. \A g \in given : Outside(g[2], ranges[y][1])
        BY Zenon, <3>1 DEF RangesApart
      <4>3. <<gets', q[1]>>[2] = q[1]
        OBVIOUS
      <4>4. \A g \in given' : Outside(g[2], ranges[y][1])
        BY Zenon, <2>2, <2>4, <4>1, <4>2, <4>3
      <4> QED BY Zenon, <2>5, <4>1, <4>4
    <3> QED BY Zenon, <1>1, <1>3, <3>1 DEF RangesApart, Outside
  <2> QED BY <1>1, <2>6, <2>8, <2>9, <2>10, <2>11, <2>12, <2>13
<1> QED BY <1>1, <1>4, <1>5, <1>6

\* The machine's counter advances when it serves a request: the range it answers
\* with is new.
LEMMA ServeKeeps ==
    ASSUME TicketsInv, NEW x \in TicketClient, Serve(x)
    PROVE  TicketsInv'
<1> DEFINE n == m_next_ticket_number
           r == <<n, n + m_range>>
<1> USE DEF TicketsInv
<1>1. /\ fetches[x] > 0 /\ fetches' = [fetches EXCEPT ![x] = @ - 1]
      /\ ranges' = [ranges EXCEPT ![x] = Append(@, r)]
      /\ m_next_ticket_number' = n + m_range
      /\ m_tickets' = m_tickets /\ m_callbacks' = m_callbacks /\ given' = given /\ gets' = gets
      /\ m_fetching_tickets' = m_fetching_tickets /\ unfetched' = unfetched
  BY DEF Serve, clientQueues
<1>2. n \in Nat /\ n + m_range \in Nat /\ r \in Nat \X Nat /\ n <= n + m_range
      /\ \A k \in Nat : k < n => k < n + m_range
  BY TicketAssumption DEF TicketsType
<1>3. ranges[x] = <<>> /\ fetches[x] = 1 /\ m_fetching_tickets[x]
  <2>1. /\ fetches[x] \in Nat /\ ranges[x] \in Seq({<<>>} \cup (Nat \X Nat))
        /\ fetches[x] + Len(ranges[x]) <= (IF m_fetching_tickets[x] THEN 1 ELSE 0)
    BY DEF TicketsType, OneFetch
  <2>2. Len(ranges[x]) = 0 /\ fetches[x] = 1 /\ m_fetching_tickets[x]
    BY <1>1, <2>1
  <2> QED BY <2>1, <2>2
<1>4. ranges'[x] = <<r>> /\ \A y \in TicketClient \ {x} : ranges'[y] = ranges[y]
  BY <1>1, <1>3 DEF TicketsType
<1>5. fetches'[x] = 0 /\ \A y \in TicketClient \ {x} : fetches'[y] = fetches[y]
  BY <1>1, <1>3 DEF TicketsType
<1>6. TicketsType'
  <2>1. fetches' \in [TicketClient -> Nat]
    BY <1>1, <1>3 DEF TicketsType
  <2>2. ranges' \in [TicketClient -> Seq({<<>>} \cup (Nat \X Nat))]
    BY <1>1, <1>2 DEF TicketsType
  <2> QED BY <1>1, <1>2, <2>1, <2>2 DEF TicketsType
<1>7. GivenOnce' /\ HeldOnce' /\ WaitsOnce' /\ NotGiven'
  BY <1>1 DEF GivenOnce, HeldOnce, WaitsOnce, NotGiven
<1>8. (\A g \in given : g[2] \in Nat /\ g[2] < n)
      /\ \A y \in TicketClient : \A i \in DOMAIN m_tickets[y] :
            m_tickets[y][i] \in Nat /\ m_tickets[y][i] < n
  BY DEF TicketsType, BelowCounters
<1>9. BelowCounters'
  <2>1. \A g \in given : g[2] < n + m_range
    BY Zenon, <1>2, <1>8
  <2>2. \A y \in TicketClient : \A i \in DOMAIN m_tickets[y] : m_tickets[y][i] < n + m_range
    BY Zenon, <1>2, <1>8
  <2> QED BY Zenon, <1>1, <2>1, <2>2 DEF BelowCounters
<1>10. RangesApart'
  <2>1. Arrives(x)' /\ \A y \in TicketClient \ {x} : Arrives(y)' <=> Arrives(y)
    BY <1>4 DEF Arrives
  <2>2. \A y \in TicketClient \ {x} : Arrives(y) => ranges[y][1][2] <= n /\ ranges[y][1][2] \in Nat
    <3>1. ASSUME NEW y \in TicketClient \ {x}, Arrives(y) PROVE ranges[y][1] \in Nat \X Nat
      BY <3>1 DEF TicketsType, Arrives
    <3> QED BY <3>1 DEF RangesApart
  <2>3. ranges'[x][1] = r /\ r[1] = n /\ r[2] = n + m_range
    BY <1>4
  <2>4. ASSUME NEW y \in TicketClient, Arrives(y)', y # x
        PROVE  /\ ranges'[y][1][2] <= n + m_range
               /\ \A g \in given : Outside(g[2], ranges'[y][1])
               /\ \A z \in TicketClient : \A i \in DOMAIN m_tickets[z] :
                        Outside(m_tickets[z][i], ranges'[y][1])
               /\ \A z \in TicketClient \ {y} : Arrives(z)' =>
                     ranges'[y][1][2] <= ranges'[z][1][1] \/ ranges'[z][1][2] <= ranges'[y][1][1]
    <3>1. Arrives(y) /\ ranges'[y] = ranges[y] /\ ranges[y][1][2] <= n
      BY Zenon, <1>4, <2>1, <2>2, <2>4
    <3>2. ranges[y][1][2] <= n + m_range
      BY TicketAssumption, <1>2, <2>2, <2>4, <3>1
    <3>3. /\ \A g \in given : Outside(g[2], ranges[y][1])
          /\ \A z \in TicketClient : \A i \in DOMAIN m_tickets[z] :
                        Outside(m_tickets[z][i], ranges[y][1])
          /\ \A z \in TicketClient \ {y} : Arrives(z) =>
                \/ ranges[y][1][2] <= ranges[z][1][1]
                \/ ranges[z][1][2] <= ranges[y][1][1]
      BY Zenon, <3>1 DEF RangesApart
    <3>4. ASSUME NEW z \in TicketClient \ {y}, Arrives(z)'
          PROVE  ranges'[y][1][2] <= ranges'[z][1][1] \/ ranges'[z][1][2] <= ranges'[y][1][1]
      <4>1. CASE z = x
        BY Zenon, <2>3, <3>1, <4>1
      <4>2. CASE z # x
        BY Zenon, <1>4, <2>1, <3>1, <3>3, <3>4, <4>2
      <4> QED BY <4>1, <4>2
    <3> QED BY Zenon, <3>1, <3>2, <3>3, <3>4
  <2>5. /\ r[2] <= n + m_range
        /\ \A g \in given : Outside(g[2], r)
        /\ \A z \in TicketClient : \A i \in DOMAIN m_tickets[z] : Outside(m_tickets[z][i], r)
        /\ \A z \in TicketClient \ {x} : Arrives(z)' =>
                ranges'[z][1][2] <= r[1] \/ r[2] <= ranges'[z][1][1]
    <3>1. r[2] <= n + m_range
      BY <1>2, <2>3
    <3>2. \A z \in TicketClient \ {x} : Arrives(z)' => ranges'[z][1][2] <= r[1]
      BY Zenon, <1>4, <2>1, <2>2, <2>3
    <3> QED BY Zenon, <1>8, <2>3, <3>1, <3>2 DEF Outside
  <2> HIDE DEF r, n
  <2>6. ASSUME NEW y \in TicketClient, Arrives(y)'
        PROVE  /\ ranges'[y][1][2] <= m_next_ticket_number'
               /\ \A g \in given' : Outside(g[2], ranges'[y][1])
               /\ \A z \in TicketClient : \A i \in DOMAIN m_tickets'[z] :
                        Outside(m_tickets'[z][i], ranges'[y][1])
               /\ \A z \in TicketClient \ {y} : Arrives(z)' =>
                     ranges'[y][1][2] <= ranges'[z][1][1] \/ ranges'[z][1][2] <= ranges'[y][1][1]
    <3>1. CASE y = x
      BY Zenon, <1>1, <2>3, <2>5, <3>1
    <3>2. CASE y # x
      BY Zenon, <1>1, <2>4, <2>6, <3>2
    <3> QED BY <3>1, <3>2
  <2> QED BY Zenon, <2>6 DEF RangesApart, Outside
<1>11. OneFetch'
  <2>1. ASSUME NEW y \in TicketClient
        PROVE  /\ fetches'[y] + Len(ranges'[y]) <= (IF m_fetching_tickets'[y] THEN 1 ELSE 0)
               /\ m_callbacks'[y] # <<>> => m_fetching_tickets'[y] \/ y \in unfetched'
    <3>1. CASE y # x
      BY Zenon, <1>1, <1>4, <1>5, <3>1 DEF OneFetch
    <3>2. CASE y = x
      <4>1. fetches'[x] + Len(ranges'[x]) <= 1
        BY <1>4, <1>5
      <4> QED BY Zenon, <1>1, <1>3, <3>2, <4>1
    <3> QED BY <3>1, <3>2
  <2> QED BY <2>1 DEF OneFetch
<1> QED BY <1>6, <1>7, <1>9, <1>10, <1>11

\* A request or its answer is lost: the numbers it may have taken are nowhere.
LEMMA LoseKeeps ==
    ASSUME TicketsInv, NEW x \in TicketClient, Lose(x)
    PROVE  TicketsInv'
<1> DEFINE n == m_next_ticket_number
           m == m_next_ticket_number'
<1> USE DEF TicketsInv
<1>1. /\ fetches[x] > 0 /\ fetches' = [fetches EXCEPT ![x] = @ - 1]
      /\ ranges' = ranges \/ ranges' = [ranges EXCEPT ![x] = Append(@, <<>>)]
      /\ m \in {n, n + m_range}
      /\ m_tickets' = m_tickets /\ m_callbacks' = m_callbacks /\ given' = given /\ gets' = gets
      /\ m_fetching_tickets' = m_fetching_tickets /\ unfetched' = unfetched
  BY DEF Lose, clientQueues
<1>2. n \in Nat /\ m \in Nat /\ \A k \in Nat : (k < n => k < m) /\ (k <= n => k <= m)
  BY <1>1, TicketAssumption DEF TicketsType
<1>3. ranges[x] = <<>> /\ fetches[x] = 1 /\ m_fetching_tickets[x]
  <2>1. /\ fetches[x] \in Nat /\ ranges[x] \in Seq({<<>>} \cup (Nat \X Nat))
        /\ fetches[x] + Len(ranges[x]) <= (IF m_fetching_tickets[x] THEN 1 ELSE 0)
    BY DEF TicketsType, OneFetch
  <2>2. Len(ranges[x]) = 0 /\ fetches[x] = 1 /\ m_fetching_tickets[x]
    BY <1>1, <2>1
  <2> QED BY <2>1, <2>2
<1>4. /\ ranges'[x] = <<>> \/ ranges'[x] = <<<<>>>>
      /\ \A y \in TicketClient \ {x} : ranges'[y] = ranges[y]
  BY <1>1, <1>3 DEF TicketsType
<1>5. fetches'[x] = 0 /\ \A y \in TicketClient \ {x} : fetches'[y] = fetches[y]
  BY <1>1, <1>3 DEF TicketsType
<1>6. TicketsType'
  <2>1. fetches' \in [TicketClient -> Nat]
    BY <1>1, <1>3 DEF TicketsType
  <2>2. ranges' \in [TicketClient -> Seq({<<>>} \cup (Nat \X Nat))]
    <3>1. <<>> \in {<<>>} \cup (Nat \X Nat)
      OBVIOUS
    <3>2. ranges \in [TicketClient -> Seq({<<>>} \cup (Nat \X Nat))]
      BY DEF TicketsType
    <3> DEFINE S == {<<>>} \cup (Nat \X Nat)
    <3> HIDE DEF S
    <3>3. <<>> \in S /\ ranges \in [TicketClient -> Seq(S)]
      BY <3>1, <3>2 DEF S
    <3>4. Append(ranges[x], <<>>) \in Seq(S)
      BY <3>3
    <3>5. ranges' \in [TicketClient -> Seq(S)]
      BY Zenon, <1>1, <3>3, <3>4
    <3> QED BY <3>5 DEF S
  <2> QED BY <1>1, <1>2, <2>1, <2>2 DEF TicketsType
<1>7. GivenOnce' /\ HeldOnce' /\ WaitsOnce' /\ NotGiven'
  BY <1>1 DEF GivenOnce, HeldOnce, WaitsOnce, NotGiven
<1>8. (\A g \in given : g[2] \in Nat /\ g[2] < n)
      /\ \A y \in TicketClient : \A i \in DOMAIN m_tickets[y] :
            m_tickets[y][i] \in Nat /\ m_tickets[y][i] < n
  BY DEF TicketsType, BelowCounters
<1>9. BelowCounters'
  <2>1. \A g \in given : g[2] < m
    BY Zenon, <1>2, <1>8
  <2>2. \A y \in TicketClient : \A i \in DOMAIN m_tickets[y] : m_tickets[y][i] < m
    BY Zenon, <1>2, <1>8
  <2> QED BY Zenon, <1>1, <2>1, <2>2 DEF BelowCounters
<1>10. RangesApart'
  <2>1. ~Arrives(x)' /\ \A y \in TicketClient \ {x} : Arrives(y)' <=> Arrives(y)
    BY <1>4 DEF Arrives
  <2>2. ASSUME NEW y \in TicketClient, Arrives(y)'
        PROVE  Arrives(y) /\ y # x /\ ranges'[y] = ranges[y] /\ ranges[y][1][2] <= m
    <3>1. Arrives(y) /\ y # x /\ ranges'[y] = ranges[y]
      BY Zenon, <1>4, <2>1, <2>2
    <3>2. ranges[y][1] \in Nat \X Nat
      BY <3>1 DEF TicketsType, Arrives
    <3>3. ranges[y][1][2] \in Nat /\ ranges[y][1][2] <= n
      BY <3>1, <3>2 DEF RangesApart
    <3> QED BY Zenon, <1>2, <3>1, <3>3
  <2>3. ASSUME NEW y \in TicketClient, Arrives(y)'
        PROVE  /\ ranges'[y][1][2] <= m
               /\ \A g \in given' : Outside(g[2], ranges'[y][1])
               /\ \A z \in TicketClient : \A i \in DOMAIN m_tickets'[z] :
                        Outside(m_tickets'[z][i], ranges'[y][1])
               /\ \A z \in TicketClient \ {y} : Arrives(z)' =>
                     ranges'[y][1][2] <= ranges'[z][1][1] \/ ranges'[z][1][2] <= ranges'[y][1][1]
    <3>1. Arrives(y) /\ y # x /\ ranges'[y] = ranges[y] /\ ranges[y][1][2] <= m
      BY <2>2, <2>3
    <3>2. /\ \A g \in given : Outside(g[2], ranges[y][1])
          /\ \A z \in TicketClient : \A i \in DOMAIN m_tickets[z] :
                        Outside(m_tickets[z][i], ranges[y][1])
          /\ \A z \in TicketClient \ {y} : Arrives(z) =>
                \/ ranges[y][1][2] <= ranges[z][1][1]
                \/ ranges[z][1][2] <= ranges[y][1][1]
      BY Zenon, <3>1 DEF RangesApart
    <3> QED BY Zenon, <1>1, <2>2, <3>1, <3>2
  <2> QED BY Zenon, <2>3 DEF RangesApart, Outside
<1>11. OneFetch'
  <2>1. ASSUME NEW y \in TicketClient
        PROVE  /\ fetches'[y] + Len(ranges'[y]) <= (IF m_fetching_tickets'[y] THEN 1 ELSE 0)
               /\ m_callbacks'[y] # <<>> => m_fetching_tickets'[y] \/ y \in unfetched'
    <3>1. CASE y # x
      BY Zenon, <1>1, <1>4, <1>5, <3>1 DEF OneFetch
    <3>2. CASE y = x
      <4>0. Len(ranges'[x]) = 0 \/ Len(ranges'[x]) = 1
        <5>1. Len(<<>>) = 0 /\ Len(<<<<>>>>) = 1
          OBVIOUS
        <5> QED BY Zenon, <1>4, <5>1
      <4>1. fetches'[x] + Len(ranges'[x]) <= 1
        <5>1. 0 + 0 <= 1 /\ 0 + 1 <= 1
          OBVIOUS
        <5> QED BY Zenon, <1>5, <4>0, <5>1
      <4> QED BY Zenon, <1>1, <1>3, <3>2, <4>1
    <3> QED BY <3>1, <3>2
  <2> QED BY <2>1 DEF OneFetch
<1> QED BY <1>6, <1>7, <1>9, <1>10, <1>11

\* What handle_ticket_numbers does with the numbers U that it then has and the
\* callbacks C that wait: the first n of each go together.
HandsOut(x, U, C, n) ==
    /\ U \in Seq(Nat) /\ C \in Seq(Nat) /\ n \in Nat /\ C = m_callbacks[x]
    /\ \A i \in 1..n : i \in DOMAIN U /\ i \in DOMAIN C
    /\ given' = given \cup {<<C[i], U[i]>> : i \in 1..n}
    /\ m_tickets' \in [TicketClient -> Seq(Nat)] /\ m_callbacks' \in [TicketClient -> Seq(Nat)]
    /\ LeftOf(U, m_tickets'[x], n) /\ LeftOf(C, m_callbacks'[x], n)
    /\ \A y \in TicketClient \ {x} : /\ m_tickets'[y] = m_tickets[y]
                                     /\ m_callbacks'[y] = m_callbacks[y]
    /\ UNCHANGED <<m_next_ticket_number, gets>>

\* The numbers U are those the client held, followed by those of the range.
Holds(x, U) ==
    /\ \A i \in DOMAIN U :
        \/ i \in DOMAIN m_tickets[x] /\ U[i] = m_tickets[x][i]
        \/ /\ i > Len(m_tickets[x]) /\ i \notin DOMAIN m_tickets[x]
           /\ U[i] = ranges[x][1][1] + (i - Len(m_tickets[x])) - 1
           /\ ~Outside(U[i], ranges[x][1])

\* handle_ticket_numbers in these terms, with what it does about more numbers.
LEMMA HandleIs ==
    ASSUME TicketsInv, NEW x \in TicketClient, handle_ticket_numbers(x)
    PROVE  /\ Arrives(x)
           /\ \E U, C, n : HandsOut(x, U, C, n) /\ Holds(x, U)
           /\ ranges'[x] = <<>> /\ \A y \in TicketClient \ {x} : ranges'[y] = ranges[y]
           /\ TicketsType' /\ OneFetch'
<1> USE DEF TicketsInv
<1> DEFINE r == ranges[x][1]
           T == m_tickets[x]
           U == T \o numbers(r)
           C == m_callbacks[x]
           n == IF Len(U) < Len(C) THEN Len(U) ELSE Len(C)
<1>1. PICK sent \in BOOLEAN :
        /\ ranges[x] # <<>> /\ r # <<>>
        /\ given' = given \cup {<<C[i], U[i]>> : i \in 1..n}
        /\ m_tickets' = [m_tickets EXCEPT ![x] = SubSeq(U, n + 1, Len(U))]
        /\ m_callbacks' = [m_callbacks EXCEPT ![x] = SubSeq(C, n + 1, Len(C))]
        /\ fetches' = [fetches EXCEPT ![x] = IF n < Len(C) /\ sent THEN @ + 1 ELSE @]
        /\ m_fetching_tickets' = [m_fetching_tickets EXCEPT ![x] = n < Len(C) /\ sent]
        /\ unfetched' = IF n < Len(C) /\ ~sent THEN unfetched \cup {x} ELSE unfetched
        /\ ranges' = [ranges EXCEPT ![x] = Tail(@)]
        /\ UNCHANGED <<m_next_ticket_number, gets>>
  BY DEF handle_ticket_numbers, fetch_tickets
<1>2. Arrives(x)
  BY <1>1 DEF Arrives
<1>3. T \in Seq(Nat) /\ C \in Seq(Nat) /\ ranges[x] \in Seq({<<>>} \cup (Nat \X Nat))
      /\ m_tickets \in [TicketClient -> Seq(Nat)] /\ m_callbacks \in [TicketClient -> Seq(Nat)]
      /\ given \subseteq Nat \X Nat
  BY DEF TicketsType
<1>4. r \in Nat \X Nat
  BY <1>1, <1>3
<1>5. PICK a \in Nat, b \in Nat : r = <<a, b>>
  BY <1>4
<1>6. /\ U \in Seq(Nat)
      /\ \A i \in DOMAIN U :
                \/ i \in DOMAIN T /\ U[i] = T[i]
                \/ /\ i > Len(T) /\ U[i] = a + (i - Len(T)) - 1
                   /\ a <= U[i] /\ U[i] < b
  BY <1>3, <1>5, TicketsAdded
<1> HIDE DEF r, T, U, C
<1>7. Holds(x, U)
  <2>1. r[1] = a /\ r[2] = b
    BY <1>5
  <2>2. ASSUME NEW i \in DOMAIN U
        PROVE  \/ i \in DOMAIN T /\ U[i] = T[i]
               \/ /\ i > Len(T) /\ i \notin DOMAIN T /\ U[i] = r[1] + (i - Len(T)) - 1
                  /\ ~Outside(U[i], r)
    <3>1. U[i] \in Nat
      BY <1>6, <2>2
    <3>2. i > Len(T) => i \notin DOMAIN T
      BY <1>3
    <3>3. a <= U[i] /\ U[i] < b => ~Outside(U[i], r)
      BY <2>1, <3>1 DEF Outside
    <3> QED BY Zenon, <1>6, <2>1, <2>2, <3>2, <3>3
  <2> QED BY Zenon, <2>2 DEF Holds, r, T
<1>8. /\ n \in 0..Len(U) /\ n \in 0..Len(C) /\ n \in Nat
      /\ \A i \in 1..n : i \in DOMAIN U /\ i \in DOMAIN C
      /\ DOMAIN U = 1..Len(U) /\ DOMAIN C = 1..Len(C) /\ Len(C) \in Nat /\ Len(U) \in Nat
  BY <1>3, <1>6
<1> HIDE DEF n
<1>9. /\ LeftOf(U, SubSeq(U, n + 1, Len(U)), n)
      /\ LeftOf(C, SubSeq(C, n + 1, Len(C)), n)
  BY <1>3, <1>6, <1>8, SubSeqLeaves
<1>10. /\ m_tickets' \in [TicketClient -> Seq(Nat)] /\ m_callbacks' \in [TicketClient -> Seq(Nat)]
       /\ m_tickets'[x] = SubSeq(U, n + 1, Len(U)) /\ m_callbacks'[x] = SubSeq(C, n + 1, Len(C))
       /\ \A y \in TicketClient \ {x} : /\ m_tickets'[y] = m_tickets[y]
                                        /\ m_callbacks'[y] = m_callbacks[y]
  <2>1. SubSeq(U, n + 1, Len(U)) \in Seq(Nat) /\ SubSeq(C, n + 1, Len(C)) \in Seq(Nat)
    BY <1>9 DEF LeftOf
  <2> QED BY Zenon, <1>1, <1>3, <2>1
<1>11. HandsOut(x, U, C, n)
  <2>1. C = m_callbacks[x]
    BY DEF C
  <2> QED BY Zenon, <1>1, <1>3, <1>6, <1>8, <1>9, <1>10, <2>1 DEF HandsOut
<1>12. /\ fetches[x] \in Nat /\ Len(ranges[x]) = 1 /\ fetches[x] = 0
  <2>1. fetches[x] + Len(ranges[x]) <= (IF m_fetching_tickets[x] THEN 1 ELSE 0)
    BY DEF OneFetch
  <2>2. fetches[x] \in Nat /\ Len(ranges[x]) \in Nat /\ Len(ranges[x]) # 0
    BY <1>1, <1>3 DEF TicketsType
  <2>3. fetches[x] + Len(ranges[x]) <= 1
    <3>1. CASE m_fetching_tickets[x]
      BY Zenon, <2>1, <3>1
    <3>2. CASE ~m_fetching_tickets[x]
      <4>1. fetches[x] + Len(ranges[x]) <= 0
        BY Zenon, <2>1, <3>2
      <4> QED BY <2>2, <4>1
    <3> QED BY <3>1, <3>2
  <2>4. ASSUME NEW k \in Nat, NEW l \in Nat, l # 0, k + l <= 1 PROVE l = 1 /\ k = 0
    BY <2>4
  <2> QED BY Zenon, <2>2, <2>3, <2>4
<1>13. ranges'[x] = <<>> /\ \A y \in TicketClient \ {x} : ranges'[y] = ranges[y]
  <2>1. Tail(ranges[x]) = <<>>
    <3>1. ASSUME NEW S, NEW q \in Seq(S), Len(q) = 1 PROVE Tail(q) = <<>>
      <4>1. Tail(q) \in Seq(S) /\ Len(Tail(q)) = 0
        BY <3>1
      <4>2. ASSUME NEW p \in Seq(S), Len(p) = 0 PROVE p = <<>>
        BY <4>2
      <4> QED BY Zenon, <4>1, <4>2
    <3> QED BY Zenon, <1>3, <1>12, <3>1
  <2> QED BY Zenon, <1>1, <2>1 DEF TicketsType
<1>14. OneFetch'
  <2>1. \A y \in TicketClient \ {x} :
          /\ fetches'[y] = fetches[y] /\ m_fetching_tickets'[y] = m_fetching_tickets[y]
          /\ y \in unfetched' <=> y \in unfetched
    BY <1>1 DEF TicketsType
  <2>2. /\ fetches'[x] = IF n < Len(C) /\ sent THEN 1 ELSE 0
        /\ m_fetching_tickets'[x] = (n < Len(C) /\ sent)
        /\ n < Len(C) /\ ~sent => x \in unfetched'
    BY <1>1, <1>12 DEF TicketsType
  <2>3. m_callbacks'[x] # <<>> => n < Len(C)
    BY <1>3, <1>8, <1>10
  <2>4. fetches'[x] + Len(ranges'[x]) <= (IF m_fetching_tickets'[x] THEN 1 ELSE 0)
    <3>1. Len(ranges'[x]) = 0
      BY <1>13
    <3> QED BY <2>2, <3>1
  <2>5. ASSUME NEW y \in TicketClient
        PROVE  /\ fetches'[y] + Len(ranges'[y]) <= (IF m_fetching_tickets'[y] THEN 1 ELSE 0)
               /\ m_callbacks'[y] # <<>> => m_fetching_tickets'[y] \/ y \in unfetched'
    <3>1. CASE y # x
      BY Zenon, <1>10, <1>13, <2>1, <3>1 DEF OneFetch
    <3>2. CASE y = x
      BY Zenon, <2>2, <2>3, <2>4, <3>2
    <3> QED BY <3>1, <3>2
  <2> QED BY <2>5 DEF OneFetch
<1>15. TicketsType'
  <2>1. given' \subseteq Nat \X Nat
    <3>1. \A i \in 1..n : C[i] \in Nat /\ U[i] \in Nat
      BY <1>3, <1>6, <1>8
    <3> QED BY <1>1, <1>3, <3>1
  <2>2. fetches' \in [TicketClient -> Nat] /\ m_fetching_tickets' \in [TicketClient -> BOOLEAN]
    BY <1>1 DEF TicketsType
  <2>3. ranges' \in [TicketClient -> Seq({<<>>} \cup (Nat \X Nat))]
    <3>1. Tail(ranges[x]) \in Seq({<<>>} \cup (Nat \X Nat))
      BY <1>1, <1>3
    <3> QED BY Zenon, <1>1, <3>1 DEF TicketsType
  <2> QED BY Zenon, <1>1, <1>10, <2>1, <2>2, <2>3 DEF TicketsType
<1> QED BY Zenon, <1>2, <1>7, <1>11, <1>13, <1>14, <1>15

\* handle_ticket_numbers keeps every number and callback in one place.
LEMMA HandleKeeps ==
    ASSUME TicketsInv, NEW x \in TicketClient, handle_ticket_numbers(x)
    PROVE  TicketsInv'
<1> USE DEF TicketsInv
<1>1. /\ Arrives(x)
      /\ ranges'[x] = <<>> /\ \A y \in TicketClient \ {x} : ranges'[y] = ranges[y]
      /\ TicketsType' /\ OneFetch'
  BY HandleIs
<1>2. PICK U, C, n : HandsOut(x, U, C, n) /\ Holds(x, U)
  BY HandleIs
<1> DEFINE Given(g, i) == /\ i \in 1..n /\ i \in DOMAIN U /\ i \in DOMAIN C
                          /\ g[1] = C[i] /\ g[2] = U[i]
           r == ranges[x][1]
<1> HIDE DEF r
<1>3. /\ n \in Nat /\ U \in Seq(Nat) /\ C \in Seq(Nat) /\ DOMAIN C = DOMAIN m_callbacks[x]
      /\ \A i \in DOMAIN C : C[i] = m_callbacks[x][i]
      /\ \A i \in 1..n : i \in DOMAIN U /\ i \in DOMAIN C
      /\ \A i \in DOMAIN U : i \in Nat
      /\ \A i \in DOMAIN C : i \in Nat
  <2>1. /\ n \in Nat /\ U \in Seq(Nat) /\ C \in Seq(Nat) /\ C = m_callbacks[x]
        /\ \A i \in 1..n : i \in DOMAIN U /\ i \in DOMAIN C
    BY Zenon, <1>2 DEF HandsOut
  <2>2. /\ \A i \in DOMAIN U : i \in Nat
        /\ \A i \in DOMAIN C : i \in Nat
    BY <2>1
  <2> QED BY Zenon, <2>1, <2>2
<1>4. ASSUME NEW g \in given'
      PROVE  g \in given \/ \E i \in 1..n : g = <<C[i], U[i]>> /\ Given(g, i)
  <2>1. given' = given \cup {<<C[i], U[i]>> : i \in 1..n}
    BY Zenon, <1>2 DEF HandsOut
  <2>2. CASE g \notin given
    <3>1. PICK i \in 1..n : g = <<C[i], U[i]>>
      BY Zenon, <1>4, <2>1, <2>2
    <3>2. g[1] = C[i] /\ g[2] = U[i]
      BY <3>1
    <3> QED BY Zenon, <1>3, <3>1, <3>2
  <2> QED BY <2>2
<1>5. /\ m_next_ticket_number' = m_next_ticket_number /\ gets' = gets
      /\ \A y \in TicketClient \ {x} : /\ m_tickets'[y] = m_tickets[y]
                                       /\ m_callbacks'[y] = m_callbacks[y]
  BY <1>2 DEF HandsOut
<1>6. \A i \in DOMAIN m_tickets'[x] :
          i + n \in DOMAIN U /\ m_tickets'[x][i] = U[i + n] /\ i + n \notin 1..n /\ i \in Nat
  <2>1. \A i \in DOMAIN m_tickets'[x] :
          i + n \in DOMAIN U /\ m_tickets'[x][i] = U[i + n] /\ i > 0 /\ i \in Nat
    BY <1>2 DEF HandsOut, LeftOf
  <2> QED BY <1>3, <2>1
<1>7. \A i \in DOMAIN m_callbacks'[x] :
          i + n \in DOMAIN C /\ m_callbacks'[x][i] = C[i + n] /\ i + n \notin 1..n /\ i \in Nat
  <2>1. \A i \in DOMAIN m_callbacks'[x] :
          i + n \in DOMAIN C /\ m_callbacks'[x][i] = C[i + n] /\ i > 0 /\ i \in Nat
    BY <1>2 DEF HandsOut, LeftOf
  <2> QED BY <1>3, <2>1
\* The numbers U are different from each other, and are nowhere else.
<1>8. \A i \in DOMAIN U :
        \/ i \in DOMAIN m_tickets[x] /\ U[i] = m_tickets[x][i]
        \/ /\ i \notin DOMAIN m_tickets[x] /\ ~Outside(U[i], r)
           /\ i > Len(m_tickets[x]) /\ U[i] = r[1] + (i - Len(m_tickets[x])) - 1
  BY Zenon, <1>2 DEF Holds, r
<1>9. /\ r[2] <= m_next_ticket_number
      /\ \A g \in given : Outside(g[2], r)
      /\ \A y \in TicketClient : \A i \in DOMAIN m_tickets[y] : Outside(m_tickets[y][i], r)
  BY Zenon, <1>1 DEF RangesApart, r
<1>10. r \in Nat \X Nat /\ Len(m_tickets[x]) \in Nat /\ m_next_ticket_number \in Nat
  BY <1>1 DEF TicketsType, Arrives, r
<1>11. ASSUME NEW i \in DOMAIN U, NEW j \in DOMAIN U, U[i] = U[j]
       PROVE  i = j
  <2>1. CASE i \in DOMAIN m_tickets[x] /\ U[i] = m_tickets[x][i]
    <3>1. Outside(U[j], r)
      BY Zenon, <1>9, <1>11, <2>1
    <3>2. j \in DOMAIN m_tickets[x] /\ U[j] = m_tickets[x][j]
      BY Zenon, <1>8, <1>11, <3>1
    <3>3. i \in DOMAIN m_tickets[x] /\ m_tickets[x][i] = m_tickets[x][j]
      BY Zenon, <1>11, <2>1, <3>2
    <3> QED BY Zenon, <3>2, <3>3 DEF HeldOnce
  <2>2. CASE ~(i \in DOMAIN m_tickets[x] /\ U[i] = m_tickets[x][i])
    <3>1. ~Outside(U[i], r) /\ U[i] = r[1] + (i - Len(m_tickets[x])) - 1
      BY Zenon, <1>8, <1>11, <2>2
    <3>2. U[j] = r[1] + (j - Len(m_tickets[x])) - 1
      BY Zenon, <1>8, <1>9, <1>11, <3>1
    <3>3. r[1] \in Nat /\ i \in Nat /\ j \in Nat
      BY <1>3, <1>10, <1>11
    <3>4. ASSUME NEW a \in Nat, NEW l \in Nat, NEW k \in Nat, NEW m \in Nat,
                 a + (k - l) - 1 = a + (m - l) - 1
          PROVE  k = m
      BY <3>4
    <3>5. r[1] + (i - Len(m_tickets[x])) - 1 = r[1] + (j - Len(m_tickets[x])) - 1
      BY Zenon, <1>11, <3>1, <3>2
    <3>6. Len(m_tickets[x]) \in Nat
      BY <1>10
    <3> QED BY Zenon, <3>3, <3>4, <3>5, <3>6
  <2> QED BY <2>1, <2>2
<1>12. ASSUME NEW i \in DOMAIN U
       PROVE  /\ U[i] < m_next_ticket_number
              /\ \A g \in given : g[2] # U[i]
              /\ \A y \in TicketClient \ {x} : \A j \in DOMAIN m_tickets[y] : m_tickets[y][j] # U[i]
              /\ \A y \in TicketClient \ {x} : Arrives(y) => Outside(U[i], ranges[y][1])
  <2>1. CASE i \in DOMAIN m_tickets[x] /\ U[i] = m_tickets[x][i]
    <3>1. U[i] < m_next_ticket_number /\ \A g \in given : g[2] # U[i]
      BY Zenon, <2>1 DEF BelowCounters, NotGiven
    <3>2. \A y \in TicketClient \ {x} : \A j \in DOMAIN m_tickets[y] : m_tickets[y][j] # m_tickets[x][i]
      BY Zenon, <2>1 DEF HeldOnce
    <3>3. \A y \in TicketClient : Arrives(y) => Outside(m_tickets[x][i], ranges[y][1])
      BY Zenon, <2>1 DEF RangesApart
    <3> QED BY Zenon, <2>1, <3>1, <3>2, <3>3
  <2>2. CASE ~Outside(U[i], r)
    <3>1. U[i] \in Nat /\ r[1] \in Nat /\ r[2] \in Nat /\ r[1] <= U[i] /\ U[i] < r[2]
      BY <1>3, <1>10, <1>12, <2>2 DEF Outside
    <3>2. U[i] < m_next_ticket_number
      BY <1>9, <1>10, <3>1
    <3>3. ASSUME NEW y \in TicketClient \ {x}, Arrives(y)
          PROVE  Outside(U[i], ranges[y][1])
      <4>1. ranges[y][1] \in Nat \X Nat
        BY <3>3 DEF TicketsType, Arrives
      <4>2. r[2] <= ranges[y][1][1] \/ ranges[y][1][2] <= r[1]
        BY Zenon, <1>1, <3>3 DEF RangesApart, r
      <4>3. ranges[y][1][1] \in Nat /\ ranges[y][1][2] \in Nat
        BY <4>1
      <4> QED BY <3>1, <4>2, <4>3 DEF Outside
    <3> QED BY Zenon, <1>9, <2>2, <3>2, <3>3
  <2> QED BY Zenon, <1>8, <1>12, <2>1, <2>2
\* The callbacks C are different from each other, and were not called.
<1>13. /\ \A i, j \in DOMAIN C : C[i] = C[j] => i = j
       /\ \A i \in DOMAIN C : /\ C[i] <= gets
                              /\ \A g \in given : g[1] # C[i]
       /\ \A i \in DOMAIN C : \A y \in TicketClient \ {x} : \A j \in DOMAIN m_callbacks[y] :
             m_callbacks[y][j] # C[i]
  <2>1. ASSUME NEW i \in DOMAIN C, NEW j \in DOMAIN C, C[i] = C[j]
        PROVE  i = j
    <3>1. /\ i \in DOMAIN m_callbacks[x] /\ j \in DOMAIN m_callbacks[x]
          /\ m_callbacks[x][i] = m_callbacks[x][j]
      BY Zenon, <1>3, <2>1
    <3> QED BY Zenon, <3>1 DEF WaitsOnce
  <2>2. ASSUME NEW i \in DOMAIN C
        PROVE  C[i] <= gets /\ \A g \in given : g[1] # C[i]
    <3>1. i \in DOMAIN m_callbacks[x] /\ m_callbacks[x][i] = C[i]
      BY Zenon, <1>3, <2>2
    <3>2. m_callbacks[x][i] <= gets
      BY Zenon, <3>1 DEF BelowCounters
    <3>3. \A g \in given : g[1] # m_callbacks[x][i]
      BY Zenon, <3>1 DEF NotGiven
    <3> QED BY Zenon, <3>1, <3>2, <3>3
  <2>3. ASSUME NEW i \in DOMAIN C, NEW y \in TicketClient \ {x}, NEW j \in DOMAIN m_callbacks[y]
        PROVE  m_callbacks[y][j] # C[i]
    <3>1. i \in DOMAIN m_callbacks[x] /\ m_callbacks[x][i] = C[i]
      BY Zenon, <1>3, <2>3
    <3>2. m_callbacks[y][j] # m_callbacks[x][i]
      BY Zenon, <3>1 DEF WaitsOnce
    <3> QED BY Zenon, <3>1, <3>2
  <2> QED BY Zenon, <2>1, <2>2, <2>3
<1>14. GivenOnce'
  <2>1. ASSUME NEW g \in given, NEW h \in given', NEW i \in 1..n, Given(h, i)
        PROVE  g[1] # h[1] /\ g[2] # h[2]
    <3>1. i \in DOMAIN U /\ i \in DOMAIN C /\ h[1] = C[i] /\ h[2] = U[i]
      BY Zenon, <2>1
    <3>2. g[2] # U[i]
      BY Zenon, <1>12, <3>1
    <3>3. g[1] # C[i]
      BY Zenon, <1>13, <3>1
    <3> QED BY Zenon, <3>1, <3>2, <3>3
  <2>2. ASSUME NEW i \in 1..n, NEW j \in 1..n, NEW g, NEW h, g = <<C[i], U[i]>>, h = <<C[j], U[j]>>,
               Given(g, i), Given(h, j), g[1] = h[1] \/ g[2] = h[2]
        PROVE  g = h
    <3>1. i = j
      BY Zenon, <1>3, <1>11, <1>13, <2>2
    <3> QED BY Zenon, <2>2, <3>1
  <2>3. ASSUME NEW g \in given', NEW h \in given', g[1] = h[1] \/ g[2] = h[2]
        PROVE  g = h
    <3>1. CASE g \in given /\ h \in given
      BY Zenon, <2>3, <3>1 DEF GivenOnce
    <3>2. CASE g \in given /\ h \notin given
      BY Zenon, <1>4, <2>1, <2>3, <3>2
    <3>3. CASE g \notin given /\ h \in given
      BY Zenon, <1>4, <2>1, <2>3, <3>3
    <3>4. CASE g \notin given /\ h \notin given
      <4>1. PICK i \in 1..n : g = <<C[i], U[i]>> /\ Given(g, i)
        BY Zenon, <1>4, <3>4
      <4>2. PICK j \in 1..n : h = <<C[j], U[j]>> /\ Given(h, j)
        BY Zenon, <1>4, <3>4
      <4> QED BY Zenon, <2>2, <2>3, <4>1, <4>2
    <3> QED BY <3>1, <3>2, <3>3, <3>4
  <2> QED BY Zenon, <2>3 DEF GivenOnce
<1>15. BelowCounters'
  <2>1. \A g \in given' : g[1] <= gets /\ g[2] < m_next_ticket_number
    BY Zenon, <1>3, <1>4, <1>12, <1>13 DEF BelowCounters
  <2>2. ASSUME NEW y \in TicketClient
        PROVE  /\ \A i \in DOMAIN m_tickets'[y] : m_tickets'[y][i] < m_next_ticket_number
               /\ \A i \in DOMAIN m_callbacks'[y] : m_callbacks'[y][i] <= gets
    <3>1. CASE y = x
      BY Zenon, <1>6, <1>7, <1>12, <1>13, <3>1
    <3>2. CASE y # x
      BY Zenon, <1>5, <3>2 DEF BelowCounters
    <3> QED BY <3>1, <3>2
  <2> QED BY Zenon, <1>5, <2>1, <2>2 DEF BelowCounters
<1>16. HeldOnce'
  <2>1. ASSUME NEW i \in DOMAIN m_tickets'[x], NEW j \in DOMAIN m_tickets'[x],
               m_tickets'[x][i] = m_tickets'[x][j]
        PROVE  i = j
    <3>1. i + n = j + n
      BY Zenon, <1>6, <1>11, <2>1
    <3> QED BY <1>3, <1>6, <2>1, <3>1
  <2>2. ASSUME NEW i \in DOMAIN m_tickets'[x], NEW y \in TicketClient \ {x},
               NEW j \in DOMAIN m_tickets'[y]
        PROVE  m_tickets'[x][i] # m_tickets'[y][j]
    <3>1. i + n \in DOMAIN U /\ m_tickets'[x][i] = U[i + n]
      BY Zenon, <1>6, <2>2
    <3>2. j \in DOMAIN m_tickets[y] /\ m_tickets'[y][j] = m_tickets[y][j]
      BY Zenon, <1>5, <2>2
    <3>3. m_tickets[y][j] # U[i + n]
      BY Zenon, <1>12, <3>1, <3>2
    <3> QED BY Zenon, <3>1, <3>2, <3>3
  <2>3. ASSUME NEW y \in TicketClient, NEW z \in TicketClient, NEW i \in DOMAIN m_tickets'[y],
               NEW j \in DOMAIN m_tickets'[z], m_tickets'[y][i] = m_tickets'[z][j]
        PROVE  y = z /\ i = j
    <3>1. CASE y = x /\ z = x
      BY Zenon, <2>1, <2>3, <3>1
    <3>2. CASE y = x /\ z # x
      BY Zenon, <2>2, <2>3, <3>2
    <3>3. CASE y # x /\ z = x
      BY Zenon, <2>2, <2>3, <3>3
    <3>4. CASE y # x /\ z # x
      <4>1. /\ i \in DOMAIN m_tickets[y] /\ j \in DOMAIN m_tickets[z]
            /\ m_tickets[y][i] = m_tickets[z][j]
        BY Zenon, <1>5, <2>3, <3>4
      <4> QED BY Zenon, <4>1 DEF HeldOnce
    <3> QED BY <3>1, <3>2, <3>3, <3>4
  <2> QED BY Zenon, <2>3 DEF HeldOnce
<1>17. WaitsOnce'
  <2>1. ASSUME NEW i \in DOMAIN m_callbacks'[x], NEW j \in DOMAIN m_callbacks'[x],
               m_callbacks'[x][i] = m_callbacks'[x][j]
        PROVE  i = j
    <3>2. /\ i + n \in DOMAIN C /\ m_callbacks'[x][i] = C[i + n]
          /\ j + n \in DOMAIN C /\ m_callbacks'[x][j] = C[j + n]
      BY Zenon, <1>7, <2>1
    <3>3. C[i + n] = C[j + n]
      BY Zenon, <2>1, <3>2
    <3>1. i + n = j + n
      BY Zenon, <1>13, <3>2, <3>3
    <3> QED BY <1>3, <1>7, <2>1, <3>1
  <2>2. ASSUME NEW i \in DOMAIN m_callbacks'[x], NEW y \in TicketClient \ {x},
               NEW j \in DOMAIN m_callbacks'[y]
        PROVE  m_callbacks'[x][i] # m_callbacks'[y][j]
    <3>1. i + n \in DOMAIN C /\ m_callbacks'[x][i] = C[i + n]
      BY Zenon, <1>7, <2>2
    <3>2. j \in DOMAIN m_callbacks[y] /\ m_callbacks'[y][j] = m_callbacks[y][j]
      BY Zenon, <1>5, <2>2
    <3>3. m_callbacks[y][j] # C[i + n]
      BY Zenon, <1>13, <3>1, <3>2
    <3> QED BY Zenon, <3>1, <3>2, <3>3
  <2>3. ASSUME NEW y \in TicketClient, NEW z \in TicketClient, NEW i \in DOMAIN m_callbacks'[y],
               NEW j \in DOMAIN m_callbacks'[z], m_callbacks'[y][i] = m_callbacks'[z][j]
        PROVE  y = z /\ i = j
    <3>1. CASE y = x /\ z = x
      BY Zenon, <2>1, <2>3, <3>1
    <3>2. CASE y = x /\ z # x
      BY Zenon, <2>2, <2>3, <3>2
    <3>3. CASE y # x /\ z = x
      BY Zenon, <2>2, <2>3, <3>3
    <3>4. CASE y # x /\ z # x
      <4>1. /\ i \in DOMAIN m_callbacks[y] /\ j \in DOMAIN m_callbacks[z]
            /\ m_callbacks[y][i] = m_callbacks[z][j]
        BY Zenon, <1>5, <2>3, <3>4
      <4> QED BY Zenon, <4>1 DEF WaitsOnce
    <3> QED BY <3>1, <3>2, <3>3, <3>4
  <2> QED BY Zenon, <2>3 DEF WaitsOnce
<1>18. NotGiven'
  <2>1. ASSUME NEW g \in given', NEW i \in DOMAIN m_tickets'[x]
        PROVE  g[2] # m_tickets'[x][i]
    <3>1. i + n \in DOMAIN U /\ m_tickets'[x][i] = U[i + n] /\ i + n \notin 1..n
      BY Zenon, <1>6, <2>1
    <3>2. CASE g \in given
      BY Zenon, <1>12, <3>1, <3>2
    <3>3. ASSUME NEW k \in 1..n, Given(g, k) PROVE g[2] # U[i + n]
      BY Zenon, <1>11, <3>1, <3>3
    <3> QED BY Zenon, <1>4, <3>1, <3>2, <3>3
  <2>2. ASSUME NEW g \in given', NEW i \in DOMAIN m_callbacks'[x]
        PROVE  g[1] # m_callbacks'[x][i]
    <3>1. i + n \in DOMAIN C /\ m_callbacks'[x][i] = C[i + n] /\ i + n \notin 1..n
      BY Zenon, <1>7, <2>2
    <3>2. CASE g \in given
      BY Zenon, <1>13, <3>1, <3>2
    <3>3. ASSUME NEW k \in 1..n, Given(g, k) PROVE g[1] # C[i + n]
      BY Zenon, <1>13, <3>1, <3>3
    <3> QED BY Zenon, <1>4, <3>1, <3>2, <3>3
  <2>3. ASSUME NEW g \in given', NEW y \in TicketClient \ {x}
        PROVE  /\ \A i \in DOMAIN m_tickets[y] : g[2] # m_tickets[y][i]
               /\ \A i \in DOMAIN m_callbacks[y] : g[1] # m_callbacks[y][i]
    <3>1. CASE g \in given
      BY Zenon, <3>1 DEF NotGiven
    <3>2. ASSUME NEW k \in 1..n, Given(g, k)
          PROVE  /\ \A i \in DOMAIN m_tickets[y] : g[2] # m_tickets[y][i]
                 /\ \A i \in DOMAIN m_callbacks[y] : g[1] # m_callbacks[y][i]
      <4>1. \A i \in DOMAIN m_tickets[y] : m_tickets[y][i] # U[k]
        BY Zenon, <1>12, <3>2
      <4>2. \A i \in DOMAIN m_callbacks[y] : m_callbacks[y][i] # C[k]
        BY Zenon, <1>13, <3>2
      <4> QED BY Zenon, <3>2, <4>1, <4>2
    <3> QED BY Zenon, <1>4, <3>1, <3>2
  <2>4. ASSUME NEW y \in TicketClient, NEW g \in given'
        PROVE  /\ \A i \in DOMAIN m_tickets'[y] : g[2] # m_tickets'[y][i]
               /\ \A i \in DOMAIN m_callbacks'[y] : g[1] # m_callbacks'[y][i]
    <3>1. CASE y = x
      BY Zenon, <2>1, <2>2, <3>1
    <3>2. CASE y # x
      <4>1. m_tickets'[y] = m_tickets[y] /\ m_callbacks'[y] = m_callbacks[y]
        BY Zenon, <1>5, <3>2
      <4>2. y \in TicketClient \ {x}
        BY Zenon, <3>2
      <4> QED BY Zenon, <2>3, <2>4, <4>1, <4>2
    <3> QED BY <3>1, <3>2
  <2> QED BY Zenon, <2>4 DEF NotGiven
<1>19. RangesApart'
  <2>1. ~Arrives(x)' /\ \A y \in TicketClient \ {x} : Arrives(y)' <=> Arrives(y)
    BY Zenon, <1>1 DEF Arrives
  <2>2. ASSUME NEW y \in TicketClient, Arrives(y)'
        PROVE  /\ ranges'[y][1][2] <= m_next_ticket_number'
               /\ \A g \in given' : Outside(g[2], ranges'[y][1])
               /\ \A z \in TicketClient : \A i \in DOMAIN m_tickets'[z] :
                        Outside(m_tickets'[z][i], ranges'[y][1])
               /\ \A z \in TicketClient \ {y} : Arrives(z)' =>
                     ranges'[y][1][2] <= ranges'[z][1][1] \/ ranges'[z][1][2] <= ranges'[y][1][1]
    <3>1. Arrives(y) /\ y # x /\ ranges'[y] = ranges[y]
      BY Zenon, <1>1, <2>1, <2>2
    <3>2. /\ ranges[y][1][2] <= m_next_ticket_number
          /\ \A g \in given : Outside(g[2], ranges[y][1])
          /\ \A z \in TicketClient : \A i \in DOMAIN m_tickets[z] :
                Outside(m_tickets[z][i], ranges[y][1])
          /\ \A z \in TicketClient \ {y} : Arrives(z) =>
                \/ ranges[y][1][2] <= ranges[z][1][1]
                \/ ranges[z][1][2] <= ranges[y][1][1]
      BY Zenon, <3>1 DEF RangesApart
    <3>3. \A i \in DOMAIN U : Outside(U[i], ranges[y][1])
      BY Zenon, <1>12, <3>1
    <3>4. \A g \in given' : Outside(g[2], ranges[y][1])
      BY Zenon, <1>3, <1>4, <3>2, <3>3
    <3>5. ASSUME NEW z \in TicketClient, NEW i \in DOMAIN m_tickets'[z]
          PROVE  Outside(m_tickets'[z][i], ranges[y][1])
      <4>1. CASE z = x
        <5>1. i \in DOMAIN m_tickets'[x]
          BY Zenon, <3>5, <4>1
        <5>2. i + n \in DOMAIN U /\ m_tickets'[x][i] = U[i + n]
          BY Zenon, <1>6, <5>1
        <5> QED BY Zenon, <3>3, <4>1, <5>2
      <4>2. CASE z # x
        BY Zenon, <1>5, <3>2, <3>5, <4>2
      <4> QED BY <4>1, <4>2
    <3>6. ASSUME NEW z \in TicketClient \ {y}, Arrives(z)'
          PROVE  ranges[y][1][2] <= ranges'[z][1][1] \/ ranges'[z][1][2] <= ranges[y][1][1]
      BY Zenon, <1>1, <2>1, <3>2, <3>6
    <3> QED BY Zenon, <1>5, <3>1, <3>2, <3>4, <3>5, <3>6
  <2> QED BY Zenon, <2>2 DEF RangesApart, Outside
<1> QED BY <1>1, <1>14, <1>15, <1>16, <1>17, <1>18, <1>19

(***************************************************************************)
(* For any number of clients, any size of the ranges and any losses: no    *)
(* ticket number is given out twice, by one client or by two, a client     *)
(* fetches one range at a time, and a callback waits only for a fetch that *)
(* is under way or that failed (impl::get_ticket_number, client.cpp).      *)
(***************************************************************************)
THEOREM TicketsAreUnique == TicketsSpec => []TicketsSound
<1>1. TicketsInv /\ [TicketsNext]_ticketVars => TicketsInv'
  <2> SUFFICES ASSUME TicketsInv, [TicketsNext]_ticketVars PROVE TicketsInv'
    OBVIOUS
  <2>1. CASE UNCHANGED ticketVars
    BY <2>1 DEF ticketVars, clientQueues, TicketsInv, TicketsType, GivenOnce, BelowCounters,
       HeldOnce, WaitsOnce, NotGiven, RangesApart, OneFetch, Arrives, Outside
  <2>2. ASSUME NEW x \in TicketClient,
               get_ticket_number(x) \/ handle_ticket_numbers(x) \/ Serve(x) \/ Lose(x)
        PROVE  TicketsInv'
    BY <2>2, GetKeeps, HandleKeeps, ServeKeeps, LoseKeeps
  <2> QED BY <2>1, <2>2 DEF TicketsNext
<1>2. TicketsInv => TicketsSound
  <2> SUFFICES ASSUME TicketsInv PROVE TicketsSound
    OBVIOUS
  <2> USE DEF TicketsInv
  <2>1. \A x \in TicketClient : \A i \in DOMAIN m_tickets[x] :
          \A y \in TicketClient \ {x} : \A j \in DOMAIN m_tickets[y] :
             m_tickets[x][i] # m_tickets[y][j]
    BY Zenon DEF HeldOnce
  <2> QED BY Zenon, <2>1 DEF TicketsSound, GivenOnce, NotGiven, OneFetch
<1>3. TicketsInit => TicketsInv
  BY TicketsStart
<1> QED BY <1>1, <1>2, <1>3, PTL DEF TicketsSpec

=============================================================================

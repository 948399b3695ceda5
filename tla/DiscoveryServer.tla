--------------------------- MODULE DiscoveryServer ---------------------------
(***************************************************************************)
(* Hosts on one network that all run Task-Socket-Com-cpp_3/server.cpp, and *)
(* its client cli.cpp.                                                     *)
(*                                                                         *)
(* A server is one thread.  An iteration of its loop, from the return of   *)
(* poll to the next call, is one action: it answers a client, takes a      *)
(* datagram, expires the silent and broadcasts, in this order, and two     *)
(* `continue's cut it short.  The code only ever uses differences of       *)
(* steady_clock, so instants are kept as the seconds gone by since.        *)
(***************************************************************************)
EXTENDS Integers, Sequences, FiniteSets

CONSTANTS
  Hosts,               \* the hosts, which stand for their addresses as well
  DummyOwn,            \* the address of AddDummyInterfaces
  DummyNeighbor,       \* the address of AddDummyNeighbors
  Clients,             \* cli processes
  HostOf,              \* where they run
  MAX_NO_REPLY,        \* seconds a silent neighbour stays in the list
  BROADCAST_INTERVAL,  \* seconds between two broadcasts
  POLL_TIMEOUT,        \* seconds poll waits
  BACKLOG,             \* the argument of listen
  Copies,              \* entries of infoList whose broadcast reaches the network
  MaxWait,             \* bound: seconds poll takes to time out, on a clock of whole
                       \* seconds: one that waits for 1 s may see it change twice
  MaxInbox,            \* datagrams after which a UDP socket takes no more of them
  MaxLosses,           \* bound: broadcasts in a row one host misses of another
  Horizon              \* bound: seconds after which ages are not told apart

ASSUME AddressesAssumption == DummyOwn \notin Hosts \cup {DummyNeighbor}
ASSUME TimingAssumption ==
  /\ MAX_NO_REPLY \in Nat /\ BROADCAST_INTERVAL \in Nat \ {0}
  /\ POLL_TIMEOUT \in Nat /\ MaxWait \in Nat \ {0} /\ POLL_TIMEOUT <= MaxWait
  /\ Horizon \in Nat
  /\ MAX_NO_REPLY + MaxWait < Horizon /\ BROADCAST_INTERVAL + MaxWait < Horizon
ASSUME ClientsAssumption == HostOf \in [Clients -> Hosts]
ASSUME BoundsAssumption ==
  /\ BACKLOG \in Nat /\ Copies \in Nat \ {0} /\ MaxInbox \in Nat \ {0}
  /\ MaxLosses \in Nat

Addresses == Hosts \cup {DummyOwn, DummyNeighbor}

Absent == -1

VARIABLES
  up,         \* does the server run?
  silent,     \* silent[h][a]: seconds since h heard a, or Absent from its list
  broadcast,  \* seconds since a host's last_broadcast
  waited,     \* seconds since it called poll
  inbox,      \* senders of the datagrams queued at its UDP socket
  backlog,    \* clients queued at its UNIX socket
  cli,        \* what each client is doing
  calm,       \* history: seconds since the server started or stopped, accept failed
              \* for a second, or a full buffer dropped a datagram
  lost        \* history: lost[h][g] broadcasts in a row of h that g missed

table    == <<silent, broadcast>>
queues   == <<inbox, backlog, cli>>
history  == <<calm, lost>>
vars     == <<up, table, waited, queues, history>>

Older(s) == IF s = Absent \/ s = Horizon THEN s ELSE s + 1

\* The addresses in infoList, which is not looked up again.
Own(h) == {h, DummyOwn}

Empty == [a \in Addresses |-> Absent]

-----------------------------------------------------------------------------
(* One iteration.                                                          *)

Ready(h) == inbox[h] # <<>> \/ backlog[h] # <<>>

Polled(h) == up[h] /\ (Ready(h) \/ waited[h] >= POLL_TIMEOUT)

\* Mutant: the connection is not answered and stays open.
ServeSilently(h) ==
  IF backlog[h] = <<>> THEN UNCHANGED <<backlog, cli>>
  ELSE backlog' = [backlog EXCEPT ![h] = Tail(@)] /\ UNCHANGED cli

\* accept, write and close; a client that is gone only makes write fail.
Serve(h) ==
  IF backlog[h] = <<>> THEN UNCHANGED <<backlog, cli>>
  ELSE LET c == Head(backlog[h]) IN
       /\ backlog' = [backlog EXCEPT ![h] = Tail(@)]
       /\ cli' = [cli EXCEPT ![c] = IF @ = "waiting" THEN "answered" ELSE "idle"]

\* The first `continue': no descriptors, or no memory.  Nothing else is done this
\* time, nor the next, for poll reports the client again at once; Tick lets this
\* last for seconds.
AcceptFails(h) ==
  /\ Polled(h) /\ backlog[h] # <<>>
  /\ waited' = [waited EXCEPT ![h] = 0]
  /\ UNCHANGED <<up, table, queues, history>>

\* The second one: no expiry and no broadcast after an own datagram.
HearOwn(h) ==
  /\ Polled(h) /\ inbox[h] # <<>> /\ Head(inbox[h]) \in Own(h)
  /\ Serve(h)
  /\ inbox' = [inbox EXCEPT ![h] = Tail(@)]
  /\ waited' = [waited EXCEPT ![h] = 0]
  /\ UNCHANGED <<up, table, history>>

\* The list after the datagram at the head of the queue, if there is one.
Heard(h) ==
  IF inbox[h] = <<>> THEN silent[h] ELSE [silent[h] EXCEPT ![Head(inbox[h])] = 0]

\* Mutants: >= for >, and a second more.
ExpiredEarly(s) == s >= MAX_NO_REPLY
ExpiredLate(s) == s > MAX_NO_REPLY + 1

Expired(s) == s > MAX_NO_REPLY

Kept(list) == [a \in Addresses |-> IF Expired(list[a]) THEN Absent ELSE list[a]]

\* Mutant: > for >=.
BroadcastDueLate(h) == broadcast[h] > BROADCAST_INTERVAL

BroadcastDue(h) == broadcast[h] >= BROADCAST_INTERVAL

Full(queue) == Len(queue) >= MaxInbox

\* The queues once the head of h's is taken and h has broadcast: every server
\* that is up, h as well, gets each copy, unless it misses the broadcast or its
\* buffer is full.
Delivered(h, taken, missing) ==
  [g \in Hosts |-> IF up[g] /\ g \notin missing /\ ~Full(taken[g])
                   THEN taken[g] \o [i \in 1..Copies |-> h] ELSE taken[g]]

Dropped(taken, missing) ==
  calm' = [g \in Hosts |-> IF up[g] /\ g \notin missing /\ Full(taken[g]) THEN 0 ELSE calm[g]]

Taken(h) == IF inbox[h] = <<>> THEN inbox ELSE [inbox EXCEPT ![h] = Tail(@)]

Iterate(h) ==
  /\ Polled(h)
  /\ inbox[h] # <<>> => Head(inbox[h]) \notin Own(h)
  /\ Serve(h)
  /\ silent' = [silent EXCEPT ![h] = Kept(Heard(h))]
  /\ \/ /\ BroadcastDue(h)
        /\ broadcast' = [broadcast EXCEPT ![h] = 0]
        /\ \E missing \in SUBSET {g \in Hosts : up[g] /\ lost[h][g] < MaxLosses} :
             /\ inbox' = Delivered(h, Taken(h), missing) /\ Dropped(Taken(h), missing)
             /\ lost' = [lost EXCEPT ![h] =
                           [g \in Hosts |-> IF g \in missing THEN lost[h][g] + 1 ELSE 0]]
     \/ /\ ~BroadcastDue(h)
        /\ inbox' = Taken(h)
        /\ UNCHANGED <<broadcast, lost, calm>>
  /\ waited' = [waited EXCEPT ![h] = 0]
  /\ UNCHANGED up

Server(h) == AcceptFails(h) \/ HearOwn(h) \/ Iterate(h)

-----------------------------------------------------------------------------
(* Starting and stopping, the clients and the clock.                       *)

\* main; a call of the setup that fails is a stuttering step.
Start(h) ==
  /\ ~up[h]
  /\ up' = [up EXCEPT ![h] = TRUE]
  /\ silent' = [silent EXCEPT ![h] = [Empty EXCEPT ![DummyNeighbor] = 0]]
  /\ broadcast' = [broadcast EXCEPT ![h] = 0]
  /\ waited' = [waited EXCEPT ![h] = 0]
  /\ calm' = [calm EXCEPT ![h] = 0]
  /\ UNCHANGED <<queues, lost>>

\* poll fails or the server is killed; the clients of this host, which are the
\* only ones in its queue, are reset.
Stop(h) ==
  /\ up[h]
  /\ up' = [up EXCEPT ![h] = FALSE]
  /\ silent' = [silent EXCEPT ![h] = Empty]
  /\ broadcast' = [broadcast EXCEPT ![h] = 0] /\ waited' = [waited EXCEPT ![h] = 0]
  /\ inbox' = [inbox EXCEPT ![h] = <<>>] /\ backlog' = [backlog EXCEPT ![h] = <<>>]
  /\ cli' = [c \in Clients |->
               IF \E i \in DOMAIN backlog[h] : backlog[h][i] = c THEN "idle" ELSE cli[c]]
  /\ calm' = [calm EXCEPT ![h] = 0]
  /\ lost' = [a \in Hosts |-> [b \in Hosts |-> IF h \in {a, b} THEN 0 ELSE lost[a][b]]]

\* connect blocks while more than BACKLOG connections are queued.
Connect(c) ==
  /\ up[HostOf[c]] /\ cli[c] = "idle" /\ Len(backlog[HostOf[c]]) <= BACKLOG
  /\ cli' = [cli EXCEPT ![c] = "waiting"]
  /\ backlog' = [backlog EXCEPT ![HostOf[c]] = Append(@, c)]
  /\ UNCHANGED <<up, table, waited, inbox, history>>

\* The client is killed; its connection stays in the queue.
Abort(c) ==
  /\ cli[c] = "waiting"
  /\ cli' = [cli EXCEPT ![c] = "gone"]
  /\ UNCHANGED <<up, table, waited, inbox, backlog, history>>

\* One read, and whatever it returned is printed.
Display(c) ==
  /\ cli[c] = "answered"
  /\ cli' = [cli EXCEPT ![c] = "idle"]
  /\ UNCHANGED <<up, table, waited, inbox, backlog, history>>

\* A second goes by.  An iteration takes no time in comparison: poll returns as
\* soon as there is something to do, and else when its time is up.  But where
\* accept fails for as long, the loop is still at the first `continue'.
Tick ==
  \E stuck \in SUBSET {h \in Hosts : up[h] /\ backlog[h] # <<>>} :
    /\ \A h \in Hosts \ stuck : up[h] => ~Ready(h) /\ waited[h] < MaxWait
    /\ silent' = [h \in Hosts |-> [a \in Addresses |-> Older(silent[h][a])]]
    /\ broadcast' = [h \in Hosts |-> Older(broadcast[h])]
    /\ waited' = [h \in Hosts |-> IF up[h] /\ h \notin stuck THEN waited[h] + 1 ELSE 0]
    /\ calm' = [h \in Hosts |-> IF h \in stuck THEN 0 ELSE Older(calm[h])]
    /\ UNCHANGED <<up, queues, lost>>

-----------------------------------------------------------------------------

Init ==
  /\ up = [h \in Hosts |-> FALSE]
  /\ silent = [h \in Hosts |-> Empty]
  /\ broadcast = [h \in Hosts |-> 0] /\ waited = [h \in Hosts |-> 0]
  /\ inbox = [h \in Hosts |-> <<>>] /\ backlog = [h \in Hosts |-> <<>>]
  /\ cli = [c \in Clients |-> "idle"]
  /\ calm = [h \in Hosts |-> 0]
  /\ lost = [h \in Hosts |-> [g \in Hosts |-> 0]]

Next ==
  \/ \E h \in Hosts : Server(h) \/ Start(h) \/ Stop(h)
  \/ \E c \in Clients : Connect(c) \/ Abort(c) \/ Display(c)
  \/ Tick

Spec == Init /\ [][Next]_vars

\* The scheduler runs every server, and accept does not fail for ever.
FairSpec == Spec /\ \A h \in Hosts : WF_vars(HearOwn(h) \/ Iterate(h))

-----------------------------------------------------------------------------
(* Properties.                                                             *)

\* The type of each variable; no list ever names the dummy interface, nor its
\* own host, unless that has the address of the dummy neighbour.
TypeOK ==
  /\ up \in [Hosts -> BOOLEAN]
  /\ silent \in [Hosts -> [Addresses -> 0..Horizon \cup {Absent}]]
  /\ broadcast \in [Hosts -> 0..Horizon]
  /\ waited \in [Hosts -> 0..MaxWait]
  /\ inbox \in [Hosts -> Seq(Hosts)]
  /\ backlog \in [Hosts -> Seq(Clients)]
  /\ cli \in [Clients -> {"idle", "waiting", "gone", "answered"}]
  /\ calm \in [Hosts -> 0..Horizon]
  /\ lost \in [Hosts -> [Hosts -> 0..MaxLosses]]
  /\ \A h \in Hosts :
       silent[h][DummyOwn] = Absent /\ (h # DummyNeighbor => silent[h][h] = Absent)

\* The longest time between two broadcasts: an iteration may just miss the
\* moment, and poll then waits once more.
Period == BROADCAST_INTERVAL + MaxWait - 1

\* As long as accept fails nothing is broadcast: the first `continue' comes before
\* it, and again at once.  But that is all the two of them can do: MaxWait seconds
\* after the shortage the broadcasts are on time again, however many there were
\* and whatever piled up in the buffer meanwhile.
BroadcastCadence ==
  \A h \in Hosts : up[h] /\ calm[h] > MaxWait => broadcast[h] <= Period

\* Two servers that have run long enough for MaxLosses lost broadcasts and one
\* that arrives, without a shortage, list each other, from then on, provided
\* MAX_NO_REPLY is no shorter: nobody is taken for gone who is there.
Settled(h, t) == up[h] /\ calm[h] > t

MutualKnowledge ==
  (MaxLosses + 1) * Period <= MAX_NO_REPLY =>
    \A h, g \in Hosts :
      h # g /\ Settled(h, (MaxLosses + 1) * Period) /\ Settled(g, (MaxLosses + 1) * Period)
      => silent[h][g] # Absent

\* No list names a server that stopped more than MAX_NO_REPLY and one wait of
\* poll ago, though clients are answered before the list is expired.  After a
\* shortage it takes as long: what waited in the buffer, of servers long stopped as
\* well, is only heard then.  So it does after the start, for the dummy neighbour.
DeadForgotten ==
  \A h, g \in Hosts :
    Settled(h, MAX_NO_REPLY + MaxWait) /\ ~up[g] /\ calm[g] > MAX_NO_REPLY + MaxWait
    => silent[h][g] = Absent

\* A client that waits is answered, unless it or the server is killed.
ClientsAnswered == \A c \in Clients : cli[c] = "waiting" ~> cli[c] # "waiting"

=============================================================================

--------------------------- MODULE NeighborService ---------------------------
(***************************************************************************)
(* The neighbour discovery daemon Task-Socket-Com-cpp/service.cpp and its  *)
(* command line client cli.cpp.                                            *)
(*                                                                         *)
(* The daemon is one thread: a select loop over a UDP socket, on which it  *)
(* broadcasts HELLOs and hears those of its neighbours, and a UNIX socket, *)
(* on which clients ask for the table of neighbours.  Each statement of    *)
(* the loop that another party can overtake is an action of its own; the   *)
(* network, the network interfaces, the clock and the clients move between *)
(* any two of them.                                                        *)
(***************************************************************************)
EXTENDS Integers, Sequences, FiniteSets, SequencesExt

CONSTANTS
  Macs,                \* hardware addresses
  NoMac,               \* the empty string in place of one
  IfaceLists,          \* what getifaddrs may report, as get_info filters it
  Datagrams,           \* HELLOs that other hosts put on the network
  Clients,             \* cli processes
  TIMEOUT,             \* seconds a silent neighbour stays in the table
  BROADCAST_INTERVAL,  \* seconds between two HELLOs
  SELECT_TIMEOUT,      \* seconds select waits (tv)
  BACKLOG,             \* the argument of listen
  Faults,              \* what may go wrong, a subset of FaultKinds
  StartTime,           \* the clock when the host boots
  MaxIter,             \* bound: seconds one iteration of the loop lasts
  MaxClock,            \* bound: the last instant considered
  MaxInbox             \* bound: datagrams the UDP socket buffers

FaultKinds == {"select", "accept", "getifaddrs", "abort", "kill"}

Iface == [ip : Nat, mac : Macs \cup {NoMac}, bcast : BOOLEAN, netsize : Nat]

\* `src' is the address recvfrom reports, the rest is the text of the HELLO.
Hello == [src : Nat, ip : Nat, mac : Macs \cup {NoMac}]

Neighbor == [ip : Nat, mac : Macs, lastSeen : Nat]

Entry == [ip : Nat, mac : Macs]

ASSUME IfacesAssumption    == NoMac \notin Macs /\ IfaceLists \subseteq Seq(Iface)
ASSUME DatagramsAssumption == Datagrams \subseteq Hello
ASSUME FaultsAssumption    == Faults \subseteq FaultKinds
ASSUME TimingAssumption    ==
  /\ TIMEOUT \in Nat /\ BROADCAST_INTERVAL \in Nat \ {0} /\ SELECT_TIMEOUT \in Nat
  /\ MaxIter \in Nat /\ MaxClock \in Nat /\ StartTime \in Nat
  /\ SELECT_TIMEOUT <= MaxIter
  /\ BROADCAST_INTERVAL <= StartTime
ASSUME QueuesAssumption    ==
  BACKLOG \in Nat /\ MaxInbox \in Nat

NotHeard == -1

VARIABLES
  clock,       \* time(NULL), which is taken never to be set back
  ifs,         \* the interfaces that are up
  inbox,       \* datagrams queued at the UDP socket
  backlog,     \* clients queued at the UNIX socket
  pc,          \* the statement the loop is at
  now,         \* local variables of snd_rec_msg
  last_hello,
  rv,
  readfds,
  neighbors,   \* the table
  myInfo,
  cli,         \* what each client is doing
  reply,       \* the lines last written to each client
  heard,       \* history: when the latest HELLO of a mac was accepted
  sent         \* history: when this host last sent one

daemon  == <<now, last_hello, rv, readfds, neighbors, myInfo>>
network == <<ifs, inbox>>
clients == <<backlog, cli, reply>>
history == <<heard, sent>>
vars    == <<clock, network, clients, pc, daemon, history>>

Pcs == {"down", "top", "select", "recv", "hello", "expire", "serve"}

Running == pc # "down"

-----------------------------------------------------------------------------
(* The decisions of the code.                                              *)

\* is_same_sub, and the test for an interface without a netmask before it.
InSubnet(ip, i) == i.netsize # 0 /\ ip \div i.netsize = i.ip \div i.netsize

\* sscanf finds three words.
Parses(h) == h.mac # NoMac

OwnBroadcast(h) == \E k \in DOMAIN myInfo : myInfo[k].mac = h.mac

InSameNet(h) == \E k \in DOMAIN myInfo : InSubnet(h.src, myInfo[k])

Accepts(h) == Parses(h) /\ ~OwnBroadcast(h) /\ InSameNet(h)

\* Mutants: a known mac is pushed again, or its time stamp is left alone.
RecordedTwice(table, h) ==
  table \cup {[ip |-> h.ip, mac |-> h.mac, lastSeen |-> now]}
RecordedOnce(table, h) ==
  IF \E nb \in table : nb.mac = h.mac THEN table ELSE RecordedTwice(table, h)

\* Mutant: a known mac has its line written anew.
RecordedAnew(table, h) ==
  {nb \in table : nb.mac # h.mac} \cup {[ip |-> h.ip, mac |-> h.mac, lastSeen |-> now]}

\* A known mac only has its time stamp renewed.
Recorded(table, h) ==
  IF \E nb \in table : nb.mac = h.mac
  THEN {IF nb.mac = h.mac THEN [nb EXCEPT !.lastSeen = now] ELSE nb : nb \in table}
  ELSE table \cup {[ip |-> h.ip, mac |-> h.mac, lastSeen |-> now]}

\* Mutant: > for >=.
HelloDueLate == now - last_hello > BROADCAST_INTERVAL

HelloDue == now - last_hello >= BROADCAST_INTERVAL

HellosOf(info) ==
  {[src |-> info[k].ip, ip |-> info[k].ip, mac |-> info[k].mac] :
     k \in {j \in DOMAIN info : info[j].bcast}}

\* Mutant: >= for >.
ExpiredEarly(nb) == now - nb.lastSeen >= TIMEOUT

Expired(nb) == now - nb.lastSeen > TIMEOUT

Listing == {[ip |-> nb.ip, mac |-> nb.mac] : nb \in neighbors}

\* The descriptors select finds readable, of those it is asked about.
Ready == {fd \in readfds : IF fd = "sock" THEN inbox # <<>> ELSE backlog # <<>>}

-----------------------------------------------------------------------------
(* The daemon.                                                             *)

\* Everything before the loop.  A call of the setup that fails ends the
\* process again, which is a stuttering step.
Start ==
  /\ pc = "down"
  /\ pc' = "top"
  /\ now' = clock /\ last_hello' = 0 /\ rv' = 0 /\ readfds' = {}
  /\ neighbors' = {}
  /\ \/ myInfo' = ifs
     \/ "getifaddrs" \in Faults /\ myInfo' = <<>>
  /\ UNCHANGED <<clock, network, clients, history>>

\* Mutant: FD_SET(unix_fd, &readfds) is missing.
LoopTopSockOnly ==
  /\ pc = "top"
  /\ pc' = "select"
  /\ now' = clock
  /\ readfds' = {"sock"}
  /\ UNCHANGED <<clock, network, clients, history,
                 last_hello, rv, neighbors, myInfo>>

LoopTop ==
  /\ pc = "top"
  /\ pc' = "select"
  /\ now' = clock
  /\ readfds' = {"sock", "unix"}
  /\ UNCHANGED <<clock, network, clients, history,
                 last_hello, rv, neighbors, myInfo>>

SelectReady ==
  /\ pc = "select" /\ Ready # {}
  /\ pc' = "recv"
  /\ readfds' = Ready
  /\ rv' = Cardinality(Ready)
  /\ UNCHANGED <<clock, network, clients, history,
                 now, last_hello, neighbors, myInfo>>

\* Mutant: accept is called whatever select returned.
SelectTimesOutReady ==
  /\ pc = "select" /\ Ready = {}
  /\ clock - now >= SELECT_TIMEOUT
  /\ pc' = "recv"
  /\ rv' = 0
  /\ UNCHANGED <<clock, network, clients, history,
                 now, last_hello, readfds, neighbors, myInfo>>

SelectTimesOut ==
  /\ pc = "select" /\ Ready = {}
  /\ clock - now >= SELECT_TIMEOUT
  /\ pc' = "recv"
  /\ readfds' = {}
  /\ rv' = 0
  /\ UNCHANGED <<clock, network, clients, history,
                 now, last_hello, neighbors, myInfo>>

\* select fails and leaves readfds as it was.
SelectFails ==
  /\ pc = "select" /\ "select" \in Faults
  /\ pc' = "recv"
  /\ rv' = -1
  /\ UNCHANGED <<clock, network, clients, history,
                 now, last_hello, readfds, neighbors, myInfo>>

\* receive_hello takes one datagram, or is not called.
Receive ==
  /\ pc = "recv"
  /\ pc' = "hello"
  /\ IF rv > 0 /\ "sock" \in readfds /\ inbox # <<>>
     THEN LET h == Head(inbox) IN
          /\ inbox' = Tail(inbox)
          /\ \/ /\ Accepts(h)
                /\ neighbors' = Recorded(neighbors, h)
                /\ heard' = [heard EXCEPT ![h.mac] = clock]
             \/ ~Accepts(h) /\ UNCHANGED <<neighbors, heard>>
     ELSE UNCHANGED <<inbox, neighbors, heard>>
  /\ UNCHANGED <<clock, ifs, clients, now, last_hello, rv, readfds, myInfo, sent>>

\* myInfo_update, then send_hello for each interface with a broadcast address.
\* The host hears its own broadcasts, once more through each other interface
\* on that network: they queue at its socket as far as they are not lost.
SendHellos ==
  /\ pc = "hello" /\ HelloDue
  /\ pc' = "expire"
  /\ \/ myInfo' = ifs
     \/ "getifaddrs" \in Faults /\ myInfo' = <<>>
  /\ \E echo \in SeqOf(HellosOf(myInfo'), MaxInbox - Len(inbox)) : inbox' = inbox \o echo
  /\ sent' = IF HellosOf(myInfo') # {} THEN clock ELSE sent
  /\ last_hello' = now
  /\ UNCHANGED <<clock, ifs, clients, heard, now, rv, readfds, neighbors>>

SkipHellos ==
  /\ pc = "hello" /\ ~HelloDue
  /\ pc' = "expire"
  /\ UNCHANGED <<clock, network, clients, history, daemon>>

\* delete_expired_neighbors
Expire ==
  /\ pc = "expire"
  /\ pc' = "serve"
  /\ neighbors' = {nb \in neighbors : ~Expired(nb)}
  /\ UNCHANGED <<clock, network, clients, history,
                 now, last_hello, rv, readfds, myInfo>>

NothingToServe ==
  /\ pc = "serve" /\ "unix" \notin readfds
  /\ pc' = "top"
  /\ UNCHANGED <<clock, network, clients, history, daemon>>

AcceptFails ==
  /\ pc = "serve" /\ "unix" \in readfds /\ "accept" \in Faults
  /\ pc' = "top"
  /\ UNCHANGED <<clock, network, clients, history, daemon>>

\* accept, write and close for a client that still waits for the answer.
Answer ==
  /\ pc = "serve" /\ "unix" \in readfds /\ backlog # <<>>
  /\ cli[Head(backlog)] = "waiting"
  /\ pc' = "top"
  /\ backlog' = Tail(backlog)
  /\ cli' = [cli EXCEPT ![Head(backlog)] = "answered"]
  /\ reply' = [reply EXCEPT ![Head(backlog)] = Listing]
  /\ UNCHANGED <<clock, network, history, daemon>>

\* The process ends: the kernel closes its sockets and resets the clients
\* that were not answered yet.
Die ==
  /\ pc' = "down"
  /\ now' = 0 /\ last_hello' = 0 /\ rv' = 0 /\ readfds' = {}
  /\ neighbors' = {} /\ myInfo' = <<>>
  /\ inbox' = <<>> /\ backlog' = <<>>
  /\ cli' = [c \in Clients |-> IF cli[c] = "answered" THEN "answered" ELSE "idle"]
  /\ heard' = [m \in Macs |-> NotHeard] /\ sent' = NotHeard
  /\ UNCHANGED <<clock, ifs, reply>>

\* write to a client that has closed its end raises SIGPIPE.
BrokenPipe ==
  /\ pc = "serve" /\ "unix" \in readfds /\ backlog # <<>>
  /\ cli[Head(backlog)] = "gone"
  /\ Die

\* accept has no client to return and the UNIX socket is a blocking one.
Blocked == pc = "serve" /\ "unix" \in readfds /\ backlog = <<>>

Daemon ==
  \/ LoopTop
  \/ SelectReady \/ SelectTimesOut \/ SelectFails
  \/ Receive
  \/ SendHellos \/ SkipHellos
  \/ Expire
  \/ NothingToServe \/ AcceptFails \/ Answer \/ BrokenPipe

-----------------------------------------------------------------------------
(* Its environment.                                                        *)

\* An iteration that is not blocked in accept lasts at most MaxIter seconds.
Tick ==
  /\ clock < MaxClock
  /\ Running /\ ~Blocked => clock - now < MaxIter
  /\ clock' = clock + 1
  /\ UNCHANGED <<network, clients, pc, daemon, history>>

IfacesChange ==
  /\ ifs' \in IfaceLists \ {ifs}
  /\ UNCHANGED <<clock, inbox, clients, pc, daemon, history>>

Arrive(h) ==
  /\ Running /\ Len(inbox) < MaxInbox
  /\ inbox' = Append(inbox, h)
  /\ UNCHANGED <<clock, ifs, clients, pc, daemon, history>>

\* unix_stream_connect blocks while more than BACKLOG connections are queued.
Connect(c) ==
  /\ Running /\ cli[c] = "idle" /\ Len(backlog) <= BACKLOG
  /\ cli' = [cli EXCEPT ![c] = "waiting"]
  /\ backlog' = Append(backlog, c)
  /\ UNCHANGED <<clock, network, pc, daemon, history, reply>>

\* The client is killed while it waits; its connection stays in the queue.
Abort(c) ==
  /\ "abort" \in Faults /\ cli[c] = "waiting"
  /\ cli' = [cli EXCEPT ![c] = "gone"]
  /\ UNCHANGED <<clock, network, pc, daemon, history, backlog, reply>>

\* One read, which takes what fits its 1023 bytes of the answer, and the end.
Display(c) ==
  /\ cli[c] = "answered"
  /\ cli' = [cli EXCEPT ![c] = "idle"]
  /\ UNCHANGED <<clock, network, pc, daemon, history, backlog, reply>>

Kill == "kill" \in Faults /\ Running /\ Die

Environment ==
  \/ Tick \/ IfacesChange \/ Kill
  \/ \E h \in Datagrams : Arrive(h)
  \/ \E c \in Clients : Connect(c) \/ Abort(c) \/ Display(c)

-----------------------------------------------------------------------------

Init ==
  /\ clock = StartTime
  /\ ifs \in IfaceLists
  /\ inbox = <<>> /\ backlog = <<>>
  /\ pc = "down"
  /\ now = 0 /\ last_hello = 0 /\ rv = 0 /\ readfds = {}
  /\ neighbors = {} /\ myInfo = <<>>
  /\ cli = [c \in Clients |-> "idle"]
  /\ reply = [c \in Clients |-> {}]
  /\ heard = [m \in Macs |-> NotHeard] /\ sent = NotHeard

Next == Start \/ Daemon \/ Environment

Spec == Init /\ [][Next]_vars

\* The scheduler runs the daemon, and a client that has its answer reads it.
FairSpec ==
  /\ Spec
  /\ WF_vars(Daemon)
  /\ \A c \in Clients : WF_vars(Display(c))

-----------------------------------------------------------------------------
(* Properties.                                                             *)

\* The type of each variable.  Only a HELLO with a mac can reach the table,
\* although send_hello of an interface whose mac is unknown sends none.
TypeOK ==
  /\ clock \in Nat
  /\ ifs \in IfaceLists
  /\ inbox \in Seq(Hello)
  /\ backlog \in Seq(Clients)
  /\ pc \in Pcs
  /\ now \in Nat /\ last_hello \in Nat /\ rv \in -1..2
  /\ readfds \subseteq {"sock", "unix"}
  /\ neighbors \subseteq Neighbor
  /\ myInfo \in Seq(Iface)
  /\ cli \in [Clients -> {"idle", "waiting", "gone", "answered"}]
  /\ reply \in [Clients -> SUBSET Entry]
  /\ heard \in [Macs -> Nat \cup {NotHeard}] /\ sent \in Nat \cup {NotHeard}

\* Whatever HELLOs come in, in whatever order, the table has one line for a
\* mac: the loop of receive_hello that renews the first match is enough.
OneEntryPerMac == \A a, b \in neighbors : a.mac = b.mac => a = b

\* As long as a neighbour is listed, its line gives the address of the HELLO that
\* made it: one that changes its address and goes on sending HELLOs is never
\* listed with the new one, since each HELLO only renews the stamp.  The stamp
\* does not go back, although it is of a time sampled before select slept.
LinesOnlyRenewed ==
  [][\A nb \in neighbors, new \in neighbors' :
       new.mac = nb.mac => new.ip = nb.ip /\ new.lastSeen >= nb.lastSeen]_vars

\* A neighbour whose HELLO was accepted less than TIMEOUT - MaxIter seconds
\* ago is in the table, although receive_hello and delete_expired_neighbors
\* both work with a time sampled before select slept.
KnownUntilTimeout ==
  \A m \in Macs :
    heard[m] # NotHeard /\ clock - heard[m] <= TIMEOUT - MaxIter
      => \E nb \in neighbors : nb.mac = m

\* No answer written to a client lists a neighbour that has been silent for
\* more than TIMEOUT + MaxIter seconds: expiry comes before the answer.
RepliesAreFresh ==
  [][\A c \in Clients : cli[c] = "waiting" /\ cli'[c] = "answered" =>
       \A e \in reply'[c] : clock - heard[e.mac] <= TIMEOUT + MaxIter]_vars

\* The accept of the loop never blocks the daemon: a descriptor that select
\* reported stays ready until the loop gets to it.
NeverBlocked == ~Blocked

\* From the first iteration on a HELLO leaves this host every BROADCAST_INTERVAL
\* seconds, give or take two iterations, unless the last look at the interfaces
\* found none to send one through.  Then there is silence until the next look,
\* which comes as late as a HELLO would: last_hello is renewed without one.
HelloCadence ==
  /\ Running /\ last_hello # 0 =>
       /\ clock - last_hello < BROADCAST_INTERVAL + 2 * MaxIter
       /\ HellosOf(myInfo) # {} =>
            sent # NotHeard /\ clock - sent < BROADCAST_INTERVAL + 2 * MaxIter
  /\ pc \in {"expire", "serve"} => last_hello # 0

\* The daemon does what NeighborDirectory promises: its answers name everyone
\* heard in the last TIMEOUT - MaxIter seconds and nobody silent for more than
\* TIMEOUT + MaxIter.
Directory == INSTANCE NeighborDirectory WITH
  Sure   <- TIMEOUT - MaxIter,
  Stale  <- TIMEOUT + MaxIter,
  asking <- {c \in Clients : cli[c] = "waiting"},
  answer <- [c \in Clients |-> {e.mac : e \in reply[c]}]
ImplementsDirectory == Directory!Spec

\* A client that connected gets its answer, or sees the daemon end, unless accept
\* fails again and again (the one client of an iteration, service.cpp:367-391).
ClientsAnswered ==
  \/ []<><<AcceptFails>>_vars
  \/ \A c \in Clients : cli[c] = "waiting" ~> cli[c] # "waiting"

\* The daemon never shows this host as its own neighbour ("Skip our own
\* broadcasts", service.cpp:182).
HostMacs == UNION {{l[k].mac : k \in DOMAIN l} : l \in IfaceLists}
NoSelfNeighbor == \A nb \in neighbors : nb.mac \notin HostMacs

\* The daemon "Runs continuously" (service.cpp:6): without an outside kill,
\* once started it is up.
RunsContinuously == [][Running => Running']_vars

=============================================================================

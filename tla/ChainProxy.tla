----------------------------- MODULE ChainProxy -----------------------------
(***************************************************************************)
(* The local proxy of UniApp, UniApp/Utils/chain_proxy.cpp: the menu that  *)
(* edits the chain of proxies, the loop that accepts clients, and the      *)
(* detached thread of each client, which connects to one proxy of the      *)
(* chain after the other and then relays between the client and the last.  *)
(*                                                                         *)
(* A thread gets from one call that blocks to the next in one action, and  *)
(* send does not block.  Data are numbered segments; the request is as many *)
(* of them as the first recv happens to return.                            *)
(***************************************************************************)
EXTENDS Integers, Sequences, FiniteSets, SequencesExt

CONSTANTS
  Proxies,     \* that can be put in the chain
  Clients,     \* connections of a browser
  MaxChain,    \* bound: proxies in the chain
  MaxSegments  \* bound: segments that each side sends

ASSUME BoundsAssumption == MaxChain \in Nat /\ MaxSegments \in Nat

INVALID_SOCKET == 0

\* Where the thread of a client blocks, or how it ended: after relaying, before
\* it, or with the network or the program.
Blocking == {"request", "connect", "reply", "target", "relay"}
Endings  == {"done", "failed", "reset"}

\* What the request begins with: CONNECT and more, only this word, or another one.
Kinds == {"CONNECT", "word", "plain"}

Connection ==
  [at       : {"none", "queued", "throw"} \cup Blocking \cup Endings,
   kind     : Kinds,
   i        : Nat \ {0},   \* the loop's counter, from 1
   sock     : Nat,         \* named after the i it was made for
   open     : SUBSET Nat,  \* the sockets to proxies that were not closed
   request  : Nat,         \* history: segments the first recv returned
   text     : Nat,         \* those of the string made of them
   route    : Seq(Proxies),\* history: what is sent to sock passes these
   up       : Seq(Nat),    \* segments that wait at the client's socket
   down     : Seq(Nat),    \* and at sock
   sent     : Nat,         \* how many the client has sent
   served   : Nat,         \* and the last proxy
   missed   : Nat,         \* history: how many of these came with its reply
   toProxy  : Seq(Nat),    \* history: what was passed on
   toClient : Seq(Nat),
   client   : BOOLEAN,     \* has the client not closed its end?
   proxy    : BOOLEAN]     \* has the last proxy not closed its end?

Unused ==
  [at |-> "none", kind |-> "plain", i |-> 1, sock |-> INVALID_SOCKET, open |-> {},
   request |-> 0, text |-> 0, route |-> <<>>,
   up |-> <<>>, down |-> <<>>, sent |-> 0, served |-> 0, missed |-> 0,
   toProxy |-> <<>>, toClient |-> <<>>, client |-> FALSE, proxy |-> FALSE]

VARIABLES
  local_Proxy,  \* "off", or "accept": it waits for clients
  proxy_chain,  \* the chain; each thread has a copy, which is the same while it runs
  conn          \* each client's connection, and the thread that serves it

vars == <<local_Proxy, proxy_chain, conn>>

Becomes(c, t) == conn' = [conn EXCEPT ![c] = t] /\ UNCHANGED <<local_Proxy, proxy_chain>>

-----------------------------------------------------------------------------
(* The thread of a client.                                                 *)

Segments(m, n) == [k \in 1..(n - m) |-> m + k]

\* Mutant: no closesocket(sock).
CloseClientOnly(t, how) == [t EXCEPT !.at = how]

\* closesocket(sock), before each return of ForwardProxyChain, and then
\* closesocket(clientSocket).
Close(t, how) == [t EXCEPT !.at = how, !.open = @ \ {t.sock}]

\* Behind the loop.  The request's string is sent to the last proxy, or a CONNECT
\* is made of it; without a chain there is no socket, and each call on it fails.
\* substr throws when the string is the word CONNECT.
SendRequest(t) ==
  CASE t.kind = "word" -> [t EXCEPT !.at = "throw"]
    [] t.kind # "word" /\ t.sock = INVALID_SOCKET -> Close(t, "failed")
    [] t.sock # INVALID_SOCKET /\ t.kind = "CONNECT" -> [t EXCEPT !.at = "target"]
    [] t.sock # INVALID_SOCKET /\ t.kind = "plain" ->
         [t EXCEPT !.at = "relay", !.toProxy = Segments(0, t.text)]

Loop(t) == IF t.i <= Len(proxy_chain) THEN [t EXCEPT !.at = "connect"] ELSE SendRequest(t)

\* One recv, which is taken for the whole request, or for the end of the client.
\* The string made of it ends at the first NUL.
Receive(c) ==
  LET t == conn[c] IN
  /\ t.at = "request"
  /\ \/ \E n \in 1..Len(t.up) : \E text \in 0..n, kind \in Kinds :
          /\ text = 0 => kind = "plain"
          /\ Becomes(c, Loop([t EXCEPT !.up = SubSeq(@, n + 1, Len(@)),
                                       !.request = n, !.text = text, !.kind = kind]))
     \/ t.up = <<>> /\ ~t.client /\ Becomes(c, Close(t, "failed"))

IsLast(t) == t.i >= Len(proxy_chain)

\* A new socket, connected to the proxy itself: not through the proxies before
\* it.  If this is not the last it is sent a CONNECT to the next.
Connect(c) ==
  LET t         == conn[c]
      connected == [t EXCEPT !.sock = t.i, !.open = @ \cup {t.i}, !.proxy = TRUE,
                             !.route = <<proxy_chain[t.i]>>]
  IN
  /\ t.at = "connect"
  /\ \/ Becomes(c, Close([t EXCEPT !.sock = t.i], "failed"))
     \/ ~IsLast(t) /\ Becomes(c, [connected EXCEPT !.at = "reply"])
     \/ IsLast(t) /\ Becomes(c, Loop([connected EXCEPT !.i = @ + 1]))

\* A proxy answers the loop's CONNECT, or hangs up.  What one recv returns, with
\* what was on the stack behind it, has a 200 in it or not: a 200 may stand in a
\* refusal, and one cut in two by recv is not found.  The tunnel that is granted,
\* to the next proxy, is not used.
Reply(c) ==
  LET t == conn[c] IN
  /\ t.at = "reply"
  /\ \/ Becomes(c, Loop([t EXCEPT !.i = @ + 1]))
     \/ Becomes(c, Close(t, "failed"))

\* The last proxy answers the client's CONNECT in the same way, which makes it a
\* tunnel, or hangs up.  What the target sent that comes with the answer is taken
\* for part of it.
TargetReply(c) ==
  LET t == conn[c] IN
  /\ t.at = "target"
  /\ \/ \E n \in 0..MaxSegments :
          Becomes(c, [t EXCEPT !.at = "relay", !.served = n, !.missed = n])
     \/ Becomes(c, Close(t, "failed"))

\* Mutant: bytes < 0 for bytes <= 0.
FromClientForever(t) ==
  IF t.up # <<>> THEN [t EXCEPT !.up = Tail(@), !.toProxy = Append(@, Head(t.up))] ELSE t

\* recv from the client, if select says so, and send to the proxy.
FromClient(t) ==
  CASE t.up # <<>>                -> [t EXCEPT !.up = Tail(@), !.toProxy = Append(@, Head(t.up))]
    [] t.up = <<>> /\ ~t.client   -> Close(t, "done")
    [] t.up = <<>> /\ t.client    -> t

\* Mutant: the end of what the proxy sends is looked for first.
FromProxyEndFirst(t) ==
  CASE ~t.proxy                   -> Close(t, "done")
    [] t.proxy /\ t.down # <<>>   -> [t EXCEPT !.down = Tail(@), !.toClient = Append(@, Head(t.down))]
    [] t.proxy /\ t.down = <<>>   -> t

FromProxy(t) ==
  CASE t.down # <<>>              -> [t EXCEPT !.down = Tail(@), !.toClient = Append(@, Head(t.down))]
    [] t.down = <<>> /\ ~t.proxy  -> Close(t, "done")
    [] t.down = <<>> /\ t.proxy   -> t

\* One pass of RelayTraffic.
Relay(c) ==
  LET t == conn[c]
      r == FromClient(t)
  IN
  /\ t.at = "relay"
  /\ t.up # <<>> \/ ~t.client \/ t.down # <<>> \/ ~t.proxy
  /\ Becomes(c, IF r.at = "done" THEN r ELSE FromProxy(r))

Thread(c) == Receive(c) \/ Connect(c) \/ Reply(c) \/ TargetReply(c) \/ Relay(c)

-----------------------------------------------------------------------------
(* The main thread: the menu, and local_Proxy, which no menu calls yet and *)
(* which is taken to be called with proxy_chain.                           *)

AddProxy(p) ==
  /\ local_Proxy = "off" /\ Len(proxy_chain) < MaxChain
  /\ proxy_chain' = Append(proxy_chain, p)
  /\ UNCHANGED <<local_Proxy, conn>>

DeleteProxy(idx) ==
  /\ local_Proxy = "off" /\ idx \in DOMAIN proxy_chain
  /\ proxy_chain' = RemoveAt(proxy_chain, idx)
  /\ UNCHANGED <<local_Proxy, conn>>

\* All up to the loop.  A call that fails undoes what was done before it, which
\* makes a stuttering step.
Listen ==
  /\ local_Proxy = "off"
  /\ local_Proxy' = "accept"
  /\ UNCHANGED <<proxy_chain, conn>>

Accept(c) ==
  /\ local_Proxy = "accept" /\ conn[c].at = "queued"
  /\ Becomes(c, [conn[c] EXCEPT !.at = "request"])

\* No socket stays open, and the connections at `places' end.
Reset(places) ==
  /\ local_Proxy' = "off"
  /\ conn' = [c \in Clients |->
                [conn[c] EXCEPT !.at = IF @ \in places THEN "reset" ELSE @, !.open = {}]]

\* WSACleanup closes the sockets of every thread and fails the calls in which
\* they block, so that they end.
AcceptFails ==
  /\ local_Proxy = "accept"
  /\ Reset({"queued"} \cup Blocking)
  /\ UNCHANGED proxy_chain

\* Nothing catches what a thread throws: the program ends, and is started again.
Terminate ==
  /\ \E c \in Clients : conn[c].at = "throw"
  /\ Reset({"queued", "throw"} \cup Blocking)
  /\ proxy_chain' = <<>>

-----------------------------------------------------------------------------
(* The clients and the last proxy.                                         *)

Browse(c) ==
  /\ local_Proxy = "accept" /\ conn[c].at = "none"
  /\ Becomes(c, [Unused EXCEPT !.at = "queued", !.client = TRUE])

Connected(t) == t.at \in {"queued"} \cup Blocking

\* At any time: a request may come in pieces, and more behind it at once.
ClientSends(c) ==
  LET t == conn[c] IN
  /\ Connected(t) /\ t.client /\ t.sent < MaxSegments
  /\ Becomes(c, [t EXCEPT !.sent = @ + 1, !.up = Append(@, t.sent + 1)])

ClientCloses(c) ==
  /\ Connected(conn[c]) /\ conn[c].client
  /\ Becomes(c, [conn[c] EXCEPT !.client = FALSE])

ProxySends(c) ==
  LET t == conn[c] IN
  /\ t.at = "relay" /\ t.proxy /\ t.served < MaxSegments
  /\ Becomes(c, [t EXCEPT !.served = @ + 1, !.down = Append(@, t.served + 1)])

ProxyCloses(c) ==
  /\ conn[c].at = "relay" /\ conn[c].proxy
  /\ Becomes(c, [conn[c] EXCEPT !.proxy = FALSE])

-----------------------------------------------------------------------------

Init ==
  /\ local_Proxy = "off"
  /\ proxy_chain = <<>>
  /\ conn = [c \in Clients |-> Unused]

Next ==
  \/ \E p \in Proxies : AddProxy(p)
  \/ \E idx \in DOMAIN proxy_chain : DeleteProxy(idx)
  \/ Listen \/ AcceptFails \/ Terminate
  \/ \E c \in Clients : Accept(c) \/ Thread(c)
  \/ \E c \in Clients : Browse(c) \/ ClientSends(c) \/ ClientCloses(c) \/ ProxySends(c) \/ ProxyCloses(c)

Spec == Init /\ [][Next]_vars

\* The scheduler runs a thread whose select has returned.
FairSpec == Spec /\ \A c \in Clients : WF_vars(Relay(c))

-----------------------------------------------------------------------------
(* Properties.                                                             *)

\* The type of each variable, and that the loop stays within the chain: there
\* is a proxy to connect to, and one to name in the CONNECT of its predecessor.
TypeOK ==
  /\ local_Proxy \in {"off", "accept"}
  /\ proxy_chain \in Seq(Proxies)
  /\ conn \in [Clients -> Connection]
  /\ \A c \in Clients :
       /\ conn[c].at = "connect" => conn[c].i <= Len(proxy_chain)
       /\ conn[c].at = "reply" => conn[c].i < Len(proxy_chain)

\* The segments of the request that the last proxy is sent.
Passed(t) == IF t.kind = "CONNECT" THEN 0 ELSE t.text

\* While a thread relays and after, each side was passed exactly the segments
\* of the other, in their order, up to those that still wait: but for a CONNECT
\* itself, what stands behind a NUL in a request as the first recv returned it, and
\* what a target sent along with the proxy's 200.
RelayedInOrder ==
  \A c \in Clients :
    LET t == conn[c] IN
    t.at \in {"relay", "done"} =>
      /\ t.toProxy \o t.up = Segments(0, Passed(t)) \o Segments(t.request, t.sent)
      /\ t.toClient \o t.down = Segments(t.missed, t.served)

\* When RelayTraffic returns because one side closed its end, all that this
\* side had sent has been passed to the other.
NothingCutOff ==
  \A c \in Clients :
    conn[c].at = "done" =>
      /\ conn[c].client => conn[c].down = <<>>
      /\ conn[c].proxy  => conn[c].up = <<>>

\* Both together: each side gets all that the other sent, but for this, and nothing
\* else.
StreamsExact == RelayedInOrder /\ NothingCutOff

\* A thread that ended has closed the socket it used last, whichever way it
\* left ForwardProxyChain.  (Those to the proxies before stay open.)
CurrentSocketClosed ==
  \A c \in Clients : conn[c].at \in Endings => conn[c].sock \notin conn[c].open

\* When one side has closed its end the relay ends, and with it the thread.
RelayEnds ==
  \A c \in Clients :
    conn[c].at = "relay" /\ ~(conn[c].client /\ conn[c].proxy) ~> conn[c].at \in Endings

\* What is relayed passes all the proxies of the chain ("1. Connect
\* step-by-step through proxies", chain_proxy.cpp:117).
ThroughChain ==
  \A c \in Clients : conn[c].at = "relay" => conn[c].route = proxy_chain

=============================================================================

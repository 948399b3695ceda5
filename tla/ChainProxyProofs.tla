-------------------------- MODULE ChainProxyProofs --------------------------
(* Theorems about ChainProxy, for any chain and any number of connections   *)
(* and segments.  Each follows from an invariant of one connection, which   *)
(* the helpers of a thread are shown to keep, one after the other.          *)
EXTENDS ChainProxy, SequenceTheorems, TLAPS

-----------------------------------------------------------------------------
(* Segments.                                                               *)

LEMMA SegmentsType ==
  ASSUME NEW m \in Nat, NEW n \in Nat, m <= n
  PROVE  /\ Segments(m, n) \in Seq(Nat) /\ Len(Segments(m, n)) = n - m
         /\ \A k \in 1..(n - m) : Segments(m, n)[k] = m + k
<1>1. n - m \in Nat /\ \A k \in 1..(n - m) : m + k \in Nat
  OBVIOUS
<1>2. Segments(m, n) \in [1..(n - m) -> Nat]
  BY <1>1 DEF Segments
<1> QED BY <1>1, <1>2 DEF Segments

LEMMA NoSegments ==
  ASSUME NEW n \in Nat PROVE Segments(n, n) = <<>>
<1>1. Segments(n, n) \in Seq(Nat) /\ Len(Segments(n, n)) = 0
  BY SegmentsType
<1> QED BY <1>1, EmptySeq

LEMMA NextSegment ==
  ASSUME NEW m \in Nat, NEW n \in Nat, m <= n
  PROVE  Append(Segments(m, n), n + 1) = Segments(m, n + 1)
<1> DEFINE q == Segments(m, n)
           r == Segments(m, n + 1)
<1>1. /\ q \in Seq(Nat) /\ Len(q) = n - m
      /\ \A k \in 1..(n - m) : q[k] = m + k
  BY SegmentsType
<1>2. n + 1 \in Nat /\ m <= n + 1
  OBVIOUS
<1>3. /\ r \in Seq(Nat) /\ Len(r) = (n + 1) - m
      /\ \A k \in 1..((n + 1) - m) : r[k] = m + k
  BY <1>2, SegmentsType
<1> HIDE DEF q, r
<1> DEFINE s == Append(q, n + 1)
<1>4. /\ s \in Seq(Nat) /\ Len(s) = Len(q) + 1
      /\ \A k \in 1..Len(q) : s[k] = q[k]
      /\ s[Len(q) + 1] = n + 1
  BY <1>1, <1>2, AppendProperties
<1> HIDE DEF s
<1>5. ASSUME NEW k \in 1..Len(s) PROVE s[k] = r[k]
  <2>1. r[k] = m + k
    BY <1>1, <1>3, <1>4
  <2>2. CASE k = Len(q) + 1
    BY <1>1, <1>4, <2>1, <2>2
  <2>3. CASE k # Len(q) + 1
    BY <1>1, <1>4, <2>1, <2>3
  <2> QED BY <2>2, <2>3
<1>6. Len(s) = Len(r)
  BY <1>1, <1>3, <1>4
<1>7. s = r
  BY <1>3, <1>4, <1>5, <1>6, SeqEqual
<1> QED BY <1>7 DEF s, q, r

LEMMA TextType ==
  ASSUME NEW t \in Connection PROVE Segments(0, t.text) \in Seq(Nat)
<1>1. t.text \in Nat /\ 0 \in Nat /\ 0 <= t.text
  BY DEF Connection
<1> QED BY <1>1, SegmentsType

\* What is left behind the first k segments.
LEMMA DropSegments ==
  ASSUME NEW n \in Nat, NEW k \in 0..n
  PROVE  SubSeq(Segments(0, n), k + 1, Len(Segments(0, n))) = Segments(k, n)
<1> DEFINE s == Segments(0, n)
           r == Segments(k, n)
           d == SubSeq(s, k + 1, n)
<1>1. 0 \in Nat /\ 0 <= n /\ n - 0 = n /\ k \in Nat /\ k <= n /\ n - k \in Nat
  OBVIOUS
<1>2. s \in Seq(Nat) /\ Len(s) = n /\ \A i \in 1..n : s[i] = 0 + i
  BY <1>1, SegmentsType
<1>3. r \in Seq(Nat) /\ Len(r) = n - k /\ \A i \in 1..(n - k) : r[i] = k + i
  BY <1>1, SegmentsType
<1> HIDE DEF s, r
<1>4. /\ d \in Seq(Nat)
      /\ Len(d) = IF k + 1 <= n THEN n - (k + 1) + 1 ELSE 0
      /\ \A i \in 1..Len(d) : d[i] = s[k + 1 + i - 1]
  BY <1>1, <1>2, SubSeqProperties
<1> HIDE DEF d
<1>5. Len(d) = n - k
  BY <1>1, <1>4
<1>6. ASSUME NEW i \in 1..Len(d) PROVE d[i] = r[i]
  <2>1. k + 1 + i - 1 = k + i /\ k + i \in 1..n /\ 0 + (k + i) = k + i
    BY <1>1, <1>5
  <2> QED BY <1>2, <1>3, <1>4, <1>5, <2>1
<1>7. d = r
  BY <1>3, <1>4, <1>5, <1>6, SeqEqual
<1> QED BY <1>2, <1>7 DEF d, s, r

LEMMA Regroup ==
  ASSUME NEW x \in Seq(Nat), NEW y \in Seq(Nat), NEW z \in Seq(Nat)
  PROVE  (x \o y) \o z = x \o (y \o z)
  BY ConcatAssociative, SMTT(30)

LEMMA MoveHead ==
  ASSUME NEW a \in Seq(Nat), NEW b \in Seq(Nat), b # <<>>
  PROVE  Append(a, Head(b)) \o Tail(b) = a \o b
<1>1. Head(b) \in Nat /\ Tail(b) \in Seq(Nat) /\ <<Head(b)>> \in Seq(Nat)
  BY HeadTailProperties
<1>2. Append(a, Head(b)) = a \o <<Head(b)>>
  BY <1>1, AppendIsConcat
<1>3. <<Head(b)>> \o Tail(b) = b
  <2>1. Len(b) \in Nat \ {0}
    BY EmptySeq
  <2>2. /\ Len(<<Head(b)>>) = 1 /\ <<Head(b)>>[1] = b[1]
        /\ Len(Tail(b)) = Len(b) - 1 /\ \A k \in 1..Len(Tail(b)) : Tail(b)[k] = b[k + 1]
    BY HeadTailProperties
  <2> DEFINE s == <<Head(b)>> \o Tail(b)
  <2>3. /\ s \in Seq(Nat) /\ Len(s) = Len(<<Head(b)>>) + Len(Tail(b))
        /\ \A k \in 1..(Len(<<Head(b)>>) + Len(Tail(b))) :
             s[k] = IF k <= Len(<<Head(b)>>) THEN <<Head(b)>>[k]
                    ELSE Tail(b)[k - Len(<<Head(b)>>)]
    BY <1>1, ConcatProperties
  <2> HIDE DEF s
  <2>4. Len(s) = Len(b)
    BY <2>1, <2>2, <2>3
  <2>5. ASSUME NEW k \in 1..Len(b) PROVE s[k] = b[k]
    <3>1. CASE k = 1
      BY <2>1, <2>2, <2>3, <3>1
    <3>2. CASE k # 1
      <4>1. k - 1 \in 1..Len(Tail(b)) /\ s[k] = Tail(b)[k - 1]
        BY <2>1, <2>2, <2>3, <3>2
      <4> QED BY <2>2, <4>1
    <3> QED BY <3>1, <3>2
  <2>6. s = b
    BY <2>3, <2>4, <2>5, SeqEqual
  <2> QED BY <2>6 DEF s
<1> DEFINE h == <<Head(b)>>
           u == Tail(b)
<1>4. h \in Seq(Nat) /\ u \in Seq(Nat) /\ Append(a, Head(b)) = a \o h /\ h \o u = b
  BY <1>1, <1>2, <1>3
<1> HIDE DEF h, u
<1>5. (a \o h) \o u = a \o (h \o u)
  BY <1>4, Regroup
<1> QED BY <1>4, <1>5 DEF u

LEMMA AppendBehind ==
  ASSUME NEW a \in Seq(Nat), NEW b \in Seq(Nat), NEW n \in Nat
  PROVE  a \o Append(b, n) = Append(a \o b, n)
<1>1. <<n>> \in Seq(Nat) /\ a \o b \in Seq(Nat)
  BY ConcatProperties
<1>2. Append(b, n) = b \o <<n>> /\ Append(a \o b, n) = (a \o b) \o <<n>>
  BY <1>1, AppendIsConcat
<1> QED BY <1>1, <1>2, ConcatAssociative

-----------------------------------------------------------------------------
(* Types.                                                                  *)

\* A connection, when the chain has n proxies.
Typed(t, n) ==
  /\ t \in Connection
  /\ t.at = "connect" => t.i <= n
  /\ t.at = "reply" => t.i < n

TypedInv ==
  /\ local_Proxy \in {"off", "accept"}
  /\ proxy_chain \in Seq(Proxies)
  /\ conn \in [Clients -> Connection]
  /\ \A c \in Clients : Typed(conn[c], Len(proxy_chain))
  /\ local_Proxy = "off" => \A c \in Clients : ~Connected(conn[c])

\* What a step of one connection has to show.
LEMMA BecomesTyped ==
  ASSUME TypedInv, NEW c \in Clients, NEW t, Becomes(c, t), Typed(t, Len(proxy_chain)),
         Connected(t) => local_Proxy = "accept"
  PROVE  TypedInv'
<1>1. conn' = [conn EXCEPT ![c] = t] /\ UNCHANGED <<local_Proxy, proxy_chain>>
  BY DEF Becomes
<1>2. conn' \in [Clients -> Connection]
  BY <1>1 DEF TypedInv, Typed
<1>3. \A d \in Clients : Typed(conn[d], Len(proxy_chain))'
  BY <1>1 DEF TypedInv, Typed
<1>4. local_Proxy' = "off" => \A d \in Clients : ~Connected(conn[d])'
  BY <1>1 DEF TypedInv, Connected
<1> QED BY <1>1, <1>2, <1>3, <1>4 DEF TypedInv

LEMMA UnusedType == Unused \in Connection
  BY DEF Unused, Connection, Kinds, Blocking, Endings, INVALID_SOCKET

LEMMA CloseType ==
  ASSUME NEW t \in Connection, NEW how \in Endings
  PROVE  Close(t, how) \in Connection /\ Close(t, how).at = how
  BY DEF Close, Connection

LEMMA SendRequestType ==
  ASSUME NEW t \in Connection
  PROVE  /\ SendRequest(t) \in Connection
         /\ SendRequest(t).at \in {"failed", "throw", "target", "relay"}
<1>1. CASE t.kind = "word"
  BY <1>1 DEF SendRequest, Connection
<1>2. CASE t.kind # "word" /\ t.sock = INVALID_SOCKET
  BY <1>2, CloseType DEF SendRequest, Endings
<1>3. CASE t.sock # INVALID_SOCKET /\ t.kind = "CONNECT"
  BY <1>3 DEF SendRequest, Connection, Blocking
<1>4. CASE t.sock # INVALID_SOCKET /\ t.kind = "plain"
  <2>1. Segments(0, t.text) \in Seq(Nat)
    BY TextType
  <2> QED BY <1>4, <2>1 DEF SendRequest, Connection, Blocking
<1> QED BY <1>1, <1>2, <1>3, <1>4 DEF Connection, Kinds

LEMMA LoopType ==
  ASSUME NEW t \in Connection PROVE Typed(Loop(t), Len(proxy_chain))
<1>1. CASE t.i <= Len(proxy_chain)
  BY <1>1 DEF Loop, Typed, Connection, Blocking
<1>2. CASE ~(t.i <= Len(proxy_chain))
  BY <1>2, SendRequestType DEF Loop, Typed
<1> QED BY <1>1, <1>2

LEMMA FromClientType ==
  ASSUME NEW t \in Connection
  PROVE  FromClient(t) \in Connection /\ FromClient(t).at \in {t.at, "done"}
<1>1. CASE t.up # <<>>
  <2>1. Tail(t.up) \in Seq(Nat) /\ Append(t.toProxy, Head(t.up)) \in Seq(Nat)
    BY <1>1 DEF Connection
  <2> QED BY <1>1, <2>1 DEF FromClient, Connection
<1>2. CASE t.up = <<>> /\ ~t.client
  BY <1>2, CloseType DEF FromClient, Endings
<1>3. CASE t.up = <<>> /\ t.client
  BY <1>3 DEF FromClient
<1> QED BY <1>1, <1>2, <1>3 DEF Connection

LEMMA FromProxyType ==
  ASSUME NEW t \in Connection
  PROVE  FromProxy(t) \in Connection /\ FromProxy(t).at \in {t.at, "done"}
<1>1. CASE t.down # <<>>
  <2>1. Tail(t.down) \in Seq(Nat) /\ Append(t.toClient, Head(t.down)) \in Seq(Nat)
    BY <1>1 DEF Connection
  <2> QED BY <1>1, <2>1 DEF FromProxy, Connection
<1>2. CASE t.down = <<>> /\ ~t.proxy
  BY <1>2, CloseType DEF FromProxy, Endings
<1>3. CASE t.down = <<>> /\ t.proxy
  BY <1>3 DEF FromProxy
<1> QED BY <1>1, <1>2, <1>3 DEF Connection

LEMMA InitTyped == Init => TypedInv
<1> SUFFICES ASSUME Init PROVE TypedInv
  OBVIOUS
<1>1. proxy_chain \in Seq(Proxies)
  BY DEF Init
<1>2. \A c \in Clients : conn[c] = Unused
  BY DEF Init
<1>3. conn \in [Clients -> Connection]
  BY UnusedType DEF Init
<1>4. \A c \in Clients : ~Connected(conn[c]) /\ Typed(conn[c], Len(proxy_chain))
  BY <1>2, UnusedType DEF Connected, Typed, Unused, Blocking
<1> QED BY <1>1, <1>3, <1>4 DEF Init, TypedInv

LEMMA ReceiveTyped == ASSUME TypedInv, NEW c \in Clients, Receive(c) PROVE TypedInv'
<1> DEFINE t == conn[c]
<1>1. t \in Connection /\ local_Proxy = "accept"
  BY DEF Receive, TypedInv, Connected, Blocking
<1>2. ASSUME NEW n \in 1..Len(t.up), NEW text \in 0..n, NEW kind \in Kinds,
             Becomes(c, Loop([t EXCEPT !.up = SubSeq(@, n + 1, Len(@)),
                                       !.request = n, !.text = text, !.kind = kind]))
      PROVE  TypedInv'
  <2> DEFINE r == [t EXCEPT !.up = SubSeq(@, n + 1, Len(@)),
                            !.request = n, !.text = text, !.kind = kind]
  <2>1. r \in Connection
    <3>1. t.up \in Seq(Nat)
      BY <1>1 DEF Connection
    <3>2. SubSeq(t.up, n + 1, Len(t.up)) \in Seq(Nat)
      BY <3>1, SubSeqProperties
    <3>3. n \in Nat /\ text \in Nat
      BY <3>1
    <3> QED BY <1>1, <3>2, <3>3 DEF Connection
  <2> HIDE DEF r
  <2>2. Becomes(c, Loop(r))
    BY <1>2 DEF r
  <2> QED BY <1>1, <2>1, <2>2, LoopType, BecomesTyped
<1>3. CASE Becomes(c, Close(t, "failed"))
  BY <1>1, <1>3, CloseType, BecomesTyped DEF Typed, Endings
<1> QED BY <1>2, <1>3 DEF Receive

LEMMA ConnectTyped == ASSUME TypedInv, NEW c \in Clients, Connect(c) PROVE TypedInv'
<1> DEFINE t         == conn[c]
           connected == [t EXCEPT !.sock = t.i, !.open = @ \cup {t.i}, !.proxy = TRUE,
                                  !.route = <<proxy_chain[t.i]>>]
<1>1. /\ t \in Connection /\ local_Proxy = "accept"
      /\ t.i \in 1..Len(proxy_chain) /\ proxy_chain \in Seq(Proxies)
  BY DEF Connect, TypedInv, Typed, Connected, Blocking, Connection
<1>2. [t EXCEPT !.sock = t.i] \in Connection
  BY <1>1 DEF Connection
<1>3. connected \in Connection
  <2>1. <<proxy_chain[t.i]>> \in Seq(Proxies)
    <3>1. proxy_chain[t.i] \in Proxies
      BY <1>1
    <3> QED BY <3>1
  <2>2. t.open \cup {t.i} \in SUBSET Nat
    <3>1. t.open \in SUBSET Nat
      BY <1>1 DEF Connection
    <3>2. t.i \in Nat
      BY <1>1
    <3> QED BY <3>1, <3>2
  <2> QED BY <1>1, <2>1, <2>2 DEF Connection
<1>4. CASE Becomes(c, Close([t EXCEPT !.sock = t.i], "failed"))
  BY <1>1, <1>2, <1>4, CloseType, BecomesTyped DEF Typed, Endings
<1>5. CASE ~IsLast(t) /\ Becomes(c, [connected EXCEPT !.at = "reply"])
  <2>1. [connected EXCEPT !.at = "reply"] \in Connection
    BY <1>3 DEF Connection, Blocking
  <2>2. Len(proxy_chain) \in Nat /\ t.i < Len(proxy_chain)
    BY <1>1, <1>5 DEF IsLast
  <2>3. Typed([connected EXCEPT !.at = "reply"], Len(proxy_chain))
    BY <1>1, <2>1, <2>2 DEF Typed, Connection
  <2> QED BY <1>1, <1>5, <2>3, BecomesTyped
<1>6. CASE Becomes(c, Loop([connected EXCEPT !.i = @ + 1]))
  <2>1. [connected EXCEPT !.i = @ + 1] \in Connection
    <3> HIDE DEF connected
    <3>1. connected.i + 1 \in Nat \ {0}
      BY <1>3 DEF Connection
    <3> QED BY <1>3, <3>1 DEF Connection
  <2> QED BY <1>1, <1>6, <2>1, LoopType, BecomesTyped
<1> QED BY <1>4, <1>5, <1>6 DEF Connect

LEMMA ReplyTyped == ASSUME TypedInv, NEW c \in Clients, Reply(c) PROVE TypedInv'
<1> DEFINE t == conn[c]
<1>1. t \in Connection /\ local_Proxy = "accept"
  BY DEF Reply, TypedInv, Connected, Blocking
<1>2. CASE Becomes(c, Loop([t EXCEPT !.i = @ + 1]))
  <2>1. [t EXCEPT !.i = @ + 1] \in Connection
    <3>1. t.i \in Nat \ {0}
      BY <1>1 DEF Connection
    <3>2. t.i + 1 \in Nat \ {0}
      BY <3>1
    <3> QED BY <1>1, <3>2 DEF Connection
  <2> QED BY <1>1, <1>2, <2>1, LoopType, BecomesTyped
<1>3. CASE Becomes(c, Close(t, "failed"))
  BY <1>1, <1>3, CloseType, BecomesTyped DEF Typed, Endings
<1> QED BY <1>2, <1>3 DEF Reply

LEMMA TargetReplyTyped == ASSUME TypedInv, NEW c \in Clients, TargetReply(c) PROVE TypedInv'
<1> DEFINE t == conn[c]
<1>1. t \in Connection /\ local_Proxy = "accept"
  BY DEF TargetReply, TypedInv, Connected, Blocking
<1>2. ASSUME NEW n \in 0..MaxSegments,
             Becomes(c, [t EXCEPT !.at = "relay", !.served = n, !.missed = n])
      PROVE  TypedInv'
  <2> DEFINE r == [t EXCEPT !.at = "relay", !.served = n, !.missed = n]
  <2>1. n \in Nat
    BY BoundsAssumption
  <2>2. r \in Connection /\ r.at = "relay"
    BY <1>1, <2>1 DEF Connection, Blocking
  <2> HIDE DEF r
  <2>3. Becomes(c, r)
    BY <1>2 DEF r
  <2> QED BY <1>1, <2>2, <2>3, BecomesTyped DEF Typed
<1>3. CASE Becomes(c, Close(t, "failed"))
  BY <1>1, <1>3, CloseType, BecomesTyped DEF Typed, Endings
<1> QED BY <1>2, <1>3 DEF TargetReply

LEMMA RelayTyped == ASSUME TypedInv, NEW c \in Clients, Relay(c) PROVE TypedInv'
<1> DEFINE t == conn[c]
           r == FromClient(t)
<1>1. t \in Connection /\ local_Proxy = "accept" /\ t.at = "relay"
  BY DEF Relay, TypedInv, Connected, Blocking
<1>2. r \in Connection /\ r.at \in {"relay", "done"}
  BY <1>1, FromClientType
<1>3. FromProxy(r) \in Connection /\ FromProxy(r).at \in {"relay", "done"}
  BY <1>2, FromProxyType
<1>4. Typed(IF r.at = "done" THEN r ELSE FromProxy(r), Len(proxy_chain))
  BY <1>2, <1>3 DEF Typed
<1>5. Becomes(c, IF r.at = "done" THEN r ELSE FromProxy(r))
  BY DEF Relay
<1> HIDE DEF r
<1> QED BY <1>1, <1>4, <1>5, BecomesTyped

LEMMA MainTyped ==
  ASSUME TypedInv,
         \/ \E p \in Proxies : AddProxy(p)
         \/ \E idx \in DOMAIN proxy_chain : DeleteProxy(idx)
         \/ Listen \/ AcceptFails \/ Terminate
         \/ \E c \in Clients : Accept(c)
  PROVE  TypedInv'
<1>1. ASSUME local_Proxy = "off", UNCHANGED <<local_Proxy, conn>>,
             proxy_chain' \in Seq(Proxies)
      PROVE  TypedInv'
  BY <1>1 DEF TypedInv, Typed, Connected, Blocking
<1>2. ASSUME NEW p \in Proxies, AddProxy(p) PROVE TypedInv'
  BY <1>1, <1>2 DEF AddProxy, TypedInv
<1>3. ASSUME NEW idx \in DOMAIN proxy_chain, DeleteProxy(idx) PROVE TypedInv'
  <2>1. proxy_chain \in Seq(Proxies) /\ idx \in 1..Len(proxy_chain)
    BY <1>3 DEF TypedInv
  <2>2. /\ SubSeq(proxy_chain, 1, idx - 1) \in Seq(Proxies)
        /\ SubSeq(proxy_chain, idx + 1, Len(proxy_chain)) \in Seq(Proxies)
    BY <2>1, SubSeqProperties
  <2> QED BY <1>1, <1>3, <2>2 DEF DeleteProxy, RemoveAt
<1>4. CASE Listen
  BY <1>4 DEF Listen, TypedInv
<1>5. ASSUME NEW places, {"queued"} \cup Blocking \subseteq places, Reset(places)
      PROVE  /\ local_Proxy' = "off" /\ conn' \in [Clients -> Connection]
             /\ \A c \in Clients : /\ ~Connected(conn'[c])
                                   /\ conn'[c].at \notin {"connect", "reply"}
  <2>1. ASSUME NEW c \in Clients
        PROVE  /\ conn'[c] \in Connection
               /\ ~Connected(conn'[c]) /\ conn'[c].at \notin {"connect", "reply"}
    <3> DEFINE at == IF conn[c].at \in places THEN "reset" ELSE conn[c].at
    <3>1. conn[c] \in Connection /\ conn'[c] = [conn[c] EXCEPT !.at = at, !.open = {}]
      BY <1>5 DEF Reset, TypedInv
    <3>2. /\ at \in {"none", "queued", "throw"} \cup Blocking \cup Endings
          /\ at \notin {"queued"} \cup Blocking
      BY <1>5, <3>1 DEF Connection, Blocking, Endings
    <3> HIDE DEF at
    <3>3. conn'[c] \in Connection /\ conn'[c].at = at
      BY <3>1, <3>2 DEF Connection
    <3> QED BY <3>2, <3>3 DEF Connected, Blocking
  <2>2. conn' \in [Clients -> Connection]
    BY <1>5, <2>1 DEF Reset
  <2> QED BY <1>5, <2>1, <2>2 DEF Reset
<1>6. ASSUME NEW places, {"queued"} \cup Blocking \subseteq places, Reset(places),
             proxy_chain' \in Seq(Proxies)
      PROVE  TypedInv'
  BY <1>5, <1>6 DEF TypedInv, Typed
<1>7. CASE AcceptFails
  BY <1>6, <1>7 DEF AcceptFails, TypedInv
<1>8. CASE Terminate
  BY <1>6, <1>8 DEF Terminate
<1>9. ASSUME NEW c \in Clients, Accept(c) PROVE TypedInv'
  <2> DEFINE t == conn[c]
  <2>1. t \in Connection
    BY DEF TypedInv
  <2>2. [t EXCEPT !.at = "request"] \in Connection
    BY <2>1 DEF Connection, Blocking
  <2>3. Typed([t EXCEPT !.at = "request"], Len(proxy_chain))
    BY <2>1, <2>2 DEF Typed, Connection
  <2> QED BY <1>9, <2>3, BecomesTyped DEF Accept
<1> QED BY <1>2, <1>3, <1>4, <1>9, <1>7, <1>8

LEMMA EnvironmentTyped ==
  ASSUME TypedInv, NEW c \in Clients,
         \/ Browse(c) \/ ClientSends(c) \/ ClientCloses(c) \/ ProxySends(c) \/ ProxyCloses(c)
  PROVE  TypedInv'
<1> DEFINE t == conn[c]
<1>1. t \in Connection /\ Typed(t, Len(proxy_chain)) /\ t.sent + 1 \in Nat /\ t.served + 1 \in Nat
  BY DEF TypedInv, Connection
<1>2. Connected(t) => local_Proxy = "accept"
  BY DEF TypedInv
<1>3. CASE Browse(c)
  <2>1. [Unused EXCEPT !.at = "queued", !.client = TRUE] \in Connection
    BY UnusedType DEF Connection
  <2>2. [Unused EXCEPT !.at = "queued", !.client = TRUE].at = "queued"
    BY DEF Unused
  <2> QED BY <1>3, <2>1, <2>2, BecomesTyped DEF Browse, Typed
<1>4. ASSUME NEW u, Becomes(c, u), u \in Connection, u.at = t.at, u.i = t.i PROVE TypedInv'
  BY <1>1, <1>2, <1>4, BecomesTyped DEF Typed, Connected
<1>5. CASE ClientSends(c)
  <2>1. Append(t.up, t.sent + 1) \in Seq(Nat)
    BY <1>1 DEF Connection
  <2>2. [t EXCEPT !.sent = @ + 1, !.up = Append(@, t.sent + 1)] \in Connection
    BY <1>1, <2>1 DEF Connection
  <2> QED BY <1>1, <1>4, <1>5, <2>2 DEF ClientSends, Connection
<1>6. CASE ClientCloses(c)
  <2>1. [t EXCEPT !.client = FALSE] \in Connection
    BY <1>1 DEF Connection
  <2> QED BY <1>1, <1>4, <1>6, <2>1 DEF ClientCloses, Connection
<1>7. CASE ProxySends(c)
  <2>1. Append(t.down, t.served + 1) \in Seq(Nat)
    BY <1>1 DEF Connection
  <2>2. [t EXCEPT !.served = @ + 1, !.down = Append(@, t.served + 1)] \in Connection
    BY <1>1, <2>1 DEF Connection
  <2> QED BY <1>1, <1>4, <1>7, <2>2 DEF ProxySends, Connection
<1>8. CASE ProxyCloses(c)
  <2>1. [t EXCEPT !.proxy = FALSE] \in Connection
    BY <1>1 DEF Connection
  <2> QED BY <1>1, <1>4, <1>8, <2>1 DEF ProxyCloses, Connection
<1> QED BY <1>3, <1>5, <1>6, <1>7, <1>8

LEMMA TypedInvariant == Spec => []TypedInv
<1>1. TypedInv /\ UNCHANGED vars => TypedInv'
  BY DEF TypedInv, Typed, Connected, vars
<1>2. TypedInv /\ [Next]_vars => TypedInv'
  BY <1>1, ReceiveTyped, ConnectTyped, ReplyTyped, TargetReplyTyped, RelayTyped, MainTyped,
     EnvironmentTyped DEF Next, Thread
<1> QED BY InitTyped, <1>2, PTL DEF Spec

\* Every variable keeps its type, and the loop over the chain never looks behind
\* its end, whatever the menu did to the chain before.
THEOREM TypeCorrect == Spec => []TypeOK
<1>1. TypedInv => TypeOK
  BY DEF TypedInv, Typed, TypeOK
<1> QED BY <1>1, TypedInvariant, PTL

-----------------------------------------------------------------------------
(* What holds of a connection at every step.                               *)

NothingRelayed(t) ==
  /\ t.toProxy = <<>> /\ t.toClient = <<>> /\ t.down = <<>>
  /\ t.served = t.missed

\* The request was read, and all that was sent behind it waits.
Requested(t) ==
  /\ NothingRelayed(t)
  /\ t.sent >= t.request /\ t.up = Segments(t.request, t.sent)

InOrder(t) ==
  /\ t.sent >= t.request /\ t.missed <= t.served
  /\ t.toProxy \o t.up = Segments(0, Passed(t)) \o Segments(t.request, t.sent)
  /\ t.toClient \o t.down = Segments(t.missed, t.served)

CutOff(t) == (t.client /\ t.down # <<>>) \/ (t.proxy /\ t.up # <<>>)

Good(t) ==
  /\ t.at \in {"none", "queued", "request"} => NothingRelayed(t) /\ t.up = Segments(0, t.sent)
  /\ t.at \in {"connect", "reply", "target"} => Requested(t)
  /\ t.at = "target" => t.kind = "CONNECT"
  /\ t.at \in {"relay", "done"} => InOrder(t)
  /\ t.at \in Endings => t.sock \notin t.open
  /\ t.at = "done" => ~CutOff(t)

GoodInv == \A c \in Clients : Good(conn[c])

LEMMA CloseFails ==
  ASSUME NEW t \in Connection PROVE Good(Close(t, "failed"))
<1>1. /\ Close(t, "failed").at = "failed"
      /\ Close(t, "failed").sock = t.sock /\ Close(t, "failed").open = t.open \ {t.sock}
  BY DEF Close, Connection
<1> QED BY <1>1 DEF Good

\* The relay starts when the request has been passed on, and with it the text.
LEMMA RelayStarts ==
  ASSUME NEW r \in Connection, r.at = "relay", r.toClient = <<>>, r.down = <<>>,
         r.served = r.missed, r.sent >= r.request, r.up = Segments(r.request, r.sent),
         r.toProxy = Segments(0, Passed(r))
  PROVE  Good(r)
<1>1. r.served \in Nat /\ r.missed \in Nat
  BY DEF Connection
<1>2. <<>> \o <<>> = Segments(r.missed, r.served)
  <2>1. <<>> \in Seq(Nat) /\ <<>> \o <<>> = <<>>
    BY ConcatEmptySeq, EmptySeq
  <2> QED BY <1>1, <2>1, NoSegments
<1>3. r.toProxy \o r.up = Segments(0, Passed(r)) \o Segments(r.request, r.sent)
  OBVIOUS
<1>4. r.toClient \o r.down = Segments(r.missed, r.served)
  BY <1>2
<1>5. InOrder(r)
  BY <1>1, <1>3, <1>4 DEF InOrder
<1> QED BY <1>5 DEF Good, Endings

LEMMA SendRequestGood ==
  ASSUME NEW t \in Connection, Requested(t) PROVE Good(SendRequest(t))
<1> USE DEF Requested, NothingRelayed
<1>1. CASE t.kind = "word"
  BY <1>1 DEF SendRequest, Connection, Good, Endings
<1>2. CASE t.kind # "word" /\ t.sock = INVALID_SOCKET
  BY <1>2, CloseFails DEF SendRequest
<1>3. CASE t.sock # INVALID_SOCKET /\ t.kind = "CONNECT"
  BY <1>3 DEF SendRequest, Connection, Good, Endings
<1>4. CASE t.sock # INVALID_SOCKET /\ t.kind = "plain"
  <2> DEFINE r == [t EXCEPT !.at = "relay", !.toProxy = Segments(0, t.text)]
  <2>1. Segments(0, t.text) \in Seq(Nat)
    BY TextType
  <2>2. /\ r \in Connection
        /\ r.at = "relay" /\ r.kind = "plain" /\ r.toProxy = Segments(0, t.text)
        /\ r.up = t.up /\ r.toClient = <<>> /\ r.down = <<>> /\ r.sent = t.sent
        /\ r.missed = t.missed /\ r.served = t.served
        /\ r.request = t.request /\ r.text = t.text
    BY <1>4, <2>1 DEF Connection, Blocking
  <2>3. SendRequest(t) = r
    BY <1>4 DEF SendRequest
  <2> HIDE DEF r
  <2>4. Passed(r) = t.text
    BY <2>2 DEF Passed
  <2> QED BY <2>2, <2>3, <2>4, RelayStarts
<1> QED BY <1>1, <1>2, <1>3, <1>4 DEF Connection, Kinds

LEMMA LoopGood ==
  ASSUME NEW t \in Connection, Requested(t) PROVE Good(Loop(t))
<1>1. CASE t.i <= Len(proxy_chain)
  <2> DEFINE r == [t EXCEPT !.at = "connect"]
  <2>1. r.at = "connect" /\ Requested(r)
    BY DEF Connection, Requested, NothingRelayed
  <2> QED BY <1>1, <2>1 DEF Loop, Good, Endings
<1>2. CASE ~(t.i <= Len(proxy_chain))
  BY <1>2, SendRequestGood DEF Loop
<1> QED BY <1>1, <1>2

LEMMA FromClientGood ==
  ASSUME NEW t \in Connection, t.at = "relay", Good(t) PROVE Good(FromClient(t))
<1>1. CASE t.up # <<>>
  <2> DEFINE r == FromClient(t)
  <2>1. r = [t EXCEPT !.up = Tail(@), !.toProxy = Append(@, Head(t.up))]
    BY <1>1 DEF FromClient
  <2>2. /\ r.at = "relay" /\ r.kind = t.kind /\ r.sent = t.sent
        /\ r.up = Tail(t.up) /\ r.toProxy = Append(t.toProxy, Head(t.up))
        /\ r.toClient = t.toClient /\ r.down = t.down
        /\ r.missed = t.missed /\ r.served = t.served
        /\ r.request = t.request /\ r.text = t.text
    BY <2>1 DEF Connection
  <2>3. r.toProxy \o r.up = t.toProxy \o t.up
    BY <1>1, <2>2, MoveHead DEF Connection
  <2>4. InOrder(r)
    BY <2>2, <2>3 DEF Good, InOrder, Passed
  <2> QED BY <2>2, <2>4 DEF Good, Endings
<1>2. CASE t.up = <<>> /\ ~t.client
  <2> DEFINE r == Close(t, "done")
  <2>1. /\ r.at = "done" /\ r.kind = t.kind /\ r.sent = t.sent
        /\ r.up = t.up /\ r.toProxy = t.toProxy /\ r.toClient = t.toClient /\ r.down = t.down
        /\ r.missed = t.missed /\ r.served = t.served
        /\ r.request = t.request /\ r.text = t.text
        /\ r.client = t.client /\ r.proxy = t.proxy
        /\ r.sock = t.sock /\ r.open = t.open \ {t.sock}
    BY DEF Close, Connection
  <2>2. InOrder(r) /\ ~CutOff(r)
    BY <1>2, <2>1 DEF Good, InOrder, Passed, CutOff
  <2>3. FromClient(t) = r
    BY <1>2 DEF FromClient
  <2> HIDE DEF r
  <2> QED BY <2>1, <2>2, <2>3 DEF Good
<1>3. CASE t.up = <<>> /\ t.client
  BY <1>3 DEF FromClient
<1> QED BY <1>1, <1>2, <1>3 DEF Connection

LEMMA FromProxyGood ==
  ASSUME NEW t \in Connection, t.at = "relay", Good(t) PROVE Good(FromProxy(t))
<1>1. CASE t.down # <<>>
  <2> DEFINE r == FromProxy(t)
  <2>1. r = [t EXCEPT !.down = Tail(@), !.toClient = Append(@, Head(t.down))]
    BY <1>1 DEF FromProxy
  <2>2. /\ r.at = "relay" /\ r.kind = t.kind /\ r.sent = t.sent
        /\ r.up = t.up /\ r.toProxy = t.toProxy
        /\ r.toClient = Append(t.toClient, Head(t.down)) /\ r.down = Tail(t.down)
        /\ r.missed = t.missed /\ r.served = t.served
        /\ r.request = t.request /\ r.text = t.text
    BY <2>1 DEF Connection
  <2>3. r.toClient \o r.down = t.toClient \o t.down
    BY <1>1, <2>2, MoveHead DEF Connection
  <2>4. InOrder(r)
    BY <2>2, <2>3 DEF Good, InOrder, Passed
  <2> QED BY <2>2, <2>4 DEF Good, Endings
<1>2. CASE t.down = <<>> /\ ~t.proxy
  <2> DEFINE r == Close(t, "done")
  <2>1. /\ r.at = "done" /\ r.kind = t.kind /\ r.sent = t.sent
        /\ r.up = t.up /\ r.toProxy = t.toProxy /\ r.toClient = t.toClient /\ r.down = t.down
        /\ r.missed = t.missed /\ r.served = t.served
        /\ r.request = t.request /\ r.text = t.text
        /\ r.client = t.client /\ r.proxy = t.proxy
        /\ r.sock = t.sock /\ r.open = t.open \ {t.sock}
    BY DEF Close, Connection
  <2>2. InOrder(r) /\ ~CutOff(r)
    BY <1>2, <2>1 DEF Good, InOrder, Passed, CutOff
  <2>3. FromProxy(t) = r
    BY <1>2 DEF FromProxy
  <2> HIDE DEF r
  <2> QED BY <2>1, <2>2, <2>3 DEF Good
<1>3. CASE t.down = <<>> /\ t.proxy
  BY <1>3 DEF FromProxy
<1> QED BY <1>1, <1>2, <1>3 DEF Connection

LEMMA BecomesGood ==
  ASSUME TypedInv, GoodInv, NEW c \in Clients, NEW t, Becomes(c, t), Good(t)
  PROVE  GoodInv'
  BY DEF TypedInv, GoodInv, Becomes

LEMMA ReceiveGood ==
  ASSUME TypedInv, GoodInv, NEW c \in Clients, Receive(c) PROVE GoodInv'
<1> DEFINE t == conn[c]
<1>1. /\ t \in Connection /\ NothingRelayed(t) /\ t.up = Segments(0, t.sent)
      /\ t.sent \in Nat /\ t.up \in Seq(Nat)
  BY DEF Receive, TypedInv, GoodInv, Good, Connection
<1>2. ASSUME NEW n \in 1..Len(t.up), NEW text \in 0..n, NEW kind \in Kinds,
             Becomes(c, Loop([t EXCEPT !.up = SubSeq(@, n + 1, Len(@)),
                                       !.request = n, !.text = text, !.kind = kind]))
      PROVE  GoodInv'
  <2> DEFINE r == [t EXCEPT !.up = SubSeq(@, n + 1, Len(@)),
                            !.request = n, !.text = text, !.kind = kind]
  <2>1. Len(t.up) = t.sent
    <3>1. 0 \in Nat /\ 0 <= t.sent /\ t.sent - 0 = t.sent
      BY <1>1
    <3> QED BY <1>1, <3>1, SegmentsType
  <2>2. n \in Nat /\ text \in Nat /\ n <= t.sent /\ n \in 0..t.sent
    BY <1>1, <2>1
  <2>3. SubSeq(t.up, n + 1, Len(t.up)) = Segments(n, t.sent)
    BY <1>1, <2>2, DropSegments
  <2>4. Segments(n, t.sent) \in Seq(Nat)
    BY <1>1, <2>2, SegmentsType
  <2>5. /\ r \in Connection /\ r.up = Segments(n, t.sent) /\ r.sent = t.sent /\ r.request = n
        /\ NothingRelayed(r)
    BY <1>1, <2>2, <2>3, <2>4 DEF Connection, NothingRelayed
  <2>6. Becomes(c, Loop(r))
    BY <1>2
  <2> HIDE DEF r
  <2>7. Requested(r)
    BY <2>2, <2>5 DEF Requested
  <2>8. Good(Loop(r))
    BY <2>5, <2>7, LoopGood
  <2> QED BY <2>6, <2>8, BecomesGood
<1>3. CASE Becomes(c, Close(t, "failed"))
  BY <1>1, <1>3, CloseFails, BecomesGood
<1> QED BY <1>2, <1>3 DEF Receive

LEMMA ConnectGood ==
  ASSUME TypedInv, GoodInv, NEW c \in Clients, Connect(c) PROVE GoodInv'
<1> DEFINE t         == conn[c]
           connected == [t EXCEPT !.sock = t.i, !.open = @ \cup {t.i}, !.proxy = TRUE,
                                  !.route = <<proxy_chain[t.i]>>]
<1>1. t \in Connection /\ Requested(t) /\ t.i \in 1..Len(proxy_chain)
  BY DEF Connect, TypedInv, Typed, GoodInv, Good, Connection
<1>2. connected \in Connection /\ Requested(connected)
  <2>1. <<proxy_chain[t.i]>> \in Seq(Proxies) /\ t.open \cup {t.i} \in SUBSET Nat
    BY <1>1 DEF TypedInv, Connection
  <2>2. connected \in Connection
    BY <1>1, <2>1 DEF Connection
  <2>3. Requested(connected)
    BY <1>1 DEF Connection, Requested, NothingRelayed
  <2> QED BY <2>2, <2>3
<1>3. CASE Becomes(c, Close([t EXCEPT !.sock = t.i], "failed"))
  <2> DEFINE u == [t EXCEPT !.sock = t.i]
  <2>1. u \in Connection
    BY <1>1 DEF Connection
  <2>2. Good(Close(u, "failed"))
    BY <2>1, CloseFails
  <2> QED BY <1>3, <2>2, BecomesGood
<1>4. CASE Becomes(c, [connected EXCEPT !.at = "reply"])
  <2> HIDE DEF connected
  <2> DEFINE u == [connected EXCEPT !.at = "reply"]
  <2>1. u.at = "reply" /\ Requested(u)
    BY <1>2 DEF Connection, Requested, NothingRelayed
  <2>2. Good(u)
    BY <2>1 DEF Good, Endings
  <2> QED BY <1>4, <2>2, BecomesGood
<1>5. CASE Becomes(c, Loop([connected EXCEPT !.i = @ + 1]))
  <2> HIDE DEF connected
  <2> DEFINE u == [connected EXCEPT !.i = @ + 1]
  <2>1. u \in Connection /\ Requested(u)
    <3>1. connected.i + 1 \in Nat \ {0}
      BY <1>2 DEF Connection
    <3>2. u \in Connection
      BY <1>2, <3>1 DEF Connection
    <3> QED BY <1>2, <3>2 DEF Connection, Requested, NothingRelayed
  <2>2. Good(Loop(u))
    BY <2>1, LoopGood
  <2> QED BY <1>5, <2>2, BecomesGood
<1> QED BY <1>3, <1>4, <1>5 DEF Connect

LEMMA ReplyGood ==
  ASSUME TypedInv, GoodInv, NEW c \in Clients, Reply(c) PROVE GoodInv'
<1> DEFINE t == conn[c]
<1>1. t \in Connection /\ Requested(t)
  BY DEF Reply, TypedInv, GoodInv, Good
<1>2. CASE Becomes(c, Loop([t EXCEPT !.i = @ + 1]))
  <2> HIDE DEF t
  <2> DEFINE u == [t EXCEPT !.i = @ + 1]
  <2>0. t.i \in Nat \ {0}
    BY <1>1 DEF Connection
  <2>1. t.i + 1 \in Nat \ {0}
    BY <2>0
  <2>2. u \in Connection
    BY <1>1, <2>1 DEF Connection
  <2>3. Requested(u)
    BY <1>1 DEF Connection, Requested, NothingRelayed
  <2>4. Good(Loop(u))
    BY <2>2, <2>3, LoopGood
  <2> QED BY <1>2, <2>4, BecomesGood
<1>3. CASE Becomes(c, Close(t, "failed"))
  BY <1>1, <1>3, CloseFails, BecomesGood
<1> QED BY <1>2, <1>3 DEF Reply

LEMMA TargetReplyGood ==
  ASSUME TypedInv, GoodInv, NEW c \in Clients, TargetReply(c) PROVE GoodInv'
<1> DEFINE t == conn[c]
<1>1. t \in Connection /\ Requested(t) /\ t.at = "target" /\ t.kind = "CONNECT"
  BY DEF TargetReply, TypedInv, GoodInv, Good
<1>2. ASSUME NEW n \in 0..MaxSegments,
             Becomes(c, [t EXCEPT !.at = "relay", !.served = n, !.missed = n])
      PROVE  GoodInv'
  <2> DEFINE r == [t EXCEPT !.at = "relay", !.served = n, !.missed = n]
  <2>1. n \in Nat
    BY BoundsAssumption
  <2>2. /\ r \in Connection
        /\ r.at = "relay" /\ r.kind = "CONNECT" /\ r.toProxy = <<>> /\ r.toClient = <<>>
        /\ r.down = <<>> /\ r.served = r.missed
        /\ r.sent >= r.request /\ r.up = Segments(r.request, r.sent)
    BY <1>1, <2>1 DEF Connection, Blocking, Requested, NothingRelayed
  <2> HIDE DEF r
  <2>3. r.toProxy = Segments(0, Passed(r))
    <3>1. Segments(0, 0) = <<>>
      BY NoSegments
    <3> QED BY <2>2, <3>1 DEF Passed
  <2>4. Good(r)
    BY <2>2, <2>3, RelayStarts
  <2>5. Becomes(c, r)
    BY <1>2 DEF r
  <2> QED BY <2>4, <2>5, BecomesGood
<1>3. CASE Becomes(c, Close(t, "failed"))
  BY <1>1, <1>3, CloseFails, BecomesGood
<1> QED BY <1>2, <1>3 DEF TargetReply

LEMMA RelayGood ==
  ASSUME TypedInv, GoodInv, NEW c \in Clients, Relay(c) PROVE GoodInv'
<1> DEFINE t == conn[c]
           r == FromClient(t)
<1>1. t \in Connection /\ t.at = "relay" /\ Good(t)
  BY DEF Relay, TypedInv, GoodInv
<1>2. r \in Connection /\ r.at \in {"relay", "done"} /\ Good(r)
  BY <1>1, FromClientType, FromClientGood
<1>3. Becomes(c, IF r.at = "done" THEN r ELSE FromProxy(r))
  BY DEF Relay
<1> HIDE DEF r
<1>4. r.at # "done" => Good(FromProxy(r))
  BY <1>2, FromProxyGood
<1> QED BY <1>2, <1>3, <1>4, BecomesGood

LEMMA MainGood ==
  ASSUME TypedInv, GoodInv,
         \/ \E p \in Proxies : AddProxy(p)
         \/ \E idx \in DOMAIN proxy_chain : DeleteProxy(idx)
         \/ Listen \/ AcceptFails \/ Terminate
         \/ \E c \in Clients : Accept(c)
  PROVE  GoodInv'
<1>1. CASE UNCHANGED conn
  BY <1>1 DEF GoodInv
<1>2. ASSUME NEW places, "none" \notin places, {"queued"} \cup Blocking \subseteq places,
             Reset(places), NEW c \in Clients
      PROVE  Good(conn'[c])
  <2> DEFINE t  == conn[c]
             at == IF t.at \in places THEN "reset" ELSE t.at
             r  == [t EXCEPT !.at = at, !.open = {}]
  <2>1. t \in Connection /\ Good(t) /\ conn'[c] = r
    BY <1>2 DEF Reset, TypedInv, GoodInv
  <2>2. at \in {"none", "throw", "done", "failed", "reset"}
    BY <1>2, <2>1 DEF Connection, Blocking, Endings
  <2>4. at # "reset" => at = t.at
    OBVIOUS
  <2> HIDE DEF at
  <2>5. /\ r.at = at /\ r.open = {} /\ r.kind = t.kind /\ r.sent = t.sent
        /\ r.up = t.up /\ r.down = t.down /\ r.toProxy = t.toProxy /\ r.toClient = t.toClient
        /\ r.served = t.served /\ r.missed = t.missed
        /\ r.request = t.request /\ r.text = t.text
        /\ r.client = t.client /\ r.proxy = t.proxy
    BY <2>1 DEF Connection
  <2> HIDE DEF r
  <2>6. Good(r)
    BY <2>1, <2>2, <2>4, <2>5 DEF Good, NothingRelayed, InOrder, Passed, CutOff
  <2> QED BY <2>1, <2>6
<1>3. CASE AcceptFails
  BY <1>2, <1>3 DEF AcceptFails, GoodInv, Blocking
<1>4. CASE Terminate
  BY <1>2, <1>4 DEF Terminate, GoodInv, Blocking
<1>5. ASSUME NEW c \in Clients, Accept(c) PROVE GoodInv'
  <2> DEFINE t == conn[c]
  <2>1. t \in Connection /\ NothingRelayed(t) /\ t.up = Segments(0, t.sent)
    BY <1>5 DEF Accept, TypedInv, GoodInv, Good
  <2>2. Good([t EXCEPT !.at = "request"])
    BY <2>1 DEF Good, Connection, NothingRelayed, Endings
  <2> QED BY <1>5, <2>2, BecomesGood DEF Accept
<1> QED BY <1>1, <1>5, <1>3, <1>4 DEF AddProxy, DeleteProxy, Listen

LEMMA BrowseGood ==
  ASSUME TypedInv, GoodInv, NEW c \in Clients, Browse(c) PROVE GoodInv'
<1> DEFINE r == [Unused EXCEPT !.at = "queued", !.client = TRUE]
<1>1. /\ r.at = "queued" /\ r.up = <<>> /\ r.sent = 0 /\ NothingRelayed(r)
  BY DEF Unused, NothingRelayed
<1>2. Good(r)
  <2> HIDE DEF r
  <2> QED BY <1>1, NoSegments DEF Good, Endings
<1> QED BY <1>2, BecomesGood DEF Browse

LEMMA ClientSendsGood ==
  ASSUME TypedInv, GoodInv, NEW c \in Clients, ClientSends(c) PROVE GoodInv'
<1> DEFINE t == conn[c]
           r == [t EXCEPT !.sent = @ + 1, !.up = Append(@, t.sent + 1)]
<1>1. t \in Connection /\ Good(t) /\ t.at \in {"queued"} \cup Blocking /\ Becomes(c, r)
  BY DEF ClientSends, TypedInv, GoodInv, Connected
<1>2. /\ t.sent \in Nat /\ t.up \in Seq(Nat) /\ t.toProxy \in Seq(Nat) /\ t.request \in Nat
      /\ Passed(t) \in Nat
  BY <1>1 DEF Connection, Passed
<1>3. /\ r.at = t.at /\ r.kind = t.kind /\ r.sent = t.sent + 1 /\ r.up = Append(t.up, t.sent + 1)
      /\ r.down = t.down /\ r.toProxy = t.toProxy /\ r.toClient = t.toClient
      /\ r.served = t.served /\ r.missed = t.missed
      /\ r.request = t.request /\ r.text = t.text
  BY <1>1 DEF Connection
<1> HIDE DEF r
<1>4. NothingRelayed(t) => NothingRelayed(r)
  BY <1>3 DEF NothingRelayed
<1>5. CASE t.at \in {"queued", "request"}
  <2>1. r.up = Segments(0, r.sent)
    <3>1. t.up = Segments(0, t.sent) /\ 0 \in Nat /\ 0 <= t.sent
      BY <1>1, <1>2, <1>5 DEF Good
    <3>2. Append(Segments(0, t.sent), t.sent + 1) = Segments(0, t.sent + 1)
      BY <1>2, <3>1, NextSegment
    <3> QED BY <1>3, <3>1, <3>2
  <2> QED BY <1>1, <1>3, <1>4, <1>5, <2>1, BecomesGood DEF Good, Endings
<1>6. CASE t.at \in {"connect", "reply", "target"}
  <2>1. Requested(t) /\ t.request <= t.sent
    BY <1>1, <1>2, <1>6 DEF Good, Requested
  <2>2. r.up = Segments(t.request, r.sent)
    BY <1>2, <1>3, <2>1, NextSegment DEF Requested
  <2>3. Requested(r)
    BY <1>2, <1>3, <1>4, <2>1, <2>2 DEF Requested
  <2> QED BY <1>1, <1>3, <1>6, <2>3, BecomesGood DEF Good, Endings
<1>7. CASE t.at = "relay"
  <2>1. InOrder(t) /\ t.request <= t.sent /\ Passed(r) = Passed(t)
    BY <1>1, <1>2, <1>3, <1>7 DEF Good, InOrder, Passed
  <2> DEFINE p == Segments(0, Passed(t))
             q == Segments(t.request, t.sent)
  <2>2. p \in Seq(Nat) /\ q \in Seq(Nat) /\ t.sent + 1 \in Nat
    <3>1. 0 \in Nat /\ 0 <= Passed(t)
      BY <1>2
    <3>2. p \in Seq(Nat)
      BY <1>2, <3>1, SegmentsType
    <3>3. q \in Seq(Nat)
      BY <1>2, <2>1, SegmentsType
    <3> QED BY <1>2, <3>2, <3>3
  <2>3. Append(q, t.sent + 1) = Segments(t.request, t.sent + 1)
    BY <1>2, <2>1, NextSegment
  <2>4. t.toProxy \o t.up = p \o q
    BY <2>1 DEF InOrder
  <2> HIDE DEF p, q
  <2>5. t.toProxy \o Append(t.up, t.sent + 1) = Append(t.toProxy \o t.up, t.sent + 1)
    BY <1>2, <2>2, AppendBehind
  <2>6. p \o Append(q, t.sent + 1) = Append(p \o q, t.sent + 1)
    BY <2>2, AppendBehind
  <2>7. r.toProxy \o r.up = Segments(0, Passed(r)) \o Segments(r.request, r.sent)
    BY <1>3, <2>1, <2>3, <2>4, <2>5, <2>6 DEF p
  <2>8. InOrder(r)
    <3>1. r.sent >= r.request /\ r.missed <= r.served
      BY <1>2, <1>3, <2>1 DEF InOrder
    <3>2. r.toClient \o r.down = Segments(r.missed, r.served)
      BY <1>3, <2>1 DEF InOrder
    <3> QED BY <2>7, <3>1, <3>2 DEF InOrder
  <2> QED BY <1>1, <1>3, <1>7, <2>8, BecomesGood DEF Good, Endings
<1> QED BY <1>1, <1>5, <1>6, <1>7 DEF Blocking

LEMMA ClosesGood ==
  ASSUME TypedInv, GoodInv, NEW c \in Clients, ClientCloses(c) \/ ProxyCloses(c)
  PROVE  GoodInv'
<1> DEFINE t == conn[c]
<1>1. t \in Connection /\ Good(t) /\ t.at \notin Endings
  BY DEF ClientCloses, ProxyCloses, TypedInv, GoodInv, Connected, Blocking, Endings
<1>2. ASSUME NEW r \in {[t EXCEPT !.client = FALSE], [t EXCEPT !.proxy = FALSE]}
      PROVE  Good(r)
  <2>1. /\ r.at = t.at /\ r.kind = t.kind /\ r.sent = t.sent /\ r.up = t.up
        /\ r.down = t.down /\ r.toProxy = t.toProxy
        /\ r.toClient = t.toClient /\ r.served = t.served /\ r.missed = t.missed
        /\ r.request = t.request /\ r.text = t.text
    BY <1>1, <1>2 DEF Connection
  <2> QED BY <1>1, <2>1
          DEF Good, Requested, NothingRelayed, InOrder, Passed, Endings
<1> QED BY <1>2, BecomesGood DEF ClientCloses, ProxyCloses

LEMMA ProxySendsGood ==
  ASSUME TypedInv, GoodInv, NEW c \in Clients, ProxySends(c) PROVE GoodInv'
<1> DEFINE t == conn[c]
           r == [t EXCEPT !.served = @ + 1, !.down = Append(@, t.served + 1)]
<1>1. t \in Connection /\ Good(t) /\ t.at = "relay" /\ Becomes(c, r)
  BY DEF ProxySends, TypedInv, GoodInv
<1>2. /\ t.served \in Nat /\ t.missed \in Nat /\ t.down \in Seq(Nat) /\ t.toClient \in Seq(Nat)
      /\ InOrder(t)
  BY <1>1 DEF Connection, Good
<1>3. /\ r.at = t.at /\ r.kind = t.kind /\ r.sent = t.sent /\ r.up = t.up
      /\ r.down = Append(t.down, t.served + 1) /\ r.toProxy = t.toProxy
      /\ r.toClient = t.toClient /\ r.served = t.served + 1 /\ r.missed = t.missed
      /\ r.request = t.request /\ r.text = t.text
  BY <1>1 DEF Connection
<1> HIDE DEF r
<1>4. r.toClient \o r.down = Append(t.toClient \o t.down, t.served + 1)
  <2>1. t.served + 1 \in Nat
    BY <1>2
  <2>2. t.toClient \o Append(t.down, t.served + 1) = Append(t.toClient \o t.down, t.served + 1)
    BY <1>2, <2>1, AppendBehind
  <2> QED BY <1>3, <2>2
<1>5. Append(Segments(t.missed, t.served), t.served + 1) = Segments(t.missed, t.served + 1)
  BY <1>2, NextSegment DEF InOrder
<1>6. InOrder(r)
  <2>1. r.sent >= r.request /\ r.missed <= r.served
    BY <1>2, <1>3 DEF InOrder
  <2>2. r.toProxy \o r.up = Segments(0, Passed(r)) \o Segments(r.request, r.sent)
    BY <1>2, <1>3 DEF InOrder, Passed
  <2>3. r.toClient \o r.down = Segments(r.missed, r.served)
    BY <1>2, <1>3, <1>4, <1>5 DEF InOrder
  <2> QED BY <2>1, <2>2, <2>3 DEF InOrder
<1> QED BY <1>1, <1>3, <1>6, BecomesGood DEF Good, Endings

LEMMA InitGood == Init => GoodInv
<1> SUFFICES ASSUME Init, NEW c \in Clients PROVE Good(conn[c])
  BY DEF GoodInv
<1>1. conn[c] = Unused
  BY DEF Init
<1>2. Unused.at = "none" /\ Unused.up = <<>> /\ Unused.sent = 0 /\ NothingRelayed(Unused)
  BY DEF Unused, NothingRelayed
<1> QED BY <1>1, <1>2, NoSegments DEF Good, Endings

LEMMA GoodInvariant == Spec => []GoodInv
<1>1. GoodInv /\ UNCHANGED vars => GoodInv'
  BY DEF GoodInv, vars
<1>2. TypedInv /\ GoodInv /\ [Next]_vars => GoodInv'
  BY <1>1, ReceiveGood, ConnectGood, ReplyGood, TargetReplyGood, RelayGood, MainGood, BrowseGood,
     ClientSendsGood, ClosesGood, ProxySendsGood DEF Next, Thread
<1> QED BY InitGood, <1>2, TypedInvariant, PTL DEF Spec

-----------------------------------------------------------------------------

\* What a thread passes on and what waits make up what each side sent, and what a
\* side sent before it closed its end has been passed on when its relay is over.
THEOREM StreamsAreExact == Spec => []StreamsExact
<1>1. GoodInv => StreamsExact
  <2>1. GoodInv => RelayedInOrder
    BY DEF GoodInv, Good, RelayedInOrder, InOrder, Passed
  <2>2. GoodInv => NothingCutOff
    BY DEF GoodInv, Good, NothingCutOff, CutOff
  <2> QED BY <2>1, <2>2 DEF StreamsExact
<1> QED BY <1>1, GoodInvariant, PTL

\* Every way out of ForwardProxyChain closes the socket it used last.
THEOREM LastSocketIsClosed == Spec => []CurrentSocketClosed
<1>1. GoodInv => CurrentSocketClosed
  BY DEF GoodInv, Good, CurrentSocketClosed
<1> QED BY <1>1, GoodInvariant, PTL

=============================================================================

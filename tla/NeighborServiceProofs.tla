------------------------ MODULE NeighborServiceProofs ------------------------
(* Theorems about NeighborService, for every value of its constants.       *)
EXTENDS NeighborService, SequenceTheorems, FiniteSetTheorems, TLAPS

\* Expanded in every proof, as a list of variables.
USE DEF history

-----------------------------------------------------------------------------
(* Type correctness.                                                       *)

LEMMA RecordedType ==
  ASSUME NEW table \in SUBSET Neighbor, NEW h \in Hello, Parses(h), now \in Nat
  PROVE  Recorded(table, h) \in SUBSET Neighbor
<1>1. h.ip \in Nat /\ h.mac \in Macs
  BY DEF Hello, Parses
<1>2. [ip |-> h.ip, mac |-> h.mac, lastSeen |-> now] \in Neighbor
  BY <1>1 DEF Neighbor
<1>3. \A nb \in table : [nb EXCEPT !.lastSeen = now] \in Neighbor
  BY DEF Neighbor
<1> QED BY <1>2, <1>3 DEF Recorded

LEMMA HellosOfType ==
  ASSUME NEW info \in Seq(Iface)
  PROVE  HellosOf(info) \subseteq Hello
<1>1. \A k \in DOMAIN info : info[k] \in Iface
  BY ElementOfSeq, LenProperties
<1> QED BY <1>1 DEF HellosOf, Iface, Hello

LEMMA MyInfoType ==
  ASSUME NEW info, ifs \in IfaceLists, info = ifs \/ info = <<>>
  PROVE  info \in Seq(Iface)
<1>1. CASE info = ifs
  BY <1>1, IfacesAssumption
<1>2. CASE info = <<>>
  BY <1>2, EmptySeq
<1> QED BY <1>1, <1>2

LEMMA EchoType ==
  ASSUME NEW info \in Seq(Iface), NEW n \in Int, NEW echo \in SeqOf(HellosOf(info), n),
         NEW box \in Seq(Hello)
  PROVE  box \o echo \in Seq(Hello)
<1>1. PICK m \in 0..n : echo \in [1..m -> HellosOf(info)]
  BY DEF SeqOf
<1>2. echo \in [1..m -> Hello]
  BY <1>1, HellosOfType
<1>3. echo \in Seq(Hello)
  BY <1>2, IsASeq, m \in Nat
<1> QED BY <1>3, ConcatProperties


LEMMA InitTyped == Init => TypeOK
  BY IfacesAssumption, TimingAssumption DEF Init, TypeOK, Pcs, NotHeard

LEMMA ReadyType ==
  ASSUME readfds \subseteq {"sock", "unix"}
  PROVE  Ready \subseteq {"sock", "unix"} /\ Cardinality(Ready) \in -1..2
<1>1. Cardinality({}) = 0 /\ Cardinality({"sock"}) = 1 /\ Cardinality({"unix"}) = 1
  BY FS_EmptySet, FS_Singleton
<1>2. Cardinality({"sock"} \cup {"unix"}) = 2
  <2>1. IsFiniteSet({"sock"}) /\ "unix" \notin {"sock"}
    BY FS_Singleton
  <2>2. Cardinality({"sock"} \cup {"unix"}) = Cardinality({"sock"}) + 1
    BY <2>1, FS_AddElement
  <2> QED BY <1>1, <2>2
<1>3. Ready \subseteq {"sock", "unix"}
  BY DEF Ready
<1>4. Ready \in {{}, {"sock"}, {"unix"}, {"sock"} \cup {"unix"}}
  BY <1>3
<1>5. Cardinality(Ready) \in {0, 1, 2}
  BY <1>1, <1>2, <1>4
<1> QED BY <1>3, <1>5

\* A step of the loop that only moves on, or samples the clock or select.
LEMMA LoopTyped ==
  ASSUME TypeOK,
         LoopTop \/ SelectReady \/ SelectTimesOut \/ SelectFails \/ SkipHellos
           \/ NothingToServe \/ AcceptFails
  PROVE  TypeOK'
<1> USE DEF TypeOK, network, clients, daemon, Pcs
<1>1. CASE LoopTop         BY <1>1 DEF LoopTop
<1>2. CASE SelectReady
  BY <1>2, ReadyType DEF SelectReady
<1>3. CASE SelectTimesOut  BY <1>3 DEF SelectTimesOut
<1>4. CASE SelectFails     BY <1>4 DEF SelectFails
<1>5. CASE SkipHellos      BY <1>5 DEF SkipHellos
<1>6. CASE NothingToServe  BY <1>6 DEF NothingToServe
<1>7. CASE AcceptFails     BY <1>7 DEF AcceptFails
<1> QED BY <1>1, <1>2, <1>3, <1>4, <1>5, <1>6, <1>7

LEMMA DieTyped == ASSUME TypeOK, Die PROVE TypeOK'
<1>1. cli' \in [Clients -> {"idle", "waiting", "gone", "answered"}]
  BY DEF TypeOK, Die
<1>2. heard' \in [Macs -> Nat \cup {NotHeard}]
  BY DEF TypeOK, Die
<1> QED BY <1>1, <1>2 DEF TypeOK, Die, Pcs

LEMMA ReceiveTyped == ASSUME TypeOK, Receive PROVE TypeOK'
<1> DEFINE h == Head(inbox)
<1> USE DEF network, clients, daemon
<1>1. CASE rv > 0 /\ "sock" \in readfds /\ inbox # <<>>
  <2>1. h \in Hello /\ Tail(inbox) \in Seq(Hello)
    BY <1>1, HeadTailProperties DEF TypeOK
  <2>2. CASE Accepts(h)
    <3>1. /\ neighbors' = Recorded(neighbors, h)
          /\ heard' = [heard EXCEPT ![h.mac] = clock]
      BY <1>1, <2>2 DEF Receive
    <3>2. neighbors' \in SUBSET Neighbor
      BY <2>1, <2>2, <3>1, RecordedType DEF Accepts, TypeOK
    <3>3. h.mac \in Macs /\ h.ip \in Nat
      BY <2>1, <2>2 DEF Accepts, Parses, Hello
    <3>4. heard' \in [Macs -> Nat \cup {NotHeard}]
      BY <3>1, <3>3 DEF TypeOK
    <3>5. inbox' \in Seq(Hello)
      BY <1>1, <2>1 DEF Receive
    <3> QED BY <3>2, <3>4, <3>5 DEF Receive, TypeOK, Pcs
  <2>3. CASE ~Accepts(h)
    <3>1. inbox' \in Seq(Hello) /\ UNCHANGED <<neighbors, heard>>
      BY <1>1, <2>1, <2>3 DEF Receive
    <3> QED BY <3>1 DEF Receive, TypeOK, Pcs
  <2> QED BY <2>2, <2>3
<1>2. CASE ~(rv > 0 /\ "sock" \in readfds /\ inbox # <<>>)
  BY <1>2 DEF Receive, TypeOK, Pcs
<1> QED BY <1>1, <1>2

LEMMA StepTyped == ASSUME TypeOK, [Next]_vars PROVE TypeOK'
<1> USE DEF TypeOK, network, clients, daemon, Pcs
<1>1. CASE Start
  <2>1. myInfo' = ifs \/ myInfo' = <<>>
    BY <1>1 DEF Start
  <2>2. myInfo' \in Seq(Iface)
    BY <2>1, MyInfoType
  <2> QED BY <1>1, <2>2 DEF Start
<1>2. CASE Receive
  BY <1>2, ReceiveTyped
<1>3. CASE SendHellos
  <2>1. myInfo' \in Seq(Iface)
    <3>1. myInfo' = ifs \/ myInfo' = <<>>
      BY <1>3 DEF SendHellos
    <3> QED BY <3>1, MyInfoType
  <2>2. inbox' \in Seq(Hello)
    <3>1. inbox \in Seq(Hello) /\ MaxInbox - Len(inbox) \in Int
      BY QueuesAssumption
    <3>2. PICK echo \in SeqOf(HellosOf(myInfo'), MaxInbox - Len(inbox)) :
            inbox' = inbox \o echo
      BY <1>3 DEF SendHellos
    <3> QED BY <2>1, <3>1, <3>2, EchoType
  <2> QED BY <1>3, <2>1, <2>2 DEF SendHellos
<1>4. CASE Expire
  BY <1>4 DEF Expire
<1>5. CASE Answer
  <2>1. Head(backlog) \in Clients /\ backlog' \in Seq(Clients)
    BY <1>5, HeadTailProperties DEF Answer
  <2>2. Listing \subseteq Entry
    BY DEF Listing, Neighbor, Entry
  <2>3. /\ cli' \in [Clients -> {"idle", "waiting", "gone", "answered"}]
        /\ reply' \in [Clients -> SUBSET Entry]
    BY <1>5, <2>1, <2>2 DEF Answer
  <2> QED BY <1>5, <2>1, <2>3 DEF Answer
<1>6. CASE BrokenPipe
  BY <1>6, DieTyped DEF BrokenPipe
<1>7. CASE Kill
  BY <1>7, DieTyped DEF Kill
<1>8. CASE Tick
  BY <1>8 DEF Tick
<1>9. CASE IfacesChange
  BY <1>9 DEF IfacesChange
<1>10. ASSUME NEW h \in Datagrams, Arrive(h) PROVE TypeOK'
  <2>1. inbox' \in Seq(Hello)
    BY <1>10, DatagramsAssumption, AppendProperties DEF Arrive
  <2> QED BY <1>10, <2>1 DEF Arrive
<1>11. ASSUME NEW c \in Clients, Connect(c) \/ Abort(c) \/ Display(c) PROVE TypeOK'
  <2>1. cli' \in [Clients -> {"idle", "waiting", "gone", "answered"}]
    BY <1>11 DEF Connect, Abort, Display
  <2>2. CASE Connect(c)
    <3>1. backlog' \in Seq(Clients)
      BY <2>2, AppendProperties DEF Connect
    <3> QED BY <2>1, <2>2, <3>1 DEF Connect
  <2>3. CASE Abort(c)
    BY <2>1, <2>3 DEF Abort
  <2>4. CASE Display(c)
    BY <2>1, <2>4 DEF Display
  <2> QED BY <1>11, <2>2, <2>3, <2>4
<1>12. CASE UNCHANGED vars
  BY <1>12 DEF vars
<1> QED
  BY <1>1, <1>2, <1>3, <1>4, <1>5, <1>6, <1>7, <1>8, <1>9, <1>10, <1>11, <1>12, LoopTyped
  DEF Next, Daemon, Environment

\* Every variable of the daemon, its clients and its sockets keeps its type.
THEOREM TypeCorrect == Spec => []TypeOK
  BY InitTyped, StepTyped, PTL DEF Spec

-----------------------------------------------------------------------------
(* The table has one line for a mac.                                       *)

LEMMA RecordedUnique ==
  ASSUME NEW table, NEW h, \A x, y \in table : x.mac = y.mac => x = y,
         table \subseteq Neighbor
  PROVE  \A x, y \in Recorded(table, h) : x.mac = y.mac => x = y
<1>1. CASE \E nb \in table : nb.mac = h.mac
  <2> DEFINE Renew(nb) == IF nb.mac = h.mac THEN [nb EXCEPT !.lastSeen = now] ELSE nb
  <2>1. \A nb \in table : Renew(nb).mac = nb.mac
    BY DEF Neighbor
  <2>2. Recorded(table, h) = {Renew(nb) : nb \in table}
    BY <1>1 DEF Recorded
  <2> HIDE DEF Renew
  <2> QED BY <2>1, <2>2
<1>2. CASE ~\E nb \in table : nb.mac = h.mac
  BY <1>2 DEF Recorded
<1> QED BY <1>1, <1>2

\* Whatever the other parties do, receive_hello never adds a second line for a
\* neighbour it knows.
THEOREM UniqueEntries == Spec => []OneEntryPerMac
<1>1. Init => OneEntryPerMac
  BY DEF Init, OneEntryPerMac
<1>2. TypeOK /\ OneEntryPerMac /\ [Next]_vars => OneEntryPerMac'
  <2> SUFFICES ASSUME TypeOK, OneEntryPerMac, [Next]_vars
               PROVE  OneEntryPerMac'
    OBVIOUS
  <2> USE DEF OneEntryPerMac, daemon
  <2>1. CASE Receive
    BY <2>1, RecordedUnique DEF Receive, TypeOK
  <2>2. CASE Start \/ Expire \/ BrokenPipe \/ Kill
    BY <2>2 DEF Start, Expire, BrokenPipe, Kill, Die
  <2>3. CASE UNCHANGED neighbors
    BY <2>3
  <2> QED
    BY <2>1, <2>2, <2>3
    DEF Next, vars, Daemon, Environment, LoopTop, SelectReady, SelectTimesOut, SelectFails,
        SendHellos, SkipHellos, NothingToServe, AcceptFails, Answer, Tick,
        IfacesChange, Arrive, Connect, Abort, Display
<1> QED BY <1>1, <1>2, TypeCorrect, PTL DEF Spec

\* The stamps are never ahead of the loop's time, nor that of the clock.
StampsPast ==
  /\ now <= clock
  /\ \A nb \in neighbors : nb.lastSeen <= now

LEMMA RecordedRenews ==
  ASSUME NEW table \in SUBSET Neighbor, NEW h \in Hello, Parses(h), now \in Nat,
         \A a, b \in table : a.mac = b.mac => a = b,
         \A nb \in table : nb.lastSeen <= now,
         NEW nb \in table, NEW new \in Recorded(table, h), new.mac = nb.mac
  PROVE  new.ip = nb.ip /\ new.lastSeen >= nb.lastSeen
<1>1. nb.lastSeen \in Nat /\ nb.lastSeen <= now
  BY DEF Neighbor
<1>2. CASE \E old \in table : old.mac = h.mac
  <2>1. PICK old \in table :
          new = IF old.mac = h.mac THEN [old EXCEPT !.lastSeen = now] ELSE old
    BY <1>2 DEF Recorded
  <2>2. new.mac = old.mac /\ new.ip = old.ip /\ new.lastSeen \in {old.lastSeen, now}
    BY <2>1 DEF Neighbor
  <2>3. old = nb
    BY <2>2
  <2> QED BY <1>1, <2>2, <2>3
<1>3. CASE ~\E old \in table : old.mac = h.mac
  <2>1. new \in table
    BY <1>3 DEF Recorded
  <2>2. new = nb
    BY <2>1
  <2> QED BY <1>1, <2>2
<1> QED BY <1>2, <1>3

LEMMA PastInit == Init => StampsPast
  BY TimingAssumption DEF Init, StampsPast

LEMMA PastStep == ASSUME TypeOK, StampsPast, [Next]_vars PROVE StampsPast'
<1> USE DEF StampsPast, daemon
<1>1. CASE Receive
  <2> DEFINE h == Head(inbox)
  <2>1. now' = now /\ clock' = clock
    BY <1>1 DEF Receive
  <2>2. CASE UNCHANGED neighbors
    BY <2>1, <2>2
  <2>3. CASE neighbors' = Recorded(neighbors, h)
    <3>1. \A nb \in neighbors' : nb \in neighbors \/ nb.lastSeen = now
      BY <2>3 DEF Recorded, TypeOK, Neighbor
    <3> QED BY <2>1, <3>1 DEF TypeOK
  <2> QED BY <1>1, <2>2, <2>3 DEF Receive
<1>2. CASE Start \/ LoopTop
  <2>1. now' = clock /\ clock' = clock /\ clock \in Nat /\ now \in Nat
    BY <1>2 DEF Start, LoopTop, TypeOK
  <2>2. neighbors' \subseteq neighbors /\ \A nb \in neighbors : nb.lastSeen \in Nat
    BY <1>2 DEF Start, LoopTop, TypeOK, Neighbor
  <2> QED BY <2>1, <2>2
<1>3. CASE BrokenPipe \/ Kill
  BY <1>3 DEF BrokenPipe, Kill, Die, TypeOK
<1>4. CASE Expire
  BY <1>4 DEF Expire
<1>5. CASE Tick
  BY <1>5 DEF Tick, TypeOK
<1>6. CASE UNCHANGED <<clock, now, neighbors>>
  BY <1>6
<1> QED
  BY <1>1, <1>2, <1>3, <1>4, <1>5, <1>6
  DEF Next, vars, Daemon, Environment, SelectReady, SelectTimesOut, SelectFails,
      SendHellos, SkipHellos, NothingToServe, AcceptFails, Answer,
      IfacesChange, Arrive, Connect, Abort, Display, network

\* A neighbour that moves stays listed with its old address, and no line ages
\* backwards, for any HELLOs and any failures.
THEOREM LinesAreRenewed == Spec => LinesOnlyRenewed
<1> DEFINE Renewed ==
      \A nb \in neighbors, new \in neighbors' :
        new.mac = nb.mac => new.ip = nb.ip /\ new.lastSeen >= nb.lastSeen
<1>1. TypeOK /\ OneEntryPerMac /\ StampsPast /\ [Next]_vars => [Renewed]_vars
  <2> SUFFICES ASSUME TypeOK, OneEntryPerMac, StampsPast, Next
               PROVE  Renewed
    BY DEF vars
  <2>1. \A nb \in neighbors : nb.lastSeen \in Nat
    BY DEF TypeOK, Neighbor
  <2>2. CASE neighbors' \subseteq neighbors
    BY <2>1, <2>2 DEF OneEntryPerMac
  <2>3. CASE /\ inbox # <<>> /\ Accepts(Head(inbox))
             /\ neighbors' = Recorded(neighbors, Head(inbox))
    <3>1. Head(inbox) \in Hello /\ Parses(Head(inbox))
      BY <2>3, HeadTailProperties DEF TypeOK, Accepts
    <3>2. /\ neighbors \in SUBSET Neighbor /\ now \in Nat
          /\ \A a, b \in neighbors : a.mac = b.mac => a = b
          /\ \A nb \in neighbors : nb.lastSeen <= now
      BY DEF TypeOK, OneEntryPerMac, StampsPast
    <3> QED BY <2>3, <3>1, <3>2, RecordedRenews
  <2> QED
    BY <2>2, <2>3
    DEF Next, Daemon, Environment, Start, LoopTop, SelectReady, SelectTimesOut, SelectFails,
        Receive, SendHellos, SkipHellos, Expire, NothingToServe, AcceptFails, Answer,
        BrokenPipe, Kill, Die, Tick, IfacesChange, Arrive, Connect, Abort, Display, daemon
<1>2. Spec => []StampsPast
  BY PastInit, PastStep, TypeCorrect, PTL DEF Spec
<1> QED BY <1>1, <1>2, TypeCorrect, UniqueEntries, PTL DEF Spec, LinesOnlyRenewed

-----------------------------------------------------------------------------
(* Timing.  The invariants below are inductive together.                   *)

\* select reported the UNIX socket, and nobody but the loop takes a client off
\* its queue.
BacklogReady ==
  pc \in {"recv", "hello", "expire", "serve"} /\ "unix" \in readfds => backlog # <<>>

\* The time the loop works with is at most one iteration old.
FreshNow == Running => StartTime <= now /\ now <= clock /\ clock - now <= MaxIter

\* Its time stamps are late by at most that much.
StampsInTime ==
  \A nb \in neighbors :
    /\ nb.lastSeen <= now
    /\ heard[nb.mac] # NotHeard
    /\ nb.lastSeen <= heard[nb.mac] /\ heard[nb.mac] <= nb.lastSeen + MaxIter

Swept == pc = "serve" => \A nb \in neighbors : now - nb.lastSeen <= TIMEOUT

\* Where the loop stands with its next HELLO.
HelloOnTime ==
  /\ last_hello <= now
  /\ Running /\ last_hello # 0 => now - last_hello < BROADCAST_INTERVAL + MaxIter
  /\ pc \in {"top", "expire", "serve"} /\ last_hello # 0 =>
       now - last_hello < BROADCAST_INTERVAL
  /\ pc \in {"expire", "serve"} => last_hello # 0
  /\ last_hello # 0 /\ HellosOf(myInfo) # {} => sent # NotHeard /\ last_hello <= sent

NotHeardWhenDown == ~Running => \A m \in Macs : heard[m] = NotHeard

IInv ==
  /\ BacklogReady /\ FreshNow /\ StampsInTime /\ Swept /\ HelloOnTime
  /\ StartTime <= clock
  /\ \A m \in Macs : heard[m] <= clock
  /\ NotHeardWhenDown
  /\ KnownUntilTimeout

\* The two are expanded in every proof below.
USE DEF NotHeardWhenDown, Running

LEMMA InitInv == Init => IInv
  BY TimingAssumption
  DEF Init, IInv, BacklogReady, FreshNow, Running, StampsInTime, Swept, HelloOnTime,
      KnownUntilTimeout, NotHeard

\* Steps that leave the loop's time, table and history alone, and take no
\* client from the queue.
LEMMA FrameInv ==
  ASSUME IInv, UNCHANGED <<clock, pc, now, last_hello, readfds, neighbors, myInfo, history>>,
         backlog # <<>> => backlog' # <<>>
  PROVE  IInv'
  BY DEF IInv, BacklogReady, FreshNow, Running, StampsInTime, Swept, HelloOnTime,
         KnownUntilTimeout

LEMMA DieInv == ASSUME TypeOK, IInv, Die PROVE IInv'
<1>1. clock' = clock /\ clock \in Nat /\ StartTime <= clock'
  BY DEF Die, TypeOK, IInv
<1>2. \A m \in Macs : heard'[m] = NotHeard
  BY DEF Die
<1> QED
  BY <1>1, <1>2 DEF Die, IInv, BacklogReady, FreshNow, Running, StampsInTime, Swept,
      HelloOnTime, KnownUntilTimeout, NotHeard

LEMMA StartInv == ASSUME TypeOK, IInv, Start PROVE IInv'
<1>1. UNCHANGED <<clock, heard>> /\ clock \in Nat /\ now' = clock /\ last_hello' = 0
  BY DEF Start, TypeOK
<1>2. BacklogReady' /\ Swept' /\ StampsInTime'
  BY DEF Start, BacklogReady, Swept, StampsInTime
<1>3. FreshNow' /\ HelloOnTime'
  BY <1>1, TimingAssumption DEF Start, FreshNow, HelloOnTime, IInv
<1>4. \A m \in Macs : heard[m] = NotHeard
  BY DEF Start, IInv
<1>5. KnownUntilTimeout'
  BY <1>1, <1>4 DEF KnownUntilTimeout
<1> QED BY <1>1, <1>2, <1>3, <1>4, <1>5 DEF IInv, Start

LEMMA LoopTopInv == ASSUME TypeOK, IInv, LoopTop PROVE IInv'
<1> USE DEF TypeOK, LoopTop, clients, Running
<1>1. /\ now' = clock /\ now <= clock /\ clock - now <= MaxIter /\ MaxIter \in Nat
      /\ UNCHANGED <<clock, backlog, history, last_hello, neighbors, myInfo>>
      /\ pc' = "select" /\ pc = "top" /\ StartTime \in Nat
  BY TimingAssumption DEF IInv, FreshNow
<1>2. BacklogReady' /\ Swept' /\ KnownUntilTimeout'
  BY <1>1 DEF IInv, BacklogReady, Swept, KnownUntilTimeout
<1>3. FreshNow'
  BY <1>1 DEF IInv, FreshNow
<1>4. StampsInTime'
  <2>1. \A nb \in neighbors : nb.lastSeen \in Nat
    BY DEF Neighbor
  <2> QED BY <1>1, <2>1 DEF IInv, StampsInTime
<1>5. HelloOnTime'
  BY <1>1, TimingAssumption DEF IInv, HelloOnTime
<1> QED BY <1>1, <1>2, <1>3, <1>4, <1>5 DEF IInv

LEMMA SelectInv ==
  ASSUME IInv, "select" \notin Faults, SelectReady \/ SelectTimesOut \/ SelectFails
  PROVE  IInv'
<1>1. /\ pc = "select" /\ pc' = "recv"
      /\ UNCHANGED <<clock, now, last_hello, neighbors, myInfo, history, backlog>>
      /\ readfds' = Ready \/ readfds' = {}
  BY DEF SelectReady, SelectTimesOut, SelectFails, clients
<1>2. BacklogReady'
  BY <1>1 DEF BacklogReady, Ready
<1>3. FreshNow' /\ StampsInTime' /\ Swept' /\ HelloOnTime' /\ KnownUntilTimeout'
  BY <1>1 DEF IInv, FreshNow, Running, StampsInTime, Swept, HelloOnTime, KnownUntilTimeout
<1> QED BY <1>1, <1>2, <1>3 DEF IInv

LEMMA ReceiveInv == ASSUME TypeOK, IInv, Receive PROVE IInv'
<1> DEFINE h == Head(inbox)
<1>1. /\ pc = "recv" /\ pc' = "hello"
      /\ UNCHANGED <<clock, now, last_hello, readfds, backlog, myInfo, sent>>
  BY DEF Receive, clients
<1>2. BacklogReady' /\ FreshNow' /\ Swept' /\ HelloOnTime'
  BY <1>1 DEF IInv, BacklogReady, FreshNow, Running, Swept, HelloOnTime
<1>3. CASE UNCHANGED <<neighbors, heard>>
  BY <1>1, <1>2, <1>3 DEF IInv, StampsInTime, KnownUntilTimeout
<1>4. CASE /\ inbox # <<>> /\ Accepts(h)
           /\ neighbors' = Recorded(neighbors, h)
           /\ heard' = [heard EXCEPT ![h.mac] = clock]
  <2>1. h \in Hello
    BY <1>4, HeadTailProperties DEF TypeOK
  <2>2. h.mac \in Macs
    BY <1>4, <2>1 DEF Accepts, Parses, Hello
  <2>3. /\ heard'[h.mac] = clock
        /\ \A m \in Macs : m # h.mac => heard'[m] = heard[m]
    BY <1>4, <2>2 DEF TypeOK
  <2>4. /\ clock \in Nat /\ now \in Nat /\ MaxIter \in Nat
        /\ now <= clock /\ clock <= now + MaxIter
    BY <1>1, TimingAssumption DEF TypeOK, IInv, FreshNow, Running
  <2>5. \A nb \in neighbors' :
           \/ nb.mac = h.mac /\ nb.lastSeen = now
           \/ nb.mac # h.mac /\ nb \in neighbors
    BY <1>4 DEF Recorded, TypeOK, Neighbor
  <2>6. \E nb \in neighbors' : nb.mac = h.mac
    <3>1. CASE \E nb \in neighbors : nb.mac = h.mac
      <4>1. PICK nb \in neighbors : nb.mac = h.mac
        BY <3>1
      <4>2. [nb EXCEPT !.lastSeen = now] \in neighbors'
        BY <1>4, <3>1, <4>1 DEF Recorded
      <4> QED BY <4>1, <4>2 DEF TypeOK, Neighbor
    <3>2. CASE ~\E nb \in neighbors : nb.mac = h.mac
      <4>1. [ip |-> h.ip, mac |-> h.mac, lastSeen |-> now] \in neighbors'
        BY <1>4, <3>2 DEF Recorded
      <4> QED BY <4>1
    <3> QED BY <3>1, <3>2
  <2>7. \A nb \in neighbors : nb.mac # h.mac => nb \in neighbors'
    <3> TAKE nb \in neighbors
    <3> HAVE nb.mac # h.mac
    <3> QED BY <1>4 DEF Recorded
  <2>8. StampsInTime'
    <3> SUFFICES ASSUME NEW nb \in neighbors'
                 PROVE  /\ nb.lastSeen <= now /\ heard'[nb.mac] # NotHeard
                        /\ nb.lastSeen <= heard'[nb.mac]
                        /\ heard'[nb.mac] <= nb.lastSeen + MaxIter
      BY <1>1 DEF StampsInTime
    <3>1. CASE nb.mac = h.mac /\ nb.lastSeen = now
      BY <2>3, <2>4, <3>1 DEF NotHeard
    <3>2. CASE nb.mac # h.mac /\ nb \in neighbors
      BY <2>3, <3>2 DEF IInv, StampsInTime, TypeOK, Neighbor
    <3> QED BY <2>5, <3>1, <3>2
  <2>9. KnownUntilTimeout'
    <3> SUFFICES ASSUME NEW m \in Macs, heard'[m] # NotHeard,
                        clock - heard'[m] <= TIMEOUT - MaxIter
                 PROVE  \E nb \in neighbors' : nb.mac = m
      BY <1>1 DEF KnownUntilTimeout
    <3>1. CASE m = h.mac
      BY <2>6, <3>1
    <3>2. CASE m # h.mac
      BY <2>3, <2>7, <3>2 DEF IInv, KnownUntilTimeout
    <3> QED BY <3>1, <3>2
  <2>10. \A m \in Macs : heard'[m] <= clock'
    BY <1>1, <2>3, <2>4 DEF IInv
  <2> QED BY <1>1, <1>2, <2>8, <2>9, <2>10 DEF IInv
<1> QED BY <1>3, <1>4 DEF Receive

LEMMA HelloInv == ASSUME TypeOK, IInv, SendHellos \/ SkipHellos PROVE IInv'
<1>1. /\ pc = "hello" /\ pc' = "expire"
      /\ UNCHANGED <<clock, now, readfds, neighbors, heard, backlog>>
      /\ \/ last_hello' = now /\ (HellosOf(myInfo') # {} => sent' = clock)
         \/ /\ UNCHANGED <<last_hello, myInfo, sent>>
            /\ now - last_hello < BROADCAST_INTERVAL
  BY TimingAssumption
  DEF SendHellos, SkipHellos, HelloDue, clients, daemon, TypeOK
<1>2. BacklogReady' /\ FreshNow' /\ StampsInTime' /\ Swept' /\ KnownUntilTimeout'
  BY <1>1 DEF IInv, BacklogReady, FreshNow, Running, StampsInTime, Swept, KnownUntilTimeout
<1>3. StartTime <= now /\ now <= clock /\ clock \in Nat /\ clock # NotHeard
  BY <1>1 DEF IInv, FreshNow, Running, NotHeard, TypeOK
<1>4. HelloOnTime'
  BY <1>1, <1>3, TimingAssumption DEF IInv, HelloOnTime, TypeOK
<1> QED BY <1>1, <1>2, <1>4 DEF IInv

LEMMA ExpireInv == ASSUME TypeOK, IInv, Expire PROVE IInv'
<1>1. /\ pc = "expire" /\ pc' = "serve"
      /\ UNCHANGED <<clock, now, last_hello, readfds, history, backlog, myInfo>>
      /\ neighbors' = {nb \in neighbors : ~Expired(nb)}
  BY DEF Expire, clients
<1>2. BacklogReady' /\ FreshNow' /\ HelloOnTime' /\ StampsInTime'
  BY <1>1 DEF IInv, BacklogReady, FreshNow, Running, HelloOnTime, StampsInTime
<1>3. \A nb \in neighbors : nb.lastSeen \in Nat /\ nb.mac \in Macs
  BY DEF TypeOK, Neighbor
<1>4. Swept'
  BY <1>1, <1>3, TimingAssumption DEF Swept, Expired, TypeOK
<1>5. KnownUntilTimeout'
  <2> SUFFICES ASSUME NEW m \in Macs, heard[m] # NotHeard,
                      clock - heard[m] <= TIMEOUT - MaxIter
               PROVE  \E nb \in neighbors' : nb.mac = m
    BY <1>1 DEF KnownUntilTimeout
  <2>1. PICK nb \in neighbors : nb.mac = m
    BY DEF IInv, KnownUntilTimeout
  <2>2. heard[m] <= nb.lastSeen + MaxIter
    BY <2>1 DEF IInv, StampsInTime
  <2>3. now <= clock /\ heard[m] \in Int
    BY <1>1 DEF IInv, FreshNow, Running, TypeOK, NotHeard
  <2>4. ~Expired(nb)
    BY <1>3, <2>2, <2>3, TimingAssumption DEF Expired, TypeOK
  <2> QED BY <1>1, <2>1, <2>4
<1> QED BY <1>1, <1>2, <1>4, <1>5 DEF IInv

\* The end of an iteration; for Answer the queue may become empty.
LEMMA ServeInv ==
  ASSUME IInv, NothingToServe \/ AcceptFails \/ Answer
  PROVE  IInv'
<1>1. /\ pc = "serve" /\ pc' = "top"
      /\ UNCHANGED <<clock, now, last_hello, neighbors, myInfo, history>>
  BY DEF NothingToServe, AcceptFails, Answer, daemon
<1> QED
  BY <1>1 DEF IInv, BacklogReady, FreshNow, Running, StampsInTime, Swept, HelloOnTime,
              KnownUntilTimeout

\* Time passes only while the current iteration is short of MaxIter seconds,
\* because accept does not block.
LEMMA TickInv == ASSUME TypeOK, IInv, Tick PROVE IInv'
<1>1. /\ clock' = clock + 1 /\ clock \in Nat
      /\ UNCHANGED <<backlog, pc, now, last_hello, readfds, neighbors, myInfo, history>>
  BY DEF Tick, TypeOK, clients, daemon
<1>2. ~Blocked
  BY DEF IInv, BacklogReady, Blocked
<1>3. FreshNow'
  BY <1>1, <1>2, TimingAssumption DEF Tick, IInv, FreshNow, Running, TypeOK
<1>4. BacklogReady' /\ StampsInTime' /\ Swept' /\ HelloOnTime'
  BY <1>1 DEF IInv, BacklogReady, StampsInTime, Swept, HelloOnTime, Running
<1>5. \A m \in Macs : heard[m] \in Int
  BY DEF TypeOK, NotHeard
<1>6. KnownUntilTimeout'
  BY <1>1, <1>5, TimingAssumption DEF IInv, KnownUntilTimeout
<1>7. (\A m \in Macs : heard[m] <= clock)' /\ StartTime <= clock'
  BY <1>1, <1>5, TimingAssumption DEF IInv
<1> QED BY <1>1, <1>3, <1>4, <1>6, <1>7 DEF IInv

LEMMA StepInv ==
  ASSUME TypeOK, IInv, "select" \notin Faults, [Next]_vars
  PROVE  IInv'
<1>1. CASE Start
  BY <1>1, StartInv
<1>2. CASE Daemon
  <2>1. CASE BrokenPipe
    BY <2>1, DieInv DEF BrokenPipe
  <2> QED BY <1>2, <2>1, LoopTopInv, SelectInv, ReceiveInv, HelloInv, ExpireInv, ServeInv DEF Daemon
<1>3. CASE Tick
  BY <1>3, TickInv
<1>4. CASE Kill
  BY <1>4, DieInv DEF Kill
<1>5. CASE IfacesChange \/ \E h \in Datagrams : Arrive(h)
  BY <1>5, FrameInv DEF IfacesChange, Arrive, clients, daemon
<1>6. ASSUME NEW c \in Clients, Connect(c) \/ Abort(c) \/ Display(c) PROVE IInv'
  <2>1. UNCHANGED <<clock, pc, now, last_hello, readfds, neighbors, myInfo, history>>
    BY <1>6 DEF Connect, Abort, Display, daemon
  <2>2. backlog # <<>> => backlog' # <<>>
    <3>1. CASE Connect(c)
      <4>1. backlog' \in Seq(Clients) /\ Len(backlog') = Len(backlog) + 1
        BY <3>1, AppendProperties DEF Connect, TypeOK
      <4>2. Len(backlog) \in Nat
        BY LenProperties DEF TypeOK
      <4> QED BY <4>1, <4>2, EmptySeq
    <3>2. CASE Abort(c) \/ Display(c)
      BY <3>2 DEF Abort, Display
    <3> QED BY <1>6, <3>1, <3>2
  <2> QED BY <2>1, <2>2, FrameInv
<1>7. CASE UNCHANGED vars
  BY <1>7, FrameInv DEF vars, clients, daemon
<1> QED BY <1>1, <1>2, <1>3, <1>4, <1>5, <1>6, <1>7 DEF Next, Environment

LEMMA Invariance == ASSUME "select" \notin Faults PROVE Spec => []IInv
  BY InitInv, StepInv, TypeCorrect, PTL DEF Spec

\* While select does not fail, accept finds a client whenever the loop calls it:
\* a client that dies in the queue stays in it until it is accepted.
THEOREM AcceptNeverBlocks == ASSUME "select" \notin Faults PROVE Spec => []NeverBlocked
<1>1. IInv => NeverBlocked
  BY DEF IInv, BacklogReady, NeverBlocked, Blocked
<1> QED BY <1>1, Invariance, PTL

\* A neighbour does not drop out of the table before TIMEOUT - MaxIter seconds
\* of silence.
THEOREM KnownNeighbors == ASSUME "select" \notin Faults PROVE Spec => []KnownUntilTimeout
<1>1. IInv => KnownUntilTimeout
  BY DEF IInv
<1> QED BY <1>1, Invariance, PTL

\* HELLOs leave the host often enough, from the first iteration on, as long as the
\* looks at its interfaces find one; and these come often enough whatever they find.
THEOREM HellosOnTime == ASSUME "select" \notin Faults PROVE Spec => []HelloCadence
<1>1. TypeOK /\ IInv => HelloCadence
  <2> SUFFICES ASSUME TypeOK, IInv PROVE HelloCadence
    OBVIOUS
  <2> QED BY TimingAssumption
          DEF IInv, FreshNow, Running, HelloOnTime, HelloCadence, TypeOK
<1> QED BY <1>1, Invariance, TypeCorrect, PTL

-----------------------------------------------------------------------------
(* What clients are told.                                                  *)

\* Only Answer turns a waiting client into an answered one.
LEMMA OnlyAnswerAnswers ==
  ASSUME TypeOK, [Next]_vars, NEW c \in Clients, cli[c] = "waiting", cli'[c] = "answered"
  PROVE  Answer /\ c = Head(backlog)
<1> USE DEF clients, daemon, network
<1>1. CASE Answer
  BY <1>1, HeadTailProperties DEF Answer, TypeOK
<1>2. CASE BrokenPipe \/ Kill
  BY <1>2 DEF BrokenPipe, Kill, Die
<1>3. CASE \E d \in Clients : Connect(d) \/ Abort(d) \/ Display(d)
  BY <1>3 DEF Connect, Abort, Display, TypeOK
<1>4. CASE UNCHANGED cli
  BY <1>4
<1> QED
  BY <1>1, <1>2, <1>3, <1>4
  DEF Next, vars, Daemon, Environment, Start, LoopTop, SelectReady, SelectTimesOut,
      SelectFails, Receive, SendHellos, SkipHellos, Expire, NothingToServe,
      AcceptFails, Tick, IfacesChange, Arrive

\* The line of a neighbour in an answer is of somebody heard recently, and
\* everybody heard recently has one.
LEMMA ListingSound ==
  ASSUME TypeOK, IInv, pc = "serve"
  PROVE  /\ \A e \in Listing :
              /\ e.mac \in Macs /\ heard[e.mac] # NotHeard
              /\ clock - heard[e.mac] <= TIMEOUT + MaxIter
         /\ \A m \in Macs :
              heard[m] # NotHeard /\ clock - heard[m] <= TIMEOUT - MaxIter
                => \E e \in Listing : e.mac = m
<1>1. \A nb \in neighbors :
         /\ nb.mac \in Macs /\ heard[nb.mac] # NotHeard
         /\ clock - heard[nb.mac] <= TIMEOUT + MaxIter
  <2> TAKE nb \in neighbors
  <2>1. nb.mac \in Macs /\ nb.lastSeen \in Nat
    BY DEF TypeOK, Neighbor
  <2>2. heard[nb.mac] # NotHeard /\ nb.lastSeen <= heard[nb.mac]
    BY DEF IInv, StampsInTime
  <2>3. heard[nb.mac] \in Nat /\ clock \in Nat /\ now \in Nat
    BY <2>1, <2>2 DEF TypeOK
  <2>4. now - nb.lastSeen <= TIMEOUT /\ clock - now <= MaxIter
    BY DEF IInv, Swept, FreshNow
  <2> QED BY <2>1, <2>2, <2>3, <2>4, TimingAssumption
<1>2. \A e \in Listing : \E nb \in neighbors : e.mac = nb.mac
  BY DEF Listing
<1>3. \A nb \in neighbors : \E e \in Listing : e.mac = nb.mac
  <2> TAKE nb \in neighbors
  <2>1. [ip |-> nb.ip, mac |-> nb.mac] \in Listing
    BY DEF Listing
  <2> QED BY <2>1
<1> QED BY <1>1, <1>2, <1>3 DEF IInv, KnownUntilTimeout

LEMMA AnswerWrites ==
  ASSUME TypeOK, Answer
  PROVE  /\ Head(backlog) \in Clients
         /\ reply' = [reply EXCEPT ![Head(backlog)] = Listing]
         /\ cli' = [cli EXCEPT ![Head(backlog)] = "answered"]
         /\ cli[Head(backlog)] = "waiting"
         /\ UNCHANGED <<clock, heard>> /\ pc = "serve"
  BY HeadTailProperties DEF Answer, TypeOK

\* An answer never lists a neighbour silent for more than TIMEOUT + MaxIter
\* seconds.
THEOREM FreshReplies == ASSUME "select" \notin Faults PROVE Spec => RepliesAreFresh
<1> DEFINE P == \A c \in Clients : cli[c] = "waiting" /\ cli'[c] = "answered" =>
                  \A e \in reply'[c] : clock - heard[e.mac] <= TIMEOUT + MaxIter
<1>1. TypeOK /\ IInv /\ [Next]_vars => P
  <2> SUFFICES ASSUME TypeOK, IInv, [Next]_vars, NEW c \in Clients,
                      cli[c] = "waiting", cli'[c] = "answered"
               PROVE  \A e \in reply'[c] : clock - heard[e.mac] <= TIMEOUT + MaxIter
    OBVIOUS
  <2>1. Answer /\ c = Head(backlog)
    BY OnlyAnswerAnswers
  <2>2. reply'[c] = Listing /\ pc = "serve"
    BY <2>1, AnswerWrites DEF TypeOK
  <2> QED BY <2>2, ListingSound
<1>2. P => [P]_vars
  OBVIOUS
<1> HIDE DEF P
<1>3. Spec => [][P]_vars
  BY <1>1, <1>2, TypeCorrect, Invariance, PTL DEF Spec
<1> QED BY <1>3 DEF RepliesAreFresh, P

-----------------------------------------------------------------------------
(* The daemon implements NeighborDirectory.                                *)

Asking   == {c \in Clients : cli[c] = "waiting"}
Answered == [c \in Clients |-> {e.mac : e \in reply[c]}]

LEMMA DirectoryInit == Init => Directory!Init
<1> SUFFICES ASSUME Init PROVE Directory!Init
  OBVIOUS
<1>1. Asking = {}
  BY DEF Init, Asking
<1>2. Answered = [c \in Clients |-> {}]
  BY DEF Init, Answered
<1> QED BY <1>1, <1>2, TimingAssumption DEF Init, Directory!Init, Asking, Answered

LEMMA DirectoryAnswer ==
  ASSUME TypeOK, IInv, Answer
  PROVE  \E c \in Clients, S \in SUBSET Macs : Directory!Tell(c, S)
<1> DEFINE c == Head(backlog)
           S == {e.mac : e \in Listing}
<1>1. c \in Clients /\ cli[c] = "waiting" /\ UNCHANGED <<clock, heard>> /\ pc = "serve"
  BY AnswerWrites
<1>2. S \in SUBSET Macs
  BY <1>1, ListingSound
<1>3. Asking' = Asking \ {c}
  BY AnswerWrites DEF Asking, TypeOK
<1>4. Answered' = [Answered EXCEPT ![c] = S]
  BY AnswerWrites DEF Answered, TypeOK
<1>5. Directory!HeardWithin(TIMEOUT - MaxIter) \subseteq S
  BY <1>1, ListingSound DEF Directory!HeardWithin
<1>6. S \subseteq Directory!HeardWithin(TIMEOUT + MaxIter)
  BY <1>1, ListingSound DEF Directory!HeardWithin
<1>7. c \in Asking
  BY <1>1 DEF Asking
<1> HIDE DEF c, S
<1> QED
  BY <1>1, <1>2, <1>3, <1>4, <1>5, <1>6, <1>7 DEF Directory!Tell, Asking, Answered

LEMMA DirectoryDie == ASSUME Die PROVE Directory!Restart
<1>1. Asking' = {}
  BY DEF Die, Asking
<1>2. Answered' = Answered
  BY DEF Die, Answered
<1> QED BY <1>1, <1>2 DEF Die, Directory!Restart, Asking, Answered

LEMMA DirectoryStep ==
  ASSUME TypeOK, IInv, [Next]_vars
  PROVE  [Directory!Next]_(Directory!vars)
<1> USE DEF Directory!Next
<1>1. CASE Answer
  BY <1>1, DirectoryAnswer
<1>2. CASE BrokenPipe \/ Kill
  BY <1>2, DirectoryDie DEF BrokenPipe, Kill
<1>3. CASE Tick
  <2>1. Asking' = Asking /\ Answered' = Answered
    BY <1>3 DEF Tick, Asking, Answered, clients
  <2> QED BY <1>3, <2>1 DEF Tick, Directory!Tick, Asking, Answered
<1>4. CASE Receive
  <2>1. Asking' = Asking /\ Answered' = Answered /\ clock' = clock
    BY <1>4 DEF Receive, Asking, Answered, clients
  <2>2. CASE heard' = heard
    BY <2>1, <2>2 DEF Directory!vars, Asking, Answered
  <2>3. CASE heard' # heard
    <3>1. /\ inbox # <<>> /\ Accepts(Head(inbox))
          /\ heard' = [heard EXCEPT ![Head(inbox).mac] = clock]
      BY <1>4, <2>3 DEF Receive
    <3>2. Head(inbox).mac \in Macs
      <4>1. Head(inbox) \in Hello
        BY <3>1, HeadTailProperties DEF TypeOK
      <4> QED BY <3>1, <4>1 DEF Accepts, Parses, Hello
    <3>3. Directory!Hear(Head(inbox).mac)
      BY <2>1, <3>1 DEF Directory!Hear, Asking, Answered
    <3> QED BY <3>2, <3>3
  <2> QED BY <2>2, <2>3
<1>5. ASSUME NEW c \in Clients, Connect(c) \/ Abort(c) \/ Display(c)
      PROVE  [Directory!Next]_(Directory!vars)
  <2>1. Answered' = Answered /\ UNCHANGED <<clock, heard>>
    BY <1>5 DEF Connect, Abort, Display, Answered
  <2>2. CASE Connect(c)
    <3>1. Asking' = Asking \cup {c}
      BY <2>2 DEF Connect, Asking, TypeOK
    <3>2. Directory!Ask(c)
      BY <2>1, <3>1 DEF Directory!Ask, Asking, Answered
    <3> QED BY <3>2
  <2>3. CASE Abort(c)
    <3>1. Asking' = Asking \ {c}
      BY <2>3 DEF Abort, Asking, TypeOK
    <3>2. Directory!GiveUp(c)
      BY <2>1, <3>1 DEF Directory!GiveUp, Asking, Answered
    <3> QED BY <3>2
  <2>4. CASE Display(c)
    <3>1. Asking' = Asking
      BY <2>4 DEF Display, Asking, TypeOK
    <3> QED BY <2>1, <3>1 DEF Directory!vars, Asking, Answered
  <2> QED BY <1>5, <2>2, <2>3, <2>4
<1>6. CASE UNCHANGED <<clock, heard, cli, reply>>
  <2>1. Asking' = Asking /\ Answered' = Answered
    BY <1>6 DEF Asking, Answered
  <2> QED BY <1>6, <2>1 DEF Directory!vars, Asking, Answered
<1> QED
  BY <1>1, <1>2, <1>3, <1>4, <1>5, <1>6
  DEF Next, vars, clients, daemon, network, Daemon, Environment, Start, LoopTop,
      SelectReady, SelectTimesOut, SelectFails, SendHellos, SkipHellos, Expire,
      NothingToServe, AcceptFails, IfacesChange, Arrive

\* Every behaviour of the daemon in which select does not fail is one that
\* NeighborDirectory allows: clients are told of everybody heard in the last
\* TIMEOUT - MaxIter seconds and of nobody silent for more than TIMEOUT + MaxIter.
THEOREM Refinement == ASSUME "select" \notin Faults PROVE Spec => ImplementsDirectory
<1>1. Spec => Directory!Spec
  BY DirectoryInit, DirectoryStep, TypeCorrect, Invariance, PTL DEF Spec, Directory!Spec
<1> QED BY <1>1 DEF ImplementsDirectory

=============================================================================

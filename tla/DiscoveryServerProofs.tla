------------------------ MODULE DiscoveryServerProofs ------------------------
(* Theorems about DiscoveryServer, for any hosts, clients and intervals.   *)
EXTENDS DiscoveryServer, SequenceTheorems, TLAPS

USE DEF table, queues, history

-----------------------------------------------------------------------------
(* The queues of datagrams.                                                *)

\* A datagram of g waits in the queue s.
Has(s, g) == \E i \in 1..Len(s) : s[i] = g

Echo(h) == [i \in 1..Copies |-> h]

LEMMA Constants ==
  /\ MAX_NO_REPLY \in Nat /\ BROADCAST_INTERVAL \in Nat \ {0} /\ POLL_TIMEOUT \in Nat
  /\ MaxWait \in Nat \ {0} /\ Horizon \in Nat /\ MAX_NO_REPLY + MaxWait < Horizon
  /\ BROADCAST_INTERVAL + MaxWait < Horizon
  /\ BACKLOG \in Nat /\ Copies \in Nat \ {0} /\ MaxInbox \in Nat \ {0} /\ MaxLosses \in Nat
  /\ Absent = -1
  BY TimingAssumption, BoundsAssumption DEF Absent

LEMMA EchoType ==
  ASSUME NEW h \in Hosts
  PROVE  /\ Echo(h) \in Seq(Hosts) /\ Len(Echo(h)) = Copies
         /\ \A i \in 1..Copies : Echo(h)[i] = h
<1>1. Echo(h) \in [1..Copies -> Hosts]
  BY DEF Echo
<1>2. Echo(h) \in Seq(Hosts)
  BY <1>1, SeqDef, Constants
<1>3. DOMAIN Echo(h) = 1..Len(Echo(h)) /\ Len(Echo(h)) \in Nat
  BY <1>2, LenProperties
<1>4. 1..Copies = 1..Len(Echo(h))
  BY <1>3 DEF Echo
<1>5. \A m \in Nat : 1..Copies = 1..m => m = Copies
  <2> SUFFICES ASSUME NEW m \in Nat, 1..Copies = 1..m PROVE m = Copies
    OBVIOUS
  <2>1. Copies \in Nat \ {0}
    BY Constants
  <2>2. Copies \in 1..m
    BY <2>1
  <2>3. m \in 1..Copies
    BY <2>1, <2>2
  <2> QED BY <2>1, <2>2, <2>3
<1>6. Len(Echo(h)) = Copies
  BY <1>3, <1>4, <1>5
<1> QED BY <1>2, <1>6 DEF Echo

LEMMA HasTail ==
  ASSUME NEW s \in Seq(Hosts), s # <<>>, NEW g
  PROVE  /\ Head(s) \in Hosts /\ Tail(s) \in Seq(Hosts)
         /\ Has(Tail(s), g) => Has(s, g)
         /\ Has(s, g) /\ Head(s) # g => Has(Tail(s), g)
         /\ Has(s, Head(s))
<1>1. /\ Head(s) \in Hosts /\ Tail(s) \in Seq(Hosts) /\ Len(Tail(s)) = Len(s) - 1
      /\ \A i \in 1..Len(Tail(s)) : Tail(s)[i] = s[i + 1]
  BY HeadTailProperties
<1>2. Len(s) \in Nat \ {0} /\ Head(s) = s[1]
  <2>1. Len(s) \in Nat \ {0}
    BY EmptySeq
  <2> QED BY <2>1
<1>3. Has(Tail(s), g) => Has(s, g)
  <2> SUFFICES ASSUME NEW i \in 1..Len(Tail(s)), Tail(s)[i] = g PROVE Has(s, g)
    BY DEF Has
  <2>1. i + 1 \in 1..Len(s) /\ s[i + 1] = g
    BY <1>1, <1>2
  <2> QED BY <2>1 DEF Has
<1>4. Has(s, g) /\ Head(s) # g => Has(Tail(s), g)
  <2> SUFFICES ASSUME NEW i \in 1..Len(s), s[i] = g, Head(s) # g PROVE Has(Tail(s), g)
    BY DEF Has
  <2>1. i - 1 \in 1..Len(Tail(s))
    BY <1>1, <1>2
  <2>2. Tail(s)[i - 1] = s[(i - 1) + 1] /\ (i - 1) + 1 = i
    BY <1>1, <2>1
  <2> QED BY <2>1, <2>2 DEF Has
<1> QED BY <1>1, <1>2, <1>3, <1>4 DEF Has

LEMMA HasConcat ==
  ASSUME NEW s \in Seq(Hosts), NEW h \in Hosts, NEW g
  PROVE  /\ s \o Echo(h) \in Seq(Hosts)
         /\ Has(s \o Echo(h), g) <=> Has(s, g) \/ g = h
<1> DEFINE t == s \o Echo(h)
<1>1. /\ t \in Seq(Hosts) /\ Len(t) = Len(s) + Copies
      /\ \A i \in 1..Len(s) + Copies : t[i] = IF i <= Len(s) THEN s[i] ELSE Echo(h)[i - Len(s)]
  BY EchoType, ConcatProperties
<1>2. Len(s) \in Nat /\ Copies \in Nat \ {0}
  BY LenProperties, Constants
<1>3. Has(s, g) => Has(t, g)
  <2> SUFFICES ASSUME NEW i \in 1..Len(s), s[i] = g PROVE Has(t, g)
    BY DEF Has
  <2>1. i \in 1..Len(t) /\ t[i] = g
    BY <1>1, <1>2
  <2> QED BY <2>1 DEF Has
<1>4. Has(t, h)
  <2>1. Len(s) + 1 \in 1..Len(t) /\ t[Len(s) + 1] = Echo(h)[Len(s) + 1 - Len(s)]
    BY <1>1, <1>2
  <2>2. Len(s) + 1 - Len(s) = 1 /\ Echo(h)[1] = h
    BY <1>2, EchoType
  <2> QED BY <2>1, <2>2 DEF Has
<1>5. Has(t, g) => Has(s, g) \/ g = h
  <2> SUFFICES ASSUME NEW i \in 1..Len(t), t[i] = g, g # h PROVE Has(s, g)
    BY DEF Has
  <2>1. CASE i <= Len(s)
    BY <1>1, <1>2, <2>1 DEF Has
  <2>2. CASE i > Len(s)
    <3>1. i - Len(s) \in 1..Copies /\ t[i] = Echo(h)[i - Len(s)]
      BY <1>1, <1>2, <2>2
    <3> QED BY <3>1, EchoType
  <2> QED BY <1>2, <2>1, <2>2
<1> QED BY <1>1, <1>3, <1>4, <1>5

LEMMA HasEmpty == ASSUME NEW g PROVE ~Has(<<>>, g)
  BY EmptySeq DEF Has

-----------------------------------------------------------------------------
(* Types.                                                                  *)

LEMMA TailType ==
  ASSUME NEW T, NEW s \in Seq(T), s # <<>> PROVE Head(s) \in T /\ Tail(s) \in Seq(T)
  BY HeadTailProperties

LEMMA EmptyType == ASSUME NEW T PROVE <<>> \in Seq(T)
  BY EmptySeq

Ages == 0..Horizon \cup {Absent}

LEMMA AgesType ==
  /\ 0 \in Ages /\ Absent \in Ages /\ 0 \in 0..Horizon /\ 0 \in 0..MaxWait
  /\ 0 \in 0..MaxLosses
  /\ Empty \in [Addresses -> Ages] /\ [Empty EXCEPT ![DummyNeighbor] = 0] \in [Addresses -> Ages]
<1>1. /\ 0 \in Ages /\ Absent \in Ages /\ 0 \in 0..Horizon /\ 0 \in 0..MaxWait
      /\ 0 \in 0..MaxLosses
  BY Constants DEF Ages
<1>2. Empty \in [Addresses -> Ages]
  BY <1>1 DEF Empty
<1> QED BY <1>1, <1>2

LEMMA OlderType ==
  /\ \A s \in 0..Horizon : Older(s) \in 0..Horizon
  /\ \A s \in Ages : Older(s) \in Ages /\ (Older(s) = Absent <=> s = Absent)
  BY Constants DEF Older, Ages

\* Serve only moves a client on.
LEMMA ServeTyped ==
  ASSUME TypeOK, NEW h \in Hosts, Serve(h)
  PROVE  /\ backlog' \in [Hosts -> Seq(Clients)]
         /\ cli' \in [Clients -> {"idle", "waiting", "gone", "answered"}]
<1>1. CASE backlog[h] = <<>>
  BY <1>1 DEF Serve, TypeOK
<1>2. CASE backlog[h] # <<>>
  <2>1. Head(backlog[h]) \in Clients /\ Tail(backlog[h]) \in Seq(Clients)
    BY <1>2, TailType DEF TypeOK
  <2> QED BY <1>2, <2>1 DEF Serve, TypeOK
<1> QED BY <1>1, <1>2

LEMMA KeptType ==
  ASSUME TypeOK, NEW h \in Hosts,
         inbox[h] # <<>> => Head(inbox[h]) \notin Own(h)
  PROVE  /\ Heard(h) \in [Addresses -> Ages] /\ Kept(Heard(h)) \in [Addresses -> Ages]
         /\ Kept(Heard(h))[DummyOwn] = Absent
         /\ h # DummyNeighbor => Kept(Heard(h))[h] = Absent
<1>1. Heard(h) \in [Addresses -> Ages]
  <2>1. silent[h] \in [Addresses -> Ages]
    BY DEF TypeOK, Ages
  <2> QED BY <2>1, AgesType DEF Heard
<1>2. Kept(Heard(h)) \in [Addresses -> Ages]
  BY <1>1, AgesType DEF Kept
<1>3. inbox[h] # <<>> => Head(inbox[h]) \in Hosts /\ Head(inbox[h]) # h
  BY TailType DEF TypeOK, Own
<1>4. h \in Addresses /\ DummyOwn \in Addresses /\ DummyOwn \notin Hosts
  BY AddressesAssumption DEF Addresses
<1>5. Heard(h)[DummyOwn] = Absent /\ (h # DummyNeighbor => Heard(h)[h] = Absent)
  BY <1>3, <1>4 DEF Heard, TypeOK
<1> QED BY <1>1, <1>2, <1>4, <1>5 DEF Kept

LEMMA TakenType ==
  ASSUME TypeOK, NEW h \in Hosts
  PROVE  /\ Taken(h) \in [Hosts -> Seq(Hosts)]
         /\ \A missing : Delivered(h, Taken(h), missing) \in [Hosts -> Seq(Hosts)]
<1>1. Taken(h) \in [Hosts -> Seq(Hosts)]
  BY TailType DEF Taken, TypeOK
<1>2. ASSUME NEW missing PROVE Delivered(h, Taken(h), missing) \in [Hosts -> Seq(Hosts)]
  <2>1. \A g \in Hosts : Taken(h)[g] \o Echo(h) \in Seq(Hosts)
    BY <1>1, HasConcat
  <2> QED BY <1>1, <2>1 DEF Delivered, Echo
<1> QED BY <1>1, <1>2

LEMMA IterateTyped == ASSUME TypeOK, NEW h \in Hosts, Iterate(h) PROVE TypeOK'
<1>1. /\ backlog' \in [Hosts -> Seq(Clients)]
      /\ cli' \in [Clients -> {"idle", "waiting", "gone", "answered"}]
  BY ServeTyped DEF Iterate
<1>2. silent' = [silent EXCEPT ![h] = Kept(Heard(h))] /\ Kept(Heard(h)) \in [Addresses -> Ages]
  BY KeptType DEF Iterate
<1>3. /\ silent' \in [Hosts -> [Addresses -> Ages]]
      /\ \A g \in Hosts :
           silent'[g][DummyOwn] = Absent /\ (g # DummyNeighbor => silent'[g][g] = Absent)
  <2>1. /\ Kept(Heard(h))[DummyOwn] = Absent
        /\ h # DummyNeighbor => Kept(Heard(h))[h] = Absent
    BY KeptType DEF Iterate
  <2> QED BY <1>2, <2>1 DEF TypeOK, Ages
<1>4. inbox' \in [Hosts -> Seq(Hosts)]
  BY TakenType DEF Iterate
<1>5. /\ lost' \in [Hosts -> [Hosts -> 0..MaxLosses]] /\ broadcast' \in [Hosts -> 0..Horizon]
      /\ calm' \in [Hosts -> 0..Horizon]
  <2>1. CASE BroadcastDue(h)
    <3>1. PICK missing \in SUBSET {g \in Hosts : up[g] /\ lost[h][g] < MaxLosses} :
            /\ lost' = [lost EXCEPT ![h] =
                          [g \in Hosts |-> IF g \in missing THEN lost[h][g] + 1 ELSE 0]]
            /\ Dropped(Taken(h), missing)
      BY <2>1 DEF Iterate
    <3>2. [g \in Hosts |-> IF g \in missing THEN lost[h][g] + 1 ELSE 0]
             \in [Hosts -> 0..MaxLosses]
      <4>1. \A g \in Hosts : lost[h][g] \in 0..MaxLosses
        BY DEF TypeOK
      <4>2. \A g \in missing : lost[h][g] < MaxLosses
        OBVIOUS
      <4> QED BY <4>1, <4>2, Constants
    <3>3. lost' \in [Hosts -> [Hosts -> 0..MaxLosses]]
      BY <3>1, <3>2 DEF TypeOK
    <3>4. broadcast' \in [Hosts -> 0..Horizon]
      BY <2>1, AgesType DEF Iterate, TypeOK
    <3>5. calm' \in [Hosts -> 0..Horizon]
      BY <3>1, AgesType DEF Dropped, TypeOK
    <3> QED BY <3>3, <3>4, <3>5
  <2> QED BY <2>1 DEF Iterate, TypeOK
<1>6. /\ waited' \in [Hosts -> 0..MaxWait] /\ up' = up
  BY AgesType DEF Iterate, TypeOK
<1> QED BY <1>1, <1>3, <1>4, <1>5, <1>6 DEF TypeOK, Ages

LEMMA HearOwnTyped == ASSUME TypeOK, NEW h \in Hosts, HearOwn(h) PROVE TypeOK'
<1>1. /\ backlog' \in [Hosts -> Seq(Clients)]
      /\ cli' \in [Clients -> {"idle", "waiting", "gone", "answered"}]
  BY ServeTyped DEF HearOwn
<1>2. inbox' \in [Hosts -> Seq(Hosts)]
  <2>1. Tail(inbox[h]) \in Seq(Hosts)
    BY TailType DEF HearOwn, TypeOK
  <2> QED BY <2>1 DEF HearOwn, TypeOK
<1>3. waited' \in [Hosts -> 0..MaxWait]
  BY AgesType DEF HearOwn, TypeOK
<1> QED BY <1>1, <1>2, <1>3 DEF HearOwn, TypeOK

LEMMA StartStopTyped ==
  ASSUME TypeOK, NEW h \in Hosts, Start(h) \/ Stop(h) PROVE TypeOK'
<1>1. CASE Start(h)
  <2> DEFINE new == [Empty EXCEPT ![DummyNeighbor] = 0]
  <2>1. /\ silent' = [silent EXCEPT ![h] = new] /\ new \in [Addresses -> Ages]
    BY <1>1, AgesType DEF Start
  <2>2. new[DummyOwn] = Absent /\ (h # DummyNeighbor => new[h] = Absent)
    BY AddressesAssumption DEF Empty, Addresses
  <2>3. /\ silent' \in [Hosts -> [Addresses -> Ages]]
        /\ \A g \in Hosts :
             silent'[g][DummyOwn] = Absent /\ (g # DummyNeighbor => silent'[g][g] = Absent)
    BY <2>1, <2>2 DEF TypeOK, Ages
  <2>4. /\ up' \in [Hosts -> BOOLEAN] /\ broadcast' \in [Hosts -> 0..Horizon]
        /\ waited' \in [Hosts -> 0..MaxWait] /\ calm' \in [Hosts -> 0..Horizon]
    BY <1>1, AgesType DEF Start, TypeOK
  <2> QED BY <1>1, <2>3, <2>4 DEF Start, TypeOK, Ages
<1>2. CASE Stop(h)
  <2>1. /\ silent' = [silent EXCEPT ![h] = Empty] /\ Empty \in [Addresses -> Ages]
    BY <1>2, AgesType DEF Stop
  <2>2. Empty[DummyOwn] = Absent /\ Empty[h] = Absent
    BY DEF Empty, Addresses
  <2>3. /\ silent' \in [Hosts -> [Addresses -> Ages]]
        /\ \A g \in Hosts :
             silent'[g][DummyOwn] = Absent /\ (g # DummyNeighbor => silent'[g][g] = Absent)
    BY <2>1, <2>2 DEF TypeOK, Ages
  <2>4. /\ up' \in [Hosts -> BOOLEAN] /\ broadcast' \in [Hosts -> 0..Horizon]
        /\ waited' \in [Hosts -> 0..MaxWait] /\ calm' \in [Hosts -> 0..Horizon]
    BY <1>2, AgesType DEF Stop, TypeOK
  <2>5. inbox' \in [Hosts -> Seq(Hosts)] /\ backlog' \in [Hosts -> Seq(Clients)]
    BY <1>2, EmptyType DEF Stop, TypeOK
  <2>6. cli' \in [Clients -> {"idle", "waiting", "gone", "answered"}]
    BY <1>2 DEF Stop, TypeOK
  <2>7. lost' \in [Hosts -> [Hosts -> 0..MaxLosses]]
    BY <1>2, AgesType DEF Stop, TypeOK
  <2> QED BY <2>3, <2>4, <2>5, <2>6, <2>7 DEF TypeOK, Ages
<1> QED BY <1>1, <1>2

LEMMA ClientTyped ==
  ASSUME TypeOK, NEW c \in Clients, Connect(c) \/ Abort(c) \/ Display(c) PROVE TypeOK'
<1>1. CASE Connect(c)
  <2>1. HostOf[c] \in Hosts /\ backlog[HostOf[c]] \in Seq(Clients)
    BY ClientsAssumption DEF TypeOK
  <2>2. Append(backlog[HostOf[c]], c) \in Seq(Clients)
    BY <2>1, AppendProperties
  <2> QED BY <1>1, <2>2 DEF Connect, TypeOK
<1>2. CASE Abort(c)   BY <1>2 DEF Abort, TypeOK
<1>3. CASE Display(c) BY <1>3 DEF Display, TypeOK
<1> QED BY <1>1, <1>2, <1>3

LEMMA TickTyped == ASSUME TypeOK, Tick PROVE TypeOK'
<1>1. silent' \in [Hosts -> [Addresses -> Ages]]
  <2>1. silent' = [h \in Hosts |-> [a \in Addresses |-> Older(silent[h][a])]]
    BY DEF Tick
  <2>2. \A h \in Hosts, a \in Addresses : silent[h][a] \in Ages
    BY DEF TypeOK, Ages
  <2> QED BY <2>1, <2>2, OlderType
<1>2. \A g \in Hosts :
        silent'[g][DummyOwn] = Absent /\ (g # DummyNeighbor => silent'[g][g] = Absent)
  <2>1. Older(Absent) = Absent
    BY DEF Older
  <2> QED BY <2>1 DEF Tick, TypeOK, Addresses
<1>3. /\ broadcast' \in [Hosts -> 0..Horizon] /\ calm' \in [Hosts -> 0..Horizon]
  BY OlderType, AgesType DEF Tick, TypeOK
<1>4. waited' \in [Hosts -> 0..MaxWait]
  <2>1. PICK stuck \in SUBSET {h \in Hosts : up[h] /\ backlog[h] # <<>>} :
          /\ \A h \in Hosts \ stuck : up[h] => waited[h] < MaxWait
          /\ waited' = [h \in Hosts |-> IF up[h] /\ h \notin stuck THEN waited[h] + 1 ELSE 0]
    BY DEF Tick
  <2>2. \A h \in Hosts : waited[h] \in 0..MaxWait
    BY DEF TypeOK
  <2> QED BY <2>1, <2>2, Constants
<1> QED BY <1>1, <1>2, <1>3, <1>4 DEF Tick, TypeOK, Ages

LEMMA InitTyped == Init => TypeOK
<1> SUFFICES ASSUME Init PROVE TypeOK
  OBVIOUS
<1>1. /\ silent \in [Hosts -> [Addresses -> Ages]]
      /\ \A h \in Hosts : silent[h][DummyOwn] = Absent /\ silent[h][h] = Absent
  BY AgesType DEF Init, Empty, Addresses
<1>2. inbox \in [Hosts -> Seq(Hosts)] /\ backlog \in [Hosts -> Seq(Clients)]
  BY EmptyType DEF Init
<1> QED BY <1>1, <1>2, AgesType DEF Init, TypeOK, Ages

\* Every variable keeps its type; no host comes to list itself.
THEOREM TypeCorrect == Spec => []TypeOK
<1>1. TypeOK /\ [Next]_vars => TypeOK'
  <2> SUFFICES ASSUME TypeOK, [Next]_vars PROVE TypeOK'
    OBVIOUS
  <2>1. ASSUME NEW h \in Hosts, AcceptFails(h) PROVE TypeOK'
    <3>1. waited' \in [Hosts -> 0..MaxWait]
      BY <2>1, Constants DEF AcceptFails, TypeOK
    <3> QED BY <2>1, <3>1 DEF AcceptFails, TypeOK
  <2>2. CASE UNCHANGED vars
    BY <2>2 DEF vars, TypeOK
  <2> QED BY <2>1, <2>2, IterateTyped, HearOwnTyped, StartStopTyped, ClientTyped, TickTyped
          DEF Next, Server
<1> QED BY InitTyped, <1>1, PTL DEF Spec

-----------------------------------------------------------------------------
(* Datagrams are taken within the second they are sent in, unless accept    *)
(* fails.                                                                  *)

\* Nothing of g waits for h for longer.
Fresh(h, g) ==
  /\ up[g] => broadcast[g] = 0 /\ lost[g][h] = 0
  /\ ~up[g] => calm[g] = 0

MailInv ==
  /\ \A h \in Hosts : ~up[h] => inbox[h] = <<>>
  /\ \A h, g \in Hosts : ~up[h] => lost[h][g] = 0 /\ lost[g][h] = 0
  /\ \A h, g \in Hosts : Has(inbox[h], g) => calm[h] = 0 \/ Fresh(h, g)

\* What an iteration of h does to the datagrams that wait.
LEMMA IterateMail ==
  ASSUME TypeOK, NEW h \in Hosts, Iterate(h), NEW x \in Hosts, NEW g \in Hosts
  PROVE  /\ Has(inbox'[x], g) /\ ~Has(inbox[x], g) =>
              g = h /\ up[x] /\ BroadcastDue(h) /\ lost'[h][x] = 0
         /\ Has(inbox[x], g) /\ ~Has(inbox'[x], g) =>
              x = h /\ inbox[h] # <<>> /\ Head(inbox[h]) = g
         /\ up[x] /\ BroadcastDue(h) /\ ~Has(inbox'[x], h) =>
              lost'[h][x] = lost[h][x] + 1 \/ calm'[x] = 0
         /\ calm'[x] \in {calm[x], 0}
         /\ ~up[x] => inbox'[x] = inbox[x] \/ x = h
         /\ ~up[x] /\ BroadcastDue(h) => lost'[h][x] = 0
         /\ g # h => lost'[g] = lost[g] /\ broadcast'[g] = broadcast[g]
         /\ BroadcastDue(h) => broadcast'[h] = 0
         /\ ~BroadcastDue(h) => lost' = lost /\ broadcast' = broadcast /\ calm' = calm
<1>1. /\ Taken(h) \in [Hosts -> Seq(Hosts)]
      /\ Has(Taken(h)[x], g) => Has(inbox[x], g)
      /\ Has(inbox[x], g) /\ ~Has(Taken(h)[x], g) =>
           x = h /\ inbox[h] # <<>> /\ Head(inbox[h]) = g
      /\ x # h => Taken(h)[x] = inbox[x]
  <2>1. CASE inbox[h] = <<>>
    BY <2>1, TakenType DEF Taken
  <2>2. CASE inbox[h] # <<>>
    <3>1. inbox[h] \in Seq(Hosts) /\ inbox \in [Hosts -> Seq(Hosts)]
      BY DEF TypeOK
    <3>2. /\ Has(Tail(inbox[h]), g) => Has(inbox[h], g)
          /\ Has(inbox[h], g) /\ Head(inbox[h]) # g => Has(Tail(inbox[h]), g)
      BY <2>2, <3>1, HasTail
    <3>3. Taken(h) = [inbox EXCEPT ![h] = Tail(inbox[h])]
      BY <2>2 DEF Taken
    <3> QED BY <2>2, <3>1, <3>2, <3>3, TakenType
  <2> QED BY <2>1, <2>2
<1>2. CASE BroadcastDue(h)
  <2>1. PICK missing \in SUBSET {y \in Hosts : up[y] /\ lost[h][y] < MaxLosses} :
          /\ inbox' = Delivered(h, Taken(h), missing)
          /\ lost' = [lost EXCEPT ![h] =
                        [y \in Hosts |-> IF y \in missing THEN lost[h][y] + 1 ELSE 0]]
          /\ Dropped(Taken(h), missing)
    BY <1>2 DEF Iterate
  <2>2. broadcast' = [broadcast EXCEPT ![h] = 0]
    BY <1>2 DEF Iterate
  <2>5. /\ calm'[x] \in {calm[x], 0}
        /\ up[x] /\ x \notin missing /\ Full(Taken(h)[x]) => calm'[x] = 0
    BY <2>1 DEF Dropped
  <2>3. CASE up[x] /\ x \notin missing /\ ~Full(Taken(h)[x])
    <3>1. inbox'[x] = Taken(h)[x] \o Echo(h)
      BY <2>1, <2>3 DEF Delivered, Echo
    <3>2. Has(inbox'[x], g) <=> Has(Taken(h)[x], g) \/ g = h
      BY <1>1, <3>1, HasConcat
    <3>3. Has(inbox'[x], h)
      BY <1>1, <3>1, HasConcat
    <3>4. lost'[h][x] = 0
      BY <2>1, <2>3 DEF TypeOK
    <3> QED BY <1>1, <1>2, <2>1, <2>2, <2>3, <2>5, <3>2, <3>3, <3>4 DEF TypeOK
  <2>4. CASE ~(up[x] /\ x \notin missing /\ ~Full(Taken(h)[x]))
    <3>1. inbox'[x] = Taken(h)[x]
      BY <2>1, <2>4 DEF Delivered
    <3>2. /\ up[x] => lost'[h][x] = lost[h][x] + 1 \/ calm'[x] = 0
          /\ ~up[x] => lost'[h][x] = 0
      BY <2>1, <2>4, <2>5 DEF TypeOK
    <3> QED BY <1>1, <1>2, <2>1, <2>2, <2>4, <2>5, <3>1, <3>2 DEF TypeOK
  <2> QED BY <2>3, <2>4
<1>3. CASE ~BroadcastDue(h)
  <2>1. inbox' = Taken(h) /\ lost' = lost /\ broadcast' = broadcast /\ calm' = calm
    BY <1>3 DEF Iterate
  <2> QED BY <1>1, <1>3, <2>1
<1> QED BY <1>2, <1>3

\* Hearing an own datagram only takes it away.
LEMMA HearOwnMail ==
  ASSUME TypeOK, NEW h \in Hosts, HearOwn(h), NEW x \in Hosts, NEW g \in Hosts
  PROVE  /\ Has(inbox'[x], g) => Has(inbox[x], g)
         /\ Has(inbox[x], g) /\ ~Has(inbox'[x], g) => x = h /\ g = h
         /\ inbox'[x] = inbox[x] \/ x = h
         /\ Has(inbox[h], h)
<1>1. inbox[h] \in Seq(Hosts) /\ inbox[h] # <<>> /\ inbox \in [Hosts -> Seq(Hosts)]
  BY DEF HearOwn, TypeOK
<1>2. Head(inbox[h]) = h
  <2>1. Head(inbox[h]) \in Hosts /\ Head(inbox[h]) \in {h, DummyOwn}
    BY <1>1, HasTail DEF HearOwn, Own
  <2> QED BY <2>1, AddressesAssumption
<1>3. inbox' = [inbox EXCEPT ![h] = Tail(inbox[h])]
  BY DEF HearOwn
<1>4. /\ Has(Tail(inbox[h]), g) => Has(inbox[h], g)
      /\ Has(inbox[h], g) /\ g # h => Has(Tail(inbox[h]), g)
      /\ Has(inbox[h], h)
  BY <1>1, <1>2, HasTail
<1> QED BY <1>1, <1>3, <1>4

\* A second passes a host by where nothing waits, or where accept fails.
LEMMA TickMail ==
  ASSUME TypeOK, MailInv, Tick, NEW h \in Hosts
  PROVE  /\ UNCHANGED <<up, inbox, backlog, lost>>
         /\ \A g \in Hosts : broadcast'[g] = Older(broadcast[g])
         /\ \A a \in Addresses : silent'[h][a] = Older(silent[h][a])
         /\ \/ up[h] /\ calm'[h] = 0
            \/ /\ inbox[h] = <<>> /\ (up[h] => backlog[h] = <<>>)
               /\ calm'[h] = Older(calm[h]) /\ (up[h] => waited'[h] = waited[h] + 1)
<1>1. /\ UNCHANGED <<up, inbox, backlog, lost>>
      /\ \A g \in Hosts : broadcast'[g] = Older(broadcast[g])
      /\ \A a \in Addresses : silent'[h][a] = Older(silent[h][a])
  BY DEF Tick
<1>2. PICK stuck \in SUBSET {g \in Hosts : up[g] /\ backlog[g] # <<>>} :
        /\ \A g \in Hosts \ stuck : up[g] => ~Ready(g) /\ waited[g] < MaxWait
        /\ waited' = [g \in Hosts |-> IF up[g] /\ g \notin stuck THEN waited[g] + 1 ELSE 0]
        /\ calm' = [g \in Hosts |-> IF g \in stuck THEN 0 ELSE Older(calm[g])]
  BY DEF Tick
<1>3. CASE h \in stuck
  BY <1>1, <1>2, <1>3
<1>4. CASE h \notin stuck
  BY <1>1, <1>2, <1>4 DEF Ready, MailInv
<1> QED BY <1>3, <1>4

LEMMA MailStep == ASSUME TypeOK, MailInv, [Next]_vars PROVE MailInv'
<1>1. ASSUME NEW h \in Hosts, Iterate(h) PROVE MailInv'
  <2>1. ASSUME NEW x \in Hosts, ~up'[x] PROVE inbox'[x] = <<>>
    <3>1. up' = up /\ x # h
      BY <1>1, <2>1 DEF Iterate, Polled
    <3> QED BY <1>1, <2>1, <3>1, IterateMail DEF MailInv
  <2>2. ASSUME NEW x \in Hosts, NEW g \in Hosts, Has(inbox'[x], g)
        PROVE  calm'[x] = 0 \/ Fresh(x, g)'
    <3>1. up' = up /\ up[h]
      BY <1>1 DEF Iterate, Polled
    <3>2. CASE calm[x] = 0
      BY <1>1, <3>2, IterateMail
    <3>3. CASE Has(inbox[x], g) /\ g # h /\ Fresh(x, g)
      <4>1. calm'[g] \in {calm[g], 0} /\ lost'[g] = lost[g] /\ broadcast'[g] = broadcast[g]
        BY <1>1, <3>3, IterateMail
      <4> QED BY <3>1, <3>3, <4>1 DEF Fresh
    <3>4. CASE Has(inbox[x], g) /\ g = h /\ Fresh(x, g)
      <4>1. broadcast[h] = 0 /\ lost[h][x] = 0
        BY <3>1, <3>4 DEF Fresh
      <4>2. ~BroadcastDue(h)
        BY <4>1, Constants DEF BroadcastDue
      <4> QED BY <1>1, <3>1, <3>4, <4>1, <4>2, IterateMail DEF Fresh
    <3>5. CASE ~Has(inbox[x], g)
      BY <1>1, <2>2, <3>1, <3>5, IterateMail DEF Fresh
    <3> QED BY <3>2, <3>3, <3>4, <3>5 DEF MailInv
  <2>3. ASSUME NEW x \in Hosts, NEW g \in Hosts, ~up'[x]
        PROVE  lost'[x][g] = 0 /\ lost'[g][x] = 0
    <3>1. up' = up /\ up[h]
      BY <1>1 DEF Iterate, Polled
    <3>2. lost[x][g] = 0 /\ lost[g][x] = 0 /\ x # h
      BY <2>3, <3>1 DEF MailInv
    <3> QED BY <1>1, <2>3, <3>1, <3>2, IterateMail
  <2> QED BY <2>1, <2>2, <2>3 DEF MailInv
<1>2. ASSUME NEW h \in Hosts, HearOwn(h) PROVE MailInv'
  <2>1. UNCHANGED <<up, broadcast, lost, calm>> /\ up[h]
    BY <1>2 DEF HearOwn, Polled
  <2>2. ASSUME NEW x \in Hosts, ~up'[x] PROVE inbox'[x] = <<>>
    BY <1>2, <2>1, <2>2, HearOwnMail DEF MailInv
  <2>3. ASSUME NEW x \in Hosts, NEW g \in Hosts, Has(inbox'[x], g) PROVE Has(inbox[x], g)
    BY <1>2, <2>3, HearOwnMail
  <2> QED BY <2>1, <2>2, <2>3 DEF MailInv, Fresh
<1>3. ASSUME NEW h \in Hosts, Start(h) PROVE MailInv'
  <2>1. ~up[h] /\ UNCHANGED <<inbox, lost>>
    BY <1>3 DEF Start
  <2>2. /\ up'[h] /\ broadcast'[h] = 0 /\ calm'[h] = 0
        /\ \A g \in Hosts \ {h} : up'[g] = up[g] /\ broadcast'[g] = broadcast[g]
                                   /\ calm'[g] = calm[g]
    BY <1>3 DEF Start, TypeOK
  <2>3. ASSUME NEW x \in Hosts, NEW g \in Hosts, Has(inbox'[x], g)
        PROVE  calm'[x] = 0 \/ Fresh(x, g)'
    <3>1. calm[x] = 0 \/ Fresh(x, g)
      BY <2>1, <2>3 DEF MailInv
    <3>2. CASE x = h
      BY <2>2, <3>2
    <3>3. CASE x # h /\ g = h
      BY <2>1, <2>2, <3>3 DEF MailInv, Fresh
    <3>4. CASE x # h /\ g # h
      BY <2>1, <2>2, <3>1, <3>4 DEF Fresh
    <3> QED BY <3>2, <3>3, <3>4
  <2>4. ASSUME NEW x \in Hosts, ~up'[x]
        PROVE  inbox'[x] = <<>> /\ \A g \in Hosts : lost'[x][g] = 0 /\ lost'[g][x] = 0
    BY <2>1, <2>2, <2>4 DEF MailInv
  <2> QED BY <2>3, <2>4 DEF MailInv
<1>4. ASSUME NEW h \in Hosts, Stop(h) PROVE MailInv'
  <2>1. ASSUME NEW x \in Hosts, NEW g \in Hosts, Has(inbox'[x], g) PROVE x # h /\ Has(inbox[x], g)
    <3>1. inbox'[h] = <<>> /\ (x # h => inbox'[x] = inbox[x])
      BY <1>4 DEF Stop, TypeOK
    <3> QED BY <2>1, <3>1, HasEmpty
  <2>2. ASSUME NEW x \in Hosts, NEW g \in Hosts, Has(inbox'[x], g)
        PROVE  calm'[x] = 0 \/ Fresh(x, g)'
    <3>1. Has(inbox[x], g) /\ x # h
      BY <2>1, <2>2
    <3>2. calm[x] = 0 \/ Fresh(x, g)
      BY <3>1 DEF MailInv
    <3>3. /\ ~up'[h] /\ calm'[h] = 0
          /\ \A y \in Hosts \ {h} : up'[y] = up[y] /\ broadcast'[y] = broadcast[y]
                                     /\ calm'[y] = calm[y]
          /\ \A y, z \in Hosts \ {h} : lost'[y][z] = lost[y][z]
      BY <1>4 DEF Stop, TypeOK
    <3> QED BY <3>1, <3>2, <3>3 DEF Fresh
  <2>3. ASSUME NEW x \in Hosts, ~up'[x] PROVE inbox'[x] = <<>>
    BY <1>4, <2>3 DEF Stop, MailInv, TypeOK
  <2>4. ASSUME NEW x \in Hosts, NEW g \in Hosts, ~up'[x]
        PROVE  lost'[x][g] = 0 /\ lost'[g][x] = 0
    BY <1>4, <2>4 DEF Stop, MailInv, TypeOK
  <2> QED BY <2>2, <2>3, <2>4 DEF MailInv
<1>5. CASE Tick
  <2>1. ASSUME NEW x \in Hosts, NEW g, Has(inbox'[x], g) PROVE calm'[x] = 0
    BY <1>5, <2>1, TickMail, HasEmpty
  <2>2. UNCHANGED <<up, inbox, lost>>
    BY <1>5 DEF Tick
  <2> QED BY <2>1, <2>2 DEF MailInv
<1>6. ASSUME UNCHANGED <<up, broadcast, inbox, lost, calm>> PROVE MailInv'
  BY <1>6 DEF MailInv, Fresh
<1> QED BY <1>1, <1>2, <1>3, <1>4, <1>5, <1>6
        DEF Next, Server, AcceptFails, Connect, Abort, Display, vars

LEMMA MailInvariant == Spec => []MailInv
<1>1. Init => MailInv
  BY HasEmpty DEF Init, MailInv
<1> QED BY <1>1, MailStep, TypeCorrect, PTL DEF Spec

-----------------------------------------------------------------------------
(* Broadcasts.                                                             *)

\* Accept has failed, for a second, since the last call of poll or, if the client
\* still waits, no longer than MaxWait seconds ago.
Late(h) == calm[h] <= waited[h] \/ (backlog[h] # <<>> /\ calm[h] <= MaxWait)

\* Poll may have returned without a broadcast that is due only for a client
\* that still waits: accept has just failed.
CadenceInv ==
  \A h \in Hosts :
    up[h] => \/ broadcast[h] < BROADCAST_INTERVAL + waited[h]
             \/ /\ backlog[h] # <<>>
                /\ broadcast[h] < BROADCAST_INTERVAL + MaxWait
             \/ Late(h)

LEMMA Times ==
  ASSUME TypeOK, NEW h \in Hosts
  PROVE  /\ broadcast[h] \in Nat /\ waited[h] \in Nat /\ waited[h] <= MaxWait
         /\ calm[h] \in Nat /\ calm[h] <= Horizon /\ broadcast[h] <= Horizon
         /\ \A s \in 0..Horizon : Older(s) \in Nat /\ s <= Older(s) /\ Older(s) <= s + 1
         /\ \A s, t \in 0..Horizon : s <= t => Older(s) <= Older(t)
         /\ Older(Absent) = Absent
<1>1. broadcast[h] \in 0..Horizon /\ waited[h] \in 0..MaxWait /\ calm[h] \in 0..Horizon
  BY DEF TypeOK
<1> QED BY <1>1, Constants DEF Older

\* No step of a client empties a queue.
LEMMA ConnectKeeps ==
  ASSUME TypeOK, NEW c \in Clients, Connect(c) \/ Abort(c) \/ Display(c),
         NEW x \in Hosts, backlog[x] # <<>>
  PROVE  backlog'[x] # <<>>
<1>1. CASE Connect(c)
  <2>1. HostOf[c] \in Hosts /\ backlog[HostOf[c]] \in Seq(Clients)
    BY ClientsAssumption DEF TypeOK
  <2>2. Append(backlog[HostOf[c]], c) # <<>>
    BY <2>1, AppendProperties
  <2> QED BY <1>1, <2>1, <2>2 DEF Connect, TypeOK
<1>2. CASE Abort(c) \/ Display(c)
  BY <1>2 DEF Abort, Display
<1> QED BY <1>1, <1>2

LEMMA CadenceStep ==
  ASSUME TypeOK, MailInv, CadenceInv, [Next]_vars PROVE CadenceInv'
<1> USE DEF CadenceInv, Late
<1>1. ASSUME NEW h \in Hosts, AcceptFails(h) PROVE CadenceInv'
  <2>1. up[h] /\ backlog[h] # <<>> /\ UNCHANGED <<up, broadcast, backlog, calm>>
    BY <1>1 DEF AcceptFails, Polled
  <2>2. broadcast[h] < BROADCAST_INTERVAL + MaxWait \/ calm[h] <= MaxWait
    <3>1. /\ broadcast[h] \in Nat /\ waited[h] \in Nat /\ waited[h] <= MaxWait
          /\ calm[h] \in Nat
      BY Times
    <3>2. \/ broadcast[h] < BROADCAST_INTERVAL + waited[h]
          \/ broadcast[h] < BROADCAST_INTERVAL + MaxWait
          \/ calm[h] <= waited[h] \/ calm[h] <= MaxWait
      BY <2>1
    <3> QED BY <3>1, <3>2, Constants
  <2>3. \A x \in Hosts \ {h} : waited'[x] = waited[x]
    BY <1>1 DEF AcceptFails, TypeOK
  <2> QED BY <2>1, <2>2, <2>3
<1>2. ASSUME NEW h \in Hosts, HearOwn(h) PROVE CadenceInv'
  <2>1. up[h] /\ (broadcast[h] = 0 \/ calm[h] = 0)
    BY <1>2, HearOwnMail DEF HearOwn, Polled, MailInv, Fresh
  <2>2. /\ waited'[h] = 0 /\ UNCHANGED <<up, broadcast, calm>>
        /\ \A x \in Hosts \ {h} : waited'[x] = waited[x] /\ backlog'[x] = backlog[x]
    BY <1>2 DEF HearOwn, Serve, TypeOK
  <2> QED BY <2>1, <2>2, Constants
<1>3. ASSUME NEW h \in Hosts, Iterate(h) PROVE CadenceInv'
  <2>1. /\ waited'[h] = 0 /\ up' = up
        /\ \A x \in Hosts \ {h} : waited'[x] = waited[x] /\ backlog'[x] = backlog[x]
    BY <1>3 DEF Iterate, Serve, TypeOK
  <2>2. \A x \in Hosts \ {h} : broadcast'[x] = broadcast[x] /\ calm'[x] \in {calm[x], 0}
    BY <1>3, IterateMail
  <2>3. broadcast'[h] < BROADCAST_INTERVAL
    <3>1. BroadcastDue(h) => broadcast'[h] = 0
      BY <1>3, IterateMail
    <3>2. ~BroadcastDue(h) => broadcast'[h] = broadcast[h] /\ broadcast[h] < BROADCAST_INTERVAL
      <4>1. broadcast[h] \in Nat
        BY Times
      <4>2. ~BroadcastDue(h) => broadcast[h] < BROADCAST_INTERVAL
        BY <4>1, Constants DEF BroadcastDue
      <4> QED BY <1>3, <4>2, IterateMail
    <3> QED BY <3>1, <3>2, Constants
  <2>4. \A x \in Hosts : waited[x] \in Nat
    BY Times
  <2> QED BY <2>1, <2>2, <2>3, <2>4, Constants
<1>4. ASSUME NEW h \in Hosts, Start(h) \/ Stop(h) PROVE CadenceInv'
  <2>1. CASE Start(h)
    <3>1. /\ broadcast'[h] = 0 /\ waited'[h] = 0 /\ backlog' = backlog
          /\ \A x \in Hosts \ {h} : /\ up'[x] = up[x] /\ broadcast'[x] = broadcast[x]
                                    /\ waited'[x] = waited[x] /\ calm'[x] = calm[x]
      BY <2>1 DEF Start, queues, TypeOK
    <3>2. broadcast'[h] < BROADCAST_INTERVAL + waited'[h]
      BY <3>1, Constants
    <3> QED BY <3>1, <3>2 DEF CadenceInv, Late
  <2>2. CASE Stop(h)
    <3>1. /\ ~up'[h]
          /\ \A x \in Hosts \ {h} : /\ up'[x] = up[x] /\ broadcast'[x] = broadcast[x]
                                    /\ waited'[x] = waited[x] /\ calm'[x] = calm[x]
                                    /\ backlog'[x] = backlog[x]
      BY <2>2 DEF Stop, TypeOK
    <3> QED BY <3>1 DEF CadenceInv, Late
  <2> QED BY <1>4, <2>1, <2>2
<1>5. ASSUME NEW c \in Clients, Connect(c) \/ Abort(c) \/ Display(c) PROVE CadenceInv'
  <2>1. UNCHANGED <<up, broadcast, waited, calm>>
    BY <1>5 DEF Connect, Abort, Display
  <2>2. ASSUME NEW x \in Hosts, backlog[x] # <<>> PROVE backlog'[x] # <<>>
    BY <1>5, <2>2, ConnectKeeps
  <2> QED BY <2>1, <2>2
<1>6. CASE Tick
  <2> SUFFICES ASSUME NEW h \in Hosts, up[h]
               PROVE  \/ broadcast'[h] < BROADCAST_INTERVAL + waited'[h]
                      \/ calm'[h] <= waited'[h]
    BY <1>6 DEF Tick
  <2>1. CASE calm'[h] = 0
    <3>1. waited'[h] \in Nat
      BY <1>6, TickTyped, Constants DEF TypeOK
    <3> QED BY <2>1, <3>1
  <2>2. CASE backlog[h] = <<>> /\ calm'[h] = Older(calm[h]) /\ waited'[h] = waited[h] + 1
    <3>1. broadcast[h] < BROADCAST_INTERVAL + waited[h] \/ calm[h] <= waited[h]
      BY <2>2
    <3>2. broadcast'[h] = Older(broadcast[h])
      BY <1>6, TickMail
    <3>3. /\ broadcast[h] \in Nat /\ waited[h] \in Nat /\ Older(broadcast[h]) \in Nat
          /\ Older(broadcast[h]) <= broadcast[h] + 1
          /\ calm[h] \in Nat /\ Older(calm[h]) \in Nat /\ Older(calm[h]) <= calm[h] + 1
      BY Times DEF TypeOK
    <3>4. CASE broadcast[h] < BROADCAST_INTERVAL + waited[h]
      <4>1. Older(broadcast[h]) < BROADCAST_INTERVAL + (waited[h] + 1)
        BY <3>3, <3>4, Constants
      <4> QED BY <2>2, <3>2, <4>1
    <3>5. CASE calm[h] <= waited[h]
      <4>1. Older(calm[h]) <= waited[h] + 1
        BY <3>3, <3>5
      <4> QED BY <2>2, <4>1
    <3> QED BY <3>1, <3>4, <3>5
  <2> QED BY <1>6, <2>1, <2>2, TickMail
<1>7. CASE UNCHANGED vars
  BY <1>7 DEF vars
<1> QED BY <1>1, <1>2, <1>3, <1>4, <1>5, <1>6, <1>7 DEF Next, Server

LEMMA CadenceInvariant == Spec => []CadenceInv
<1>1. Init => CadenceInv
  BY DEF Init, CadenceInv
<1> QED BY <1>1, CadenceStep, TypeCorrect, MailInvariant, PTL DEF Spec

\* Whichever path its loop takes, a server that runs broadcasts every Period
\* seconds, from MaxWait seconds after accept last failed for a whole one.
THEOREM BroadcastsOnTime == Spec => []BroadcastCadence
<1>1. TypeOK /\ CadenceInv => BroadcastCadence
  <2> SUFFICES ASSUME TypeOK, CadenceInv, NEW h \in Hosts, up[h], calm[h] > MaxWait
               PROVE  broadcast[h] <= Period
    BY DEF BroadcastCadence
  <2>1. /\ broadcast[h] \in Nat /\ waited[h] \in Nat /\ waited[h] <= MaxWait
        /\ calm[h] \in Nat
    BY Times
  <2> QED BY <2>1, Constants DEF CadenceInv, Late, Period
<1> QED BY <1>1, TypeCorrect, CadenceInvariant, PTL

-----------------------------------------------------------------------------
(* Servers that stopped.                                                   *)

\* As for the broadcasts; and an own datagram only waits right after an
\* iteration that expired the list, unless accept fails.
ExpiryInv ==
  \A h \in Hosts : up[h] =>
    \A a \in Addresses :
      /\ \/ silent[h][a] <= MAX_NO_REPLY + waited[h]
         \/ backlog[h] # <<>> /\ silent[h][a] <= MAX_NO_REPLY + MaxWait
         \/ Late(h)
      /\ Has(inbox[h], h) => silent[h][a] <= MAX_NO_REPLY \/ calm[h] = 0

\* Nobody is heard after it stopped, but the dummy neighbour, once, and who waited
\* while accept failed.
StaleInv ==
  \A h, g \in Hosts :
    up[h] /\ ~up[g] /\ silent[h][g] # Absent =>
      calm[g] <= silent[h][g] \/ calm[h] <= silent[h][g]

LEMMA KeptFacts ==
  ASSUME TypeOK, NEW h \in Hosts, Iterate(h)
  PROVE  /\ \A a \in Addresses : silent'[h][a] \in Int /\ silent'[h][a] <= MAX_NO_REPLY
         /\ \A a \in Addresses :
              silent'[h][a] \in {silent[h][a], Absent}
                \/ (silent'[h][a] = 0 /\ inbox[h] # <<>> /\ Head(inbox[h]) = a)
         /\ \A a \in Addresses :
              silent'[h][a] = Absent /\ silent[h][a] # Absent => silent[h][a] > MAX_NO_REPLY
         /\ inbox[h] # <<>> => silent'[h][Head(inbox[h])] = 0
         /\ \A x \in Hosts \ {h} : silent'[x] = silent[x]
<1>1. /\ silent'[h] = Kept(Heard(h)) /\ Heard(h) \in [Addresses -> Ages]
      /\ \A x \in Hosts \ {h} : silent'[x] = silent[x]
  BY KeptType DEF Iterate, TypeOK
<1>2. inbox[h] # <<>> => Head(inbox[h]) \in Addresses
  BY TailType DEF TypeOK, Addresses
<1>3. silent[h] \in [Addresses -> Ages]
  BY DEF TypeOK, Ages
<1>4. \A a \in Addresses : Heard(h)[a] = IF inbox[h] # <<>> /\ Head(inbox[h]) = a
                                         THEN 0 ELSE silent[h][a]
  BY <1>2, <1>3 DEF Heard
<1>5. \A a \in Addresses : silent'[h][a] = IF Heard(h)[a] > MAX_NO_REPLY
                                           THEN Absent ELSE Heard(h)[a]
  BY <1>1 DEF Kept, Expired
<1>6. \A a \in Addresses : Heard(h)[a] \in Int /\ silent[h][a] \in Int
  BY <1>1, <1>3, Constants DEF Ages
<1> HIDE DEF Ages
<1> QED BY <1>1, <1>2, <1>4, <1>5, <1>6, Constants

LEMMA SilentType ==
  ASSUME TypeOK, NEW h \in Hosts, NEW a \in Addresses
  PROVE  /\ silent[h][a] \in Int /\ (silent[h][a] # Absent => silent[h][a] \in 0..Horizon)
         /\ Older(silent[h][a]) \in Int /\ Older(silent[h][a]) <= silent[h][a] + 1
         /\ Older(silent[h][a]) # Absent <=> silent[h][a] # Absent
<1>1. silent[h][a] \in 0..Horizon \cup {Absent}
  BY DEF TypeOK
<1> QED BY <1>1, Constants DEF Older

LEMMA ExpiryStep ==
  ASSUME TypeOK, MailInv, ExpiryInv, [Next]_vars PROVE ExpiryInv'
<1> USE DEF ExpiryInv, Late
<1>1. ASSUME NEW h \in Hosts, AcceptFails(h) PROVE ExpiryInv'
  <2>1. up[h] /\ backlog[h] # <<>> /\ UNCHANGED <<up, silent, backlog, inbox, calm>>
    BY <1>1 DEF AcceptFails, Polled
  <2>2. ASSUME NEW a \in Addresses PROVE silent[h][a] <= MAX_NO_REPLY + MaxWait \/ calm[h] <= MaxWait
    <3>1. silent[h][a] \in Int /\ calm[h] \in Nat /\ waited[h] \in Nat /\ waited[h] <= MaxWait
      BY SilentType, Times
    <3> QED BY <2>1, <3>1, Constants
  <2>3. \A x \in Hosts \ {h} : waited'[x] = waited[x]
    BY <1>1 DEF AcceptFails, TypeOK
  <2> QED BY <2>1, <2>2, <2>3
<1>2. ASSUME NEW h \in Hosts, HearOwn(h) PROVE ExpiryInv'
  <2>1. up[h] /\ Has(inbox[h], h)
    BY <1>2, HearOwnMail DEF HearOwn, Polled
  <2>2. /\ waited'[h] = 0 /\ UNCHANGED <<up, silent, calm>>
        /\ \A x \in Hosts \ {h} : waited'[x] = waited[x] /\ backlog'[x] = backlog[x]
    BY <1>2 DEF HearOwn, Serve, TypeOK
  <2>3. \A x \in Hosts : Has(inbox'[x], x) => Has(inbox[x], x)
    BY <1>2, HearOwnMail
  <2>4. \A a \in Addresses : silent[h][a] <= MAX_NO_REPLY + 0 \/ calm[h] = 0
    BY <2>1, Constants
  <2> QED BY <2>1, <2>2, <2>3, <2>4
<1>3. ASSUME NEW h \in Hosts, Iterate(h) PROVE ExpiryInv'
  <2>1. /\ waited'[h] = 0 /\ up' = up
        /\ \A x \in Hosts \ {h} : waited'[x] = waited[x] /\ backlog'[x] = backlog[x]
    BY <1>3 DEF Iterate, Serve, TypeOK
  <2>2. /\ \A a \in Addresses : silent'[h][a] <= MAX_NO_REPLY
        /\ \A x \in Hosts \ {h} : silent'[x] = silent[x]
    BY <1>3, KeptFacts
  <2>3. \A x \in Hosts \ {h} : /\ Has(inbox'[x], x) => Has(inbox[x], x)
                                 /\ calm'[x] \in {calm[x], 0}
    BY <1>3, IterateMail
  <2>4. \A a \in Addresses : silent'[h][a] <= MAX_NO_REPLY + waited'[h]
    BY <2>1, <2>2, Constants
  <2>5. ASSUME NEW x \in Hosts \ {h}, up'[x], NEW a \in Addresses
        PROVE  /\ \/ silent'[x][a] <= MAX_NO_REPLY + waited'[x]
                  \/ backlog'[x] # <<>> /\ silent'[x][a] <= MAX_NO_REPLY + MaxWait
                  \/ calm'[x] <= waited'[x]
                  \/ backlog'[x] # <<>> /\ calm'[x] <= MaxWait
               /\ Has(inbox'[x], x) => silent'[x][a] <= MAX_NO_REPLY \/ calm'[x] = 0
    <3>1. 0 <= waited'[x]
      BY <2>1, Times
    <3>2. CASE calm'[x] = 0
      BY <3>1, <3>2
    <3>3. CASE calm'[x] = calm[x]
      BY <2>1, <2>2, <2>3, <2>5, <3>3
    <3>4. calm'[x] = calm[x] \/ calm'[x] = 0
      <4>1. x \in Hosts
        OBVIOUS
      <4> HIDE DEF ExpiryInv, Late
      <4> QED BY <1>3, <4>1, IterateMail
    <3> HIDE DEF ExpiryInv, Late
    <3> QED BY <3>2, <3>3, <3>4
  <2>6. \A a \in Addresses : Has(inbox'[h], h) => silent'[h][a] <= MAX_NO_REPLY \/ calm'[h] = 0
    BY <2>2
  <2> QED BY <2>4, <2>5, <2>6
<1>4. ASSUME NEW h \in Hosts, Start(h) PROVE ExpiryInv'
  <2>1. ~Has(inbox'[h], h)
    BY <1>4, HasEmpty DEF Start, MailInv
  <2>2. \A a \in Addresses : silent'[h][a] \in {0, Absent}
    BY <1>4 DEF Start, TypeOK, Empty
  <2>3. waited'[h] = 0
    BY <1>4 DEF Start, TypeOK
  <2>4. \A a \in Addresses : silent'[h][a] <= MAX_NO_REPLY + waited'[h]
    BY <2>2, <2>3, Constants
  <2>5. \A x \in Hosts \ {h} :
          /\ silent'[x] = silent[x] /\ waited'[x] = waited[x] /\ up'[x] = up[x]
          /\ backlog'[x] = backlog[x] /\ inbox'[x] = inbox[x] /\ calm'[x] = calm[x]
    BY <1>4 DEF Start, TypeOK
  <2> QED BY <2>1, <2>4, <2>5
<1>5. ASSUME NEW h \in Hosts, Stop(h) PROVE ExpiryInv'
  <2>1. \A x \in Hosts \ {h} :
          /\ silent'[x] = silent[x] /\ waited'[x] = waited[x] /\ up'[x] = up[x]
          /\ backlog'[x] = backlog[x] /\ inbox'[x] = inbox[x] /\ calm'[x] = calm[x]
    BY <1>5 DEF Stop, TypeOK
  <2>2. ~up'[h]
    BY <1>5 DEF Stop, TypeOK
  <2> QED BY <2>1, <2>2
<1>6. ASSUME NEW c \in Clients, Connect(c) \/ Abort(c) \/ Display(c) PROVE ExpiryInv'
  <2>1. UNCHANGED <<up, silent, waited, inbox, calm>>
    BY <1>6 DEF Connect, Abort, Display
  <2>2. ASSUME NEW x \in Hosts, backlog[x] # <<>> PROVE backlog'[x] # <<>>
    BY <1>6, <2>2, ConnectKeeps
  <2> QED BY <2>1, <2>2
<1>7. CASE Tick
  <2> SUFFICES ASSUME NEW h \in Hosts, up[h], NEW a \in Addresses
               PROVE  /\ silent'[h][a] <= MAX_NO_REPLY + waited'[h] \/ calm'[h] <= waited'[h]
                      /\ Has(inbox'[h], h) => calm'[h] = 0
    BY <1>7 DEF Tick
  <2>1. CASE calm'[h] = 0
    <3>1. waited'[h] \in Nat
      BY <1>7, TickTyped, Constants DEF TypeOK
    <3> QED BY <2>1, <3>1
  <2>2. CASE /\ inbox[h] = <<>> /\ backlog[h] = <<>>
             /\ calm'[h] = Older(calm[h]) /\ waited'[h] = waited[h] + 1
    <3>1. silent[h][a] <= MAX_NO_REPLY + waited[h] \/ calm[h] <= waited[h]
      BY <2>2
    <3>2. silent'[h][a] = Older(silent[h][a]) /\ inbox' = inbox
      BY <1>7, TickMail
    <3>3. /\ silent[h][a] \in Int /\ Older(silent[h][a]) \in Int
          /\ Older(silent[h][a]) <= silent[h][a] + 1
      BY SilentType
    <3>4. /\ waited[h] \in Nat
          /\ calm[h] \in Nat /\ Older(calm[h]) \in Nat /\ Older(calm[h]) <= calm[h] + 1
      BY Times DEF TypeOK
    <3>5. ~Has(inbox'[h], h)
      BY <2>2, <3>2, HasEmpty
    <3>6. CASE silent[h][a] <= MAX_NO_REPLY + waited[h]
      <4>1. Older(silent[h][a]) <= MAX_NO_REPLY + (waited[h] + 1)
        BY <3>3, <3>4, <3>6, Constants
      <4> QED BY <2>2, <3>2, <3>5, <4>1
    <3>7. CASE calm[h] <= waited[h]
      <4>1. Older(calm[h]) <= waited[h] + 1
        BY <3>4, <3>7
      <4> QED BY <2>2, <3>5, <4>1
    <3> QED BY <3>1, <3>6, <3>7
  <2> QED BY <1>7, <2>1, <2>2, TickMail
<1>8. CASE UNCHANGED vars
  BY <1>8 DEF vars
<1> QED BY <1>1, <1>2, <1>3, <1>4, <1>5, <1>6, <1>7, <1>8 DEF Next, Server

LEMMA StaleStep ==
  ASSUME TypeOK, MailInv, StaleInv, [Next]_vars PROVE StaleInv'
<1> USE DEF StaleInv
<1>1. ASSUME NEW i \in Hosts, Iterate(i) PROVE StaleInv'
  <2> SUFFICES ASSUME NEW h \in Hosts, NEW g \in Hosts, up'[h], ~up'[g], silent'[h][g] # Absent
               PROVE  calm'[g] <= silent'[h][g] \/ calm'[h] <= silent'[h][g]
    OBVIOUS
  <2>1. /\ up' = up /\ calm'[g] \in {calm[g], 0} /\ calm'[h] \in {calm[h], 0}
        /\ g \in Addresses
    BY <1>1, IterateMail DEF Iterate, Addresses
  <2>2. CASE silent'[h][g] = silent[h][g]
    <3>1. silent[h][g] \in 0..Horizon
      BY <2>1, <2>2, SilentType
    <3>2. calm[g] <= silent[h][g] \/ calm[h] <= silent[h][g]
      BY <2>1, <2>2
    <3> QED BY <2>1, <2>2, <3>1, <3>2
  <2>3. CASE h = i /\ silent'[h][g] = 0 /\ inbox[h] # <<>> /\ Head(inbox[h]) = g
    <3>1. Has(inbox[h], g)
      BY <2>3, HasTail DEF TypeOK
    <3>2. calm[g] = 0 \/ calm[h] = 0
      BY <2>1, <3>1 DEF MailInv, Fresh
    <3> QED BY <2>1, <2>3, <3>2
  <2> QED BY <1>1, <2>1, <2>2, <2>3, KeptFacts
<1>2. ASSUME NEW i \in Hosts, Start(i) PROVE StaleInv'
  <2>1. /\ up'[i] /\ calm'[i] = 0
        /\ \A x \in Hosts \ {i} : up'[x] = up[x] /\ silent'[x] = silent[x] /\ calm'[x] = calm[x]
    BY <1>2 DEF Start, TypeOK
  <2>2. \A a \in Addresses : silent'[i][a] # Absent => silent'[i][a] = 0
    BY <1>2 DEF Start, TypeOK, Empty
  <2>3. Hosts \subseteq Addresses
    BY DEF Addresses
  <2> QED BY <2>1, <2>2, <2>3
<1>3. ASSUME NEW i \in Hosts, Stop(i) PROVE StaleInv'
  <2>1. /\ ~up'[i] /\ calm'[i] = 0
        /\ \A x \in Hosts \ {i} : up'[x] = up[x] /\ silent'[x] = silent[x] /\ calm'[x] = calm[x]
    BY <1>3 DEF Stop, TypeOK
  <2>2. \A x \in Hosts : silent[x][i] # Absent => 0 <= silent[x][i]
    BY SilentType DEF Addresses
  <2> QED BY <2>1, <2>2
<1>4. CASE Tick
  <2> SUFFICES ASSUME NEW h \in Hosts, NEW g \in Hosts, up[h], ~up[g], silent'[h][g] # Absent
               PROVE  calm'[g] <= silent'[h][g] \/ calm'[h] <= silent'[h][g]
    BY <1>4 DEF Tick
  <2>1. g \in Addresses
    BY DEF Addresses
  <2>2. silent'[h][g] = Older(silent[h][g]) /\ calm'[g] = Older(calm[g])
    BY <1>4, <2>1, TickMail
  <2>3. silent[h][g] # Absent /\ silent[h][g] \in 0..Horizon /\ Older(silent[h][g]) \in Nat
    BY <2>1, <2>2, SilentType, Times
  <2>4. calm[g] \in 0..Horizon /\ calm[h] \in 0..Horizon
    BY DEF TypeOK
  <2>5. CASE calm'[h] = 0
    BY <2>2, <2>3, <2>5
  <2>6. CASE calm'[h] = Older(calm[h])
    BY <2>2, <2>3, <2>4, <2>6, Times
  <2> QED BY <1>4, <2>5, <2>6, TickMail
<1>5. ASSUME UNCHANGED <<up, silent, calm>> PROVE StaleInv'
  BY <1>5
<1> QED BY <1>1, <1>2, <1>3, <1>4, <1>5
        DEF Next, Server, AcceptFails, HearOwn, Connect, Abort, Display, vars

LEMMA ExpiryInvariant == Spec => []ExpiryInv
<1>1. Init => ExpiryInv
  BY DEF Init, ExpiryInv
<1> QED BY <1>1, ExpiryStep, TypeCorrect, MailInvariant, PTL DEF Spec

LEMMA StaleInvariant == Spec => []StaleInv
<1>1. Init => StaleInv
  BY DEF Init, StaleInv
<1> QED BY <1>1, StaleStep, TypeCorrect, MailInvariant, PTL DEF Spec

\* A server that stopped leaves every list within MAX_NO_REPLY and one wait of
\* poll, whatever the clients and own datagrams do in between, counted anew in a
\* server whose accept fails or that has just started.
THEOREM DeadAreForgotten == Spec => []DeadForgotten
<1>1. TypeOK /\ ExpiryInv /\ StaleInv => DeadForgotten
  <2> SUFFICES ASSUME TypeOK, ExpiryInv, StaleInv, NEW h \in Hosts, NEW g \in Hosts,
                      up[h], ~up[g], calm[g] > MAX_NO_REPLY + MaxWait,
                      calm[h] > MAX_NO_REPLY + MaxWait, silent[h][g] # Absent
               PROVE  FALSE
    BY DEF DeadForgotten, Settled
  <2>1. g \in Addresses
    BY DEF Addresses
  <2>2. /\ silent[h][g] \in Int /\ waited[h] \in Nat /\ waited[h] <= MaxWait
        /\ calm[g] \in Nat /\ calm[h] \in Nat
    BY <2>1, SilentType, Times
  <2>3. ~Late(h)
    BY <2>2, Constants DEF Late
  <2>4. silent[h][g] <= MAX_NO_REPLY + MaxWait
    BY <2>1, <2>2, <2>3, Constants DEF ExpiryInv
  <2> QED BY <2>2, <2>4, Constants DEF StaleInv
<1> QED BY <1>1, TypeCorrect, ExpiryInvariant, StaleInvariant, PTL

-----------------------------------------------------------------------------
(* Servers that run.                                                       *)

\* Missing n broadcasts takes so long.
Missed(n) == n * Period
Span == Missed(MaxLosses + 1)

\* How long ago g may last have been heard by h: one broadcast Period for every
\* broadcast lost since, and the time since the last.  One that waits in the
\* queue will be heard before a second goes by.
Bound(h, g) == IF Has(inbox[h], g) THEN Span ELSE Missed(lost[g][h]) + broadcast[g]

\* h heard g no longer than b seconds ago, or accept failed since in one of them,
\* or one of them has started since.
Recent(h, g, b) ==
  \/ calm[h] <= b \/ calm[g] <= b
  \/ silent[h][g] # Absent /\ silent[h][g] <= b

ContactInv ==
  Span <= MAX_NO_REPLY =>
    \A h, g \in Hosts : h # g /\ up[h] /\ up[g] => Recent(h, g, Bound(h, g))

LEMMA MissedFacts ==
  ASSUME NEW n \in 0..MaxLosses
  PROVE  /\ Period \in Nat /\ Period < Horizon /\ Span \in Nat
         /\ Missed(n) \in Nat /\ Missed(n) + Period <= Span
         /\ n + 1 <= MaxLosses => Missed(n + 1) = Missed(n) + Period
<1>1. Period \in Nat /\ Period < Horizon
  BY Constants DEF Period
<1>2. ASSUME NEW p \in Nat, NEW m \in Nat, NEW k \in Nat
      PROVE  /\ k * p \in Nat /\ (k + 1) * p = k * p + p
             /\ (m + k) * p = m * p + k * p
  OBVIOUS
<1>3. n \in Nat /\ MaxLosses - n \in Nat /\ MaxLosses = n + (MaxLosses - n)
  BY Constants
<1>4. n * Period \in Nat /\ (MaxLosses - n) * Period \in Nat /\ MaxLosses * Period \in Nat
  BY <1>1, <1>2, <1>3, Constants
<1>5. MaxLosses * Period = n * Period + (MaxLosses - n) * Period
  BY <1>1, <1>2, <1>3
<1>6. (n + 1) * Period = n * Period + Period
  BY <1>1, <1>2, <1>3
<1>7. (MaxLosses + 1) * Period = MaxLosses * Period + Period
  BY <1>1, <1>2, Constants
<1> DEFINE a == n * Period
           b == (MaxLosses - n) * Period
           c == MaxLosses * Period
<1>8. a \in Nat /\ b \in Nat /\ c \in Nat /\ c = a + b
  BY <1>4, <1>5
<1>9. Missed(n) = a /\ Span = c + Period /\ Missed(n + 1) = a + Period
  BY <1>6, <1>7 DEF Missed, Span
<1> HIDE DEF a, b, c
<1> QED BY <1>1, <1>8, <1>9

LEMMA BoundFacts ==
  ASSUME TypeOK, BroadcastCadence, NEW h \in Hosts, NEW g \in Hosts, up[g]
  PROVE  /\ Bound(h, g) \in Nat /\ Span \in Nat
         /\ lost[g][h] \in 0..MaxLosses /\ Missed(lost[g][h]) \in Nat
         /\ broadcast[g] \in Nat /\ Period \in Nat
         /\ Period < Horizon /\ Period <= Span /\ calm[g] \in Nat
         /\ \/ broadcast[g] <= Period /\ Bound(h, g) <= Span
            \/ broadcast[g] > Period /\ calm[g] <= MaxWait /\ calm[g] <= Period
               /\ calm[g] <= Bound(h, g)
<1>1. lost[g][h] \in 0..MaxLosses
  BY DEF TypeOK
<1>2. /\ broadcast[g] \in Nat /\ calm[g] \in Nat
      /\ broadcast[g] <= Period \/ calm[g] <= MaxWait
  BY Times, Constants DEF BroadcastCadence
<1>3. /\ Period \in Nat /\ Period < Horizon /\ Span \in Nat /\ Missed(lost[g][h]) \in Nat
      /\ Missed(lost[g][h]) + Period <= Span
  BY <1>1, MissedFacts
<1>4. MaxWait \in Nat /\ MaxWait <= Period
  BY Constants DEF Period
<1>5. Missed(lost[g][h]) + broadcast[g] \in Nat /\ Period <= Span
  BY <1>2, <1>3
<1>6. CASE broadcast[g] <= Period
  <2>1. Missed(lost[g][h]) + broadcast[g] <= Span
    BY <1>2, <1>3, <1>6
  <2> QED BY <1>1, <1>2, <1>3, <1>5, <1>6, <2>1 DEF Bound
<1>7. CASE broadcast[g] > Period
  <2>1. /\ calm[g] <= MaxWait /\ calm[g] <= Period /\ calm[g] <= Span
        /\ calm[g] <= Missed(lost[g][h]) + broadcast[g]
    BY <1>2, <1>3, <1>4, <1>5, <1>7
  <2> QED BY <1>1, <1>2, <1>3, <1>5, <1>7, <2>1 DEF Bound
<1> QED BY <1>2, <1>3, <1>6, <1>7

\* A bound that grows, with the rest unchanged, stays one.
LEMMA RecentGrows ==
  ASSUME TypeOK, NEW h \in Hosts, NEW g \in Hosts, NEW b \in Nat, NEW d \in Nat, b <= d,
         Recent(h, g, b)
  PROVE  Recent(h, g, d)
<1>1. calm[h] \in Nat /\ calm[g] \in Nat /\ silent[h][g] \in Int
  BY Times, SilentType DEF Addresses
<1> QED BY <1>1 DEF Recent

LEMMA IterateContact ==
  ASSUME TypeOK, MailInv, BroadcastCadence, TypeOK', ContactInv,
         NEW i \in Hosts, Iterate(i)
  PROVE  ContactInv'
<1>1. up' = up /\ up[i]
  BY DEF Iterate, Polled
<1> SUFFICES ASSUME Span <= MAX_NO_REPLY, NEW h \in Hosts, NEW g \in Hosts,
                    h # g, up[h], up[g]
             PROVE  Recent(h, g, Bound(h, g))'
  BY <1>1 DEF ContactInv, Span, Missed, Period
<1>2. /\ Recent(h, g, Bound(h, g)) /\ g \in Addresses
      /\ calm'[h] \in {calm[h], 0} /\ calm'[g] \in {calm[g], 0}
  BY IterateMail DEF ContactInv, Addresses
<1>3. Bound(h, g) \in Nat /\ Span \in Nat /\ Bound(h, g)' \in Nat
  <2>1. Bound(h, g) \in Nat /\ Span \in Nat
    BY BoundFacts
  <2>2. lost'[g][h] \in 0..MaxLosses /\ broadcast'[g] \in Nat
    BY Constants DEF TypeOK
  <2>3. Missed(lost'[g][h]) \in Nat
    BY <2>2, MissedFacts
  <2>4. Missed(lost'[g][h]) + broadcast'[g] \in Nat
    BY <2>2, <2>3
  <2>5. Bound(h, g)' = IF Has(inbox'[h], g) THEN Span ELSE Missed(lost'[g][h]) + broadcast'[g]
    BY DEF Bound, Has, Span, Missed, Period
  <2> QED BY <2>1, <2>4, <2>5
<1>4. CASE calm'[h] = 0 \/ calm'[g] = 0
  BY <1>3, <1>4 DEF Recent
<1>5. CASE calm'[h] = calm[h] /\ calm'[g] = calm[g] /\ h = i
  <2>1. CASE inbox[h] # <<>> /\ Head(inbox[h]) = g
    <3>1. silent'[h][g] = 0 /\ 0 # Absent
      BY <1>5, <2>1, KeptFacts DEF Absent
    <3> QED BY <1>3, <3>1 DEF Recent
  <2>2. CASE ~(inbox[h] # <<>> /\ Head(inbox[h]) = g)
    <3>1. Has(inbox'[h], g) <=> Has(inbox[h], g)
      BY <1>5, <2>2, IterateMail
    <3>2. lost'[g] = lost[g] /\ broadcast'[g] = broadcast[g]
      BY <1>5, IterateMail
    <3>3. Bound(h, g)' = Bound(h, g)
      BY <3>1, <3>2 DEF Bound, Has, Span, Missed, Period
    <3>4. Bound(h, g) <= Span \/ calm[g] <= Bound(h, g)
      BY BoundFacts
    <3>5. silent[h][g] # Absent /\ silent[h][g] <= Bound(h, g) /\ Bound(h, g) <= Span
          => silent'[h][g] = silent[h][g]
      <4> SUFFICES ASSUME silent[h][g] # Absent, silent[h][g] <= Bound(h, g),
                          Bound(h, g) <= Span
                   PROVE  silent'[h][g] = silent[h][g]
        OBVIOUS
      <4>1. silent[h][g] \in Int
        BY <1>2, SilentType
      <4>2. ~(silent[h][g] > MAX_NO_REPLY)
        BY <1>3, <4>1, Constants
      <4> QED BY <1>2, <1>5, <2>2, <4>2, KeptFacts
    <3> QED BY <1>2, <1>5, <3>3, <3>4, <3>5 DEF Recent
  <2> QED BY <2>1, <2>2
<1>6. CASE calm'[h] = calm[h] /\ calm'[h] # 0 /\ calm'[g] = calm[g] /\ h # i
  <2>1. silent'[h] = silent[h]
    BY <1>6, KeptFacts
  <2>2. CASE g = i /\ BroadcastDue(i)
    <3>1. ~Has(inbox[h], g)
      BY <1>6, <2>2, Constants DEF MailInv, Fresh, BroadcastDue
    <3>2. Bound(h, g) = Missed(lost[g][h]) + broadcast[g]
      BY <3>1 DEF Bound
    <3>3. /\ Missed(lost[g][h]) \in Nat /\ broadcast[g] \in Nat /\ Period \in Nat
          /\ Period <= Span /\ calm[g] \in Nat
          /\ (broadcast[g] <= Period /\ Bound(h, g) <= Span) \/ calm[g] <= Period
      BY BoundFacts
    <3>4. CASE Has(inbox'[h], g)
      <4>1. Bound(h, g)' = Span
        BY <3>4 DEF Bound, Has, Span, Missed, Period
      <4>2. CASE calm[g] <= Period
        <5>1. calm'[g] <= Bound(h, g)'
          BY <1>3, <1>6, <3>3, <4>1, <4>2
        <5> QED BY <5>1 DEF Recent
      <4>3. CASE Bound(h, g) <= Span
        <5>1. Recent(h, g, Span)
          BY <1>2, <1>3, <4>3, RecentGrows
        <5> QED BY <1>6, <2>1, <4>1, <5>1 DEF Recent
      <4> QED BY <3>3, <4>2, <4>3
    <3>5. CASE ~Has(inbox'[h], g)
      <4>1. lost'[g][h] = lost[g][h] + 1 /\ broadcast'[g] = 0
        BY <1>6, <2>2, <3>5, IterateMail
      <4>2. lost[g][h] \in 0..MaxLosses /\ lost[g][h] + 1 <= MaxLosses
        BY <4>1, Constants DEF TypeOK
      <4>3. Missed(lost[g][h] + 1) = Missed(lost[g][h]) + Period
        BY <4>2, MissedFacts
      <4>4. Bound(h, g)' = Missed(lost[g][h] + 1) + 0
        BY <3>5, <4>1 DEF Bound, Has, Span, Missed, Period
      <4>5. Bound(h, g)' = Missed(lost[g][h]) + Period
        BY <3>3, <4>3, <4>4
      <4>6. CASE calm[g] <= Period
        <5>1. calm'[g] <= Bound(h, g)'
          BY <1>6, <3>3, <4>5, <4>6
        <5> QED BY <5>1 DEF Recent
      <4>7. CASE broadcast[g] <= Period
        <5>1. Bound(h, g) <= Bound(h, g)'
          BY <3>2, <3>3, <4>5, <4>7
        <5>2. Recent(h, g, Bound(h, g)')
          BY <1>2, <1>3, <5>1, RecentGrows
        <5> QED BY <1>6, <2>1, <5>2 DEF Recent
      <4> QED BY <3>3, <4>6, <4>7
    <3> QED BY <3>4, <3>5
  <2>3. CASE ~(g = i /\ BroadcastDue(i))
    <3>1. Has(inbox'[h], g) <=> Has(inbox[h], g)
      BY <1>6, <2>3, IterateMail
    <3>2. lost'[g] = lost[g] /\ broadcast'[g] = broadcast[g]
      BY <2>3, IterateMail
    <3>3. Bound(h, g)' = Bound(h, g)
      BY <3>1, <3>2 DEF Bound, Has, Span, Missed, Period
    <3> QED BY <1>2, <1>6, <2>1, <3>3 DEF Recent
  <2> QED BY <2>2, <2>3
<1> QED BY <1>2, <1>4, <1>5, <1>6

LEMMA TickContact ==
  ASSUME TypeOK, MailInv, BroadcastCadence, TypeOK', ContactInv, Tick
  PROVE  ContactInv'
<1> SUFFICES ASSUME Span <= MAX_NO_REPLY, NEW h \in Hosts, NEW g \in Hosts,
                    h # g, up[h], up[g]
             PROVE  Recent(h, g, Bound(h, g))'
  BY DEF ContactInv, Tick, Span, Missed, Period
<1>1. Recent(h, g, Bound(h, g)) /\ g \in Addresses
  BY DEF ContactInv, Addresses
<1>2. Bound(h, g)' = IF Has(inbox'[h], g) THEN Span ELSE Missed(lost'[g][h]) + broadcast'[g]
  BY DEF Bound, Has, Span, Missed, Period
<1>3. /\ Bound(h, g) \in Nat /\ Missed(lost[g][h]) \in Nat /\ Span \in Nat
      /\ broadcast[g] \in Nat /\ Period \in Nat /\ Period < Horizon /\ calm[g] \in Nat
      /\ broadcast[g] <= Period \/ calm[g] <= MaxWait
  BY BoundFacts
<1>4. lost' = lost /\ broadcast'[g] = Older(broadcast[g]) /\ Older(broadcast[g]) \in Nat
  BY TickMail, Times DEF TypeOK
<1>5. Bound(h, g)' \in Nat
  <2>1. Missed(lost'[g][h]) + broadcast'[g] \in Nat
    BY <1>3, <1>4
  <2> QED BY <1>2, <1>3, <2>1
<1>6. CASE calm'[h] = 0 \/ calm'[g] = 0
  BY <1>5, <1>6 DEF Recent
<1>7. CASE inbox[h] = <<>> /\ calm'[h] = Older(calm[h]) /\ calm'[g] = Older(calm[g])
  <2>1. ~Has(inbox[h], g) /\ ~Has(inbox'[h], g)
    BY <1>7, TickMail, HasEmpty
  <2>2. /\ Bound(h, g)' = Missed(lost[g][h]) + broadcast'[g]
        /\ Bound(h, g) = Missed(lost[g][h]) + broadcast[g]
    BY <1>2, <1>4, <2>1 DEF Bound
  <2>3. /\ calm[h] \in Nat /\ calm[g] \in Nat
        /\ Older(calm[h]) \in Nat /\ Older(calm[h]) <= calm[h] + 1
        /\ Older(calm[g]) \in Nat /\ Older(calm[g]) <= calm[g] + 1
    BY Times DEF TypeOK
  <2>4. CASE broadcast[g] = Horizon
    <3>1. calm[g] <= MaxWait
      BY <1>3, <2>4, Constants
    <3>2. broadcast'[g] = Horizon
      BY <1>4, <2>4 DEF Older
    <3>3. calm'[g] <= Bound(h, g)'
      BY <1>3, <1>7, <2>2, <2>3, <3>1, <3>2, Constants
    <3> QED BY <3>3 DEF Recent
  <2>5. CASE broadcast[g] # Horizon
    <3>1. broadcast'[g] = broadcast[g] + 1
      BY <1>3, <1>4, <2>5 DEF Older, Absent
    <3>2. Bound(h, g)' = Bound(h, g) + 1
      BY <1>3, <2>2, <3>1
    <3>3. /\ silent[h][g] \in Int /\ Older(silent[h][g]) \in Int
          /\ Older(silent[h][g]) <= silent[h][g] + 1
          /\ Older(silent[h][g]) # Absent <=> silent[h][g] # Absent
      BY <1>1, SilentType
    <3>4. silent'[h][g] = Older(silent[h][g])
      BY <1>1, TickMail
    <3>5. \/ calm'[h] <= Bound(h, g) + 1 \/ calm'[g] <= Bound(h, g) + 1
          \/ silent'[h][g] # Absent /\ silent'[h][g] <= Bound(h, g) + 1
      <4>1. CASE calm[h] <= Bound(h, g)
        <5>1. calm'[h] <= Bound(h, g) + 1
          BY <1>3, <1>7, <2>3, <4>1
        <5> QED BY <5>1
      <4>2. CASE calm[g] <= Bound(h, g)
        <5>1. calm'[g] <= Bound(h, g) + 1
          BY <1>3, <1>7, <2>3, <4>2
        <5> QED BY <5>1
      <4>3. CASE silent[h][g] # Absent /\ silent[h][g] <= Bound(h, g)
        <5>1. Older(silent[h][g]) <= Bound(h, g) + 1
          BY <1>3, <3>3, <4>3
        <5> QED BY <3>3, <3>4, <4>3, <5>1
      <4> QED BY <1>1, <4>1, <4>2, <4>3 DEF Recent
    <3> QED BY <3>2, <3>5 DEF Recent
  <2> QED BY <2>4, <2>5
<1> QED BY <1>6, <1>7, TickMail

LEMMA ContactStep ==
  ASSUME TypeOK, MailInv, BroadcastCadence, TypeOK', ContactInv, [Next]_vars
  PROVE  ContactInv'
<1>1. ASSUME NEW h \in Hosts, HearOwn(h) PROVE ContactInv'
  <2>1. UNCHANGED <<up, silent, broadcast, calm, lost>>
    BY <1>1 DEF HearOwn
  <2>2. ASSUME NEW x \in Hosts, NEW g \in Hosts, x # g
        PROVE  Has(inbox'[x], g) <=> Has(inbox[x], g)
    BY <1>1, <2>2, HearOwnMail
  <2>3. ASSUME NEW x \in Hosts, NEW g \in Hosts, x # g
        PROVE  Bound(x, g)' = Bound(x, g)
    BY <2>1, <2>2, <2>3 DEF Bound, Has, Span, Missed, Period
  <2> QED BY <2>1, <2>3 DEF ContactInv, Recent, Span, Missed, Period
<1>2. ASSUME NEW i \in Hosts, Start(i) PROVE ContactInv'
  <2>1. /\ calm'[i] = 0 /\ UNCHANGED <<inbox, lost>>
        /\ \A x \in Hosts \ {i} : /\ up'[x] = up[x] /\ silent'[x] = silent[x]
                                  /\ calm'[x] = calm[x] /\ broadcast'[x] = broadcast[x]
    BY <1>2 DEF Start, TypeOK
  <2> SUFFICES ASSUME Span <= MAX_NO_REPLY, NEW h \in Hosts, NEW g \in Hosts,
                      h # g, up'[h], up'[g]
               PROVE  Recent(h, g, Bound(h, g))'
    BY DEF ContactInv, Span, Missed, Period
  <2>2. CASE i \in {h, g}
    <3>1. lost'[g][h] \in 0..MaxLosses /\ broadcast'[g] \in Nat
      BY Constants DEF TypeOK
    <3>2. Missed(lost'[g][h]) \in Nat /\ Span \in Nat
      BY <3>1, MissedFacts
    <3>3. 0 <= Bound(h, g)'
      <4>1. Bound(h, g)' = IF Has(inbox'[h], g) THEN Span ELSE Missed(lost'[g][h]) + broadcast'[g]
        BY DEF Bound, Has, Span, Missed, Period
      <4>2. 0 <= Missed(lost'[g][h]) + broadcast'[g]
        BY <3>1, <3>2
      <4> QED BY <3>2, <4>1, <4>2
    <3> QED BY <2>1, <2>2, <3>3 DEF Recent
  <2>3. CASE i \notin {h, g}
    <3>1. Bound(h, g)' = Bound(h, g)
      BY <2>1, <2>3 DEF Bound, Has, Span, Missed, Period
    <3>2. Recent(h, g, Bound(h, g))
      BY <2>1, <2>3 DEF ContactInv
    <3> QED BY <2>1, <2>3, <3>1, <3>2 DEF Recent
  <2> QED BY <2>2, <2>3
<1>3. ASSUME NEW i \in Hosts, Stop(i) PROVE ContactInv'
  <2>1. /\ ~up'[i]
        /\ \A x \in Hosts \ {i} : /\ up'[x] = up[x] /\ silent'[x] = silent[x]
                                  /\ calm'[x] = calm[x] /\ broadcast'[x] = broadcast[x]
                                  /\ inbox'[x] = inbox[x]
        /\ \A x, y \in Hosts \ {i} : lost'[x][y] = lost[x][y]
    BY <1>3 DEF Stop, TypeOK
  <2> SUFFICES ASSUME Span <= MAX_NO_REPLY, NEW h \in Hosts, NEW g \in Hosts,
                      h # g, up'[h], up'[g]
               PROVE  Recent(h, g, Bound(h, g))'
    BY DEF ContactInv, Span, Missed, Period
  <2>2. h # i /\ g # i
    BY <2>1
  <2>3. Bound(h, g)' = Bound(h, g)
    BY <2>1, <2>2 DEF Bound, Has, Span, Missed, Period
  <2>4. Recent(h, g, Bound(h, g))
    BY <2>1, <2>2 DEF ContactInv
  <2> QED BY <2>1, <2>2, <2>3, <2>4 DEF Recent
<1>4. ASSUME UNCHANGED <<up, silent, broadcast, inbox, calm, lost>> PROVE ContactInv'
  BY <1>4 DEF ContactInv, Recent, Bound, Has, Span, Missed, Period
<1> QED BY <1>1, <1>2, <1>3, <1>4, IterateContact, TickContact
        DEF Next, Server, AcceptFails, Connect, Abort, Display, vars

LEMMA ContactInvariant == Spec => []ContactInv
<1>1. Init => ContactInv
  BY DEF Init, ContactInv
<1> QED BY <1>1, ContactStep, TypeCorrect, MailInvariant, BroadcastsOnTime, PTL DEF Spec

\* Two servers that run list each other, however many broadcasts, up to
\* MaxLosses in a row, are lost, once the last failure of accept is long enough ago.
THEOREM RunningAreKnown == Spec => []MutualKnowledge
<1>1. TypeOK /\ BroadcastCadence /\ ContactInv => MutualKnowledge
  <2> SUFFICES ASSUME TypeOK, BroadcastCadence, ContactInv, Span <= MAX_NO_REPLY,
                      NEW h \in Hosts, NEW g \in Hosts, h # g, up[h], up[g],
                      calm[h] > Span, calm[g] > Span
               PROVE  silent[h][g] # Absent
    BY DEF MutualKnowledge, Settled, Span, Missed
  <2>1. /\ Bound(h, g) \in Nat /\ Span \in Nat /\ Period \in Nat /\ Period <= Span
        /\ Bound(h, g) <= Span \/ calm[g] <= Period
    BY BoundFacts
  <2>2. calm[h] \in Nat /\ calm[g] \in Nat
    BY Times
  <2>3. Bound(h, g) <= Span
    BY <2>1, <2>2
  <2> QED BY <2>1, <2>2, <2>3 DEF ContactInv, Recent
<1> QED BY <1>1, TypeCorrect, BroadcastsOnTime, ContactInvariant, PTL

=============================================================================

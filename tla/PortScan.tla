------------------------------- MODULE PortScan -------------------------------
(***************************************************************************)
(* The port scanner Cyber/PortScan.c: main creates a thread for each port, *)
(* sleeps for a fixed time and returns, which ends the threads that are    *)
(* not done.  Each call in which main or a thread can wait is a place of   *)
(* its own; who is due moves before the clock does.  A thread holds its    *)
(* arguments until it is done, and the socket of the protocol it is at.    *)
(***************************************************************************)
EXTENDS Integers

CONSTANTS
  start_port,
  end_port,
  MAX_THREADS,
  TCP_TIMEOUT,  \* how long select waits (TCP_TIMEOUT_MS)
  UDP_TIMEOUT,  \* how long recvfrom waits (UDP_TIMEOUT_MS)
  GRACE,        \* what main sleeps beyond UDP_TIMEOUT (500 ms)
  Targets,      \* what the ports of the hosts that may be scanned do
  Lag           \* bound: time until a thread that is due runs

Ports == start_port..end_port

\* Does the port accept connections, and what does it do with a datagram: an
\* answer may fit into the buffer of udp or not.
Port == [tcp : BOOLEAN, udp : {"answers", "overlong", "refuses", "silent"}]
Protocols == {"tcp", "udp"}

ASSUME PortsAssumption == start_port \in Nat /\ end_port \in Nat
ASSUME ThreadsAssumption == MAX_THREADS \in Nat \ {0}
ASSUME TargetsAssumption == Targets \subseteq [Ports -> Port]
ASSUME TimesAssumption ==
  /\ TCP_TIMEOUT \in Nat /\ UDP_TIMEOUT \in Nat /\ GRACE \in Nat
  /\ Lag \in Nat

ReportLines == {"tcp OPEN", "udp OPEN", "udp OPEN - FILTERED"}

\* "failed" if CreateThread has, which leaks the arguments; "killed" by exit.
Places == {"none", "failed", "start", "tcp", "udp", "done", "killed"}

Thread ==
  [at : Places,
   from : Nat,                    \* when it got there
   born : Nat,                    \* history: when it was created
   skipped : SUBSET Protocols,    \* history: those without a socket
   heard : [Protocols -> {"none", "prompt", "late"}],  \* the answer of the port
   printed : SUBSET ReportLines]

NoThread == [at |-> "none", from |-> 0, born |-> 0, skipped |-> {},
             heard |-> [proto \in Protocols |-> "none"], printed |-> {}]

VARIABLES
  mpc,      \* the place of main, "off" when it does not run
  p,        \* its loop variable
  sem,      \* the count of the semaphore
  since,    \* when main got to its place
  clock,
  target,   \* the host that is scanned
  threads

ScanVars == <<mpc, p, sem, since, clock, target, threads>>

ScanInit ==
  /\ mpc = "off" /\ p = start_port /\ sem = MAX_THREADS
  /\ since = 0 /\ clock = 0
  /\ target \in Targets
  /\ threads = [q \in Ports |-> NoThread]

-----------------------------------------------------------------------------
(* main                                                                    *)

Goto(place) == mpc' = place /\ since' = clock

\* Wrong arguments and a failing WSAStartup are stuttering steps.
Startup ==
  /\ mpc = "off"
  /\ Goto("acquire")
  /\ UNCHANGED <<p, sem, clock, target, threads>>

Acquire ==
  /\ mpc = "acquire" /\ p <= end_port /\ sem > 0
  /\ Goto("create")
  /\ sem' = sem - 1
  /\ UNCHANGED <<p, clock, target, threads>>

\* malloc, CreateThread and CloseHandle
Create ==
  /\ mpc = "create"
  /\ Goto("release")
  /\ \E place \in {"start", "failed"} :
       threads' = [threads EXCEPT ![p] = [NoThread EXCEPT !.at = place,
                                                          !.from = clock, !.born = clock]]
  /\ UNCHANGED <<p, sem, clock, target>>

\* Mutant: the slot is not given back.
ReleaseNothing ==
  /\ mpc = "release"
  /\ Goto("acquire")
  /\ p' = p + 1
  /\ UNCHANGED <<sem, clock, target, threads>>

Release ==
  /\ mpc = "release"
  /\ Goto("acquire")
  /\ p' = p + 1
  /\ sem' = sem + 1
  /\ UNCHANGED <<clock, target, threads>>

LoopEnds ==
  /\ mpc = "acquire" /\ p > end_port
  /\ Goto("sleep")
  /\ UNCHANGED <<p, sem, clock, target, threads>>

Unfinished(t) == t.at \in {"start", "tcp", "udp"}

\* Mutant: main only sleeps for UDP_TIMEOUT.
NapTimeShort == UDP_TIMEOUT

NapTime == UDP_TIMEOUT + GRACE

\* WSACleanup and the end of the process.
Exit ==
  /\ mpc = "sleep" /\ clock >= since + NapTime
  /\ mpc' = "exited"
  /\ threads' = [q \in Ports |-> IF Unfinished(threads[q]) THEN [threads[q] EXCEPT !.at = "killed"]
                                                           ELSE threads[q]]
  /\ UNCHANGED <<p, sem, since, clock, target>>

Main == Startup \/ Acquire \/ Create \/ Release \/ LoopEnds \/ Exit

-----------------------------------------------------------------------------
(* The threads.                                                            *)

\* The thread q has printed `lines' and ends, or returns from tcp to call udp,
\* where it may get no socket.
Ends(q, lines) ==
  threads' = [threads EXCEPT ![q].at = "done", ![q].printed = @ \cup lines]

CallsUdp(q, lines, unable) ==
  \/ threads' = [threads EXCEPT ![q].at = "udp", ![q].from = clock,
                                ![q].printed = @ \cup lines, ![q].skipped = @ \cup unable]
  \/ threads' = [threads EXCEPT ![q].at = "done", ![q].printed = @ \cup lines,
                                ![q].skipped = @ \cup unable \cup {"udp"}]

Begin(q) ==
  /\ threads[q].at = "start"
  /\ \/ threads' = [threads EXCEPT ![q].at = "tcp", ![q].from = clock]
     \/ CallsUdp(q, {}, {"tcp"})

\* A socket that has an answer in time is ready at once.  One that has it late may
\* still be found ready, by a thread that is late as well, or not.
TimesOut(q, proto, timeout) ==
  /\ threads[q].heard[proto] # "prompt"
  /\ clock >= threads[q].from + timeout

\* select finds the socket writable ...
TcpOpen(q) ==
  /\ threads[q].at = "tcp" /\ threads[q].heard["tcp"] # "none"
  /\ CallsUdp(q, {"tcp OPEN"}, {})

\* ... or times out: a connection that is refused would be in exceptfds.
TcpTimesOut(q) ==
  /\ threads[q].at = "tcp" /\ TimesOut(q, "tcp", TCP_TIMEOUT)
  /\ CallsUdp(q, {}, {})

UdpAnswered(q) ==
  /\ threads[q].at = "udp" /\ threads[q].heard["udp"] # "none" /\ target[q].udp = "answers"
  /\ Ends(q, {"udp OPEN"})

\* Mutant: every error counts as a timeout.
UdpFailsFiltered(q) ==
  /\ threads[q].at = "udp" /\ threads[q].heard["udp"] # "none" /\ target[q].udp # "answers"
  /\ Ends(q, {"udp OPEN - FILTERED"})

\* WSAECONNRESET, or WSAEMSGSIZE for an answer that is longer than the buffer.
UdpFails(q) ==
  /\ threads[q].at = "udp" /\ threads[q].heard["udp"] # "none" /\ target[q].udp # "answers"
  /\ Ends(q, {})

UdpTimesOut(q) ==
  /\ threads[q].at = "udp" /\ TimesOut(q, "udp", UDP_TIMEOUT)
  /\ Ends(q, {"udp OPEN - FILTERED"})

thread(q) ==
  /\ mpc # "exited"
  /\ Begin(q) \/ TcpOpen(q) \/ TcpTimesOut(q) \/ UdpAnswered(q) \/ UdpFails(q) \/ UdpTimesOut(q)
  /\ UNCHANGED <<mpc, p, sem, since, clock, target>>

-----------------------------------------------------------------------------
(* Time.                                                                   *)

MainDue ==
  IF mpc = "sleep" THEN since + UDP_TIMEOUT + GRACE + Lag ELSE since + Lag

Timeout(proto) == IF proto = "tcp" THEN TCP_TIMEOUT ELSE UDP_TIMEOUT

\* A thread that waits for an answer is due when its timeout is over at the latest.
Due(q) ==
  LET t == threads[q] IN t.from + (IF t.at \in Protocols THEN Timeout(t.at) ELSE 0) + Lag

\* The port answers the socket of the thread q, at any time or never.
Answer(q) ==
  LET t    == threads[q]
      time == IF clock < t.from + Timeout(t.at) THEN "prompt" ELSE "late"
  IN
  /\ t.at \in Protocols /\ t.heard[t.at] = "none"
  /\ IF t.at = "tcp" THEN target[q].tcp ELSE target[q].udp # "silent"
  /\ threads' = [threads EXCEPT ![q].heard = [@ EXCEPT ![t.at] = time]]
  /\ UNCHANGED <<mpc, p, sem, since, clock, target>>

Tick ==
  /\ mpc \notin {"off", "exited"} /\ clock < MainDue
  /\ \A q \in Ports : Unfinished(threads[q]) => clock < Due(q)
  /\ clock' = clock + 1
  /\ UNCHANGED <<mpc, p, sem, since, target, threads>>

\* The window is closed, or another scan is begun.
Again ==
  /\ mpc # "off"
  /\ mpc' = "off" /\ p' = start_port /\ sem' = MAX_THREADS
  /\ since' = 0 /\ clock' = 0
  /\ target' \in Targets
  /\ threads' = [q \in Ports |-> NoThread]

ScanStep == Main \/ Tick \/ \E q \in Ports : thread(q)

ScanNext == ScanStep \/ Again \/ \E q \in Ports : Answer(q)

ScanSpec == ScanInit /\ [][ScanNext]_ScanVars

\* The scheduler runs main and the threads, and time goes on; no port need answer.
FairScanSpec == ScanSpec /\ WF_ScanVars(ScanStep)

-----------------------------------------------------------------------------
(* Properties.                                                             *)

\* The type of each variable; a thread is there for the ports main has been to.
ScanTypeOK ==
  /\ mpc \in {"off", "acquire", "create", "release", "sleep", "exited"}
  /\ p \in Nat /\ (mpc \in {"create", "release"} => p \in Ports)
  /\ sem \in 0..MAX_THREADS
  /\ since \in Nat /\ clock \in Nat
  /\ target \in [Ports -> Port]
  /\ threads \in [Ports -> Thread]

\* What the thread of a port may print, whatever comes late: OPEN is only said of a
\* port that accepted or answered, and FILTERED only of one that sent nothing in time.
OnlyTrueLines(t, does) ==
  /\ "tcp OPEN" \in t.printed => does.tcp
  /\ "udp OPEN" \in t.printed => does.udp = "answers"
  /\ "udp OPEN - FILTERED" \in t.printed => t.heard["udp"] # "prompt" /\ "udp OPEN" \notin t.printed

\* What it has printed when it ends: what was answered in time, and a line for the
\* silence of a port it could ask.  Of a port that refuses it says nothing at all.
AllLines(t, does) ==
  /\ t.heard["tcp"] = "prompt" => "tcp OPEN" \in t.printed
  /\ t.heard["udp"] = "prompt" /\ does.udp = "answers" => "udp OPEN" \in t.printed
  /\ t.heard["udp"] = "none" /\ "udp" \notin t.skipped => "udp OPEN - FILTERED" \in t.printed

\* Every line of the report is true, also of threads that are under way or were cut
\* off, and the report of a thread that ended lacks none.
ReportsTrue ==
  \A q \in Ports :
    /\ OnlyTrueLines(threads[q], target[q])
    /\ threads[q].at = "done" => AllLines(threads[q], target[q])

\* main does not wait for its threads, and the semaphore holds none back.  Still
\* its last sleep is as long as the two waits of a thread: what it cuts off was
\* created no more than TCP_TIMEOUT - GRACE and three lags before that sleep.
OnlyLastPortsCutOff ==
  \A q \in Ports :
    threads[q].at = "killed" => since - threads[q].born <= TCP_TIMEOUT - GRACE + 3 * Lag

\* A scan comes to its end, although main takes a slot for each port and no
\* thread gives one back.
ScanEnds == mpc \notin {"off", "exited"} ~> mpc \in {"off", "exited"}

=============================================================================

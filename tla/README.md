# Verification of Project_Junkyard

TLA+ models, TLC runs and TLAPS proofs for the programs of this repository.
The repository is a collection of small, independent programs; the models
follow the ones that have concurrency, time, failure or an algorithm in them.
Paths below are relative to `src/`.

## 1. The system: inventory

### Neighbour discovery daemon and its client
`C-based/Task-Socket-Com-cpp/service.cpp`, `cli.cpp` (`Linux_only/` holds copies;
`C-based/C/service.cpp` is an older variant).

*State*: the table `neighbors` (name, ip, mac, lastSeen), the own interfaces
`myInfo`, `last_hello`, the time `now` of the current iteration, and the kernel's
queues: UDP socket buffer and the accept queue of the UNIX socket.
*Operations*: `receive_hello`, `send_hello`, `myInfo_update`,
`delete_expired_neighbors`, answering one client per iteration.
*Interaction*: UDP broadcasts between hosts; a UNIX stream socket between daemon
and `cli`; `getifaddrs` for the interfaces; `time(NULL)` for the clock.
*Hard*: `now` is sampled before `select` sleeps and used afterwards; a single
thread serves network, timers and clients, so whatever blocks one blocks all;
datagrams are lost, delayed and echoed; clients die while they wait; interfaces
change under the daemon; the daemon is killed and restarted.
*Correct means*: one line per neighbour; nobody heard recently is missing; nobody
long silent is reported; HELLOs leave on time; clients are answered; the daemon
stays up.

### Second discovery server
`C-based/Task-Socket-Com-cpp_3/server.cpp`, `cli.cpp`. The same idea with `poll`,
a monotonic clock, a table keyed by ip and two dummy entries. The answer is built
before the datagram is read, and two `continue`s skip expiry and broadcast, the first of them
again and again for as long as `accept` fails: the client it could not take stays queued.
*Correct means*: broadcasts leave on time on every path, or soon after the shortage that
kept them back; servers that run list each other although broadcasts get lost; those
that stopped are forgotten.

### Character device with a producer thread
`linux/kernalSpace/module2/module2.c`, read by `linux/userSpace/test_module2.c`.
*State*: `message`, `message_len`, `data_available`, the wait queue, all shared
between the producer kthread and any number of readers without a lock.
*Hard*: every interleaving of the producer's three writes with a reader's check,
copy and two resets; the producer goes by time, whatever readers do. *Correct means*: a
reader never gets an empty read, messages come whole, in order and at most once, nobody
sleeps on available data; and where the missing lock breaks this, it is whole again afterwards.

### Proxy chain of UniApp
`C-based/C/UniApp/Utils/chain_proxy.cpp` (menu, accept loop with a detached thread per client,
`ForwardProxyChain`, `RelayTraffic`), with `main.cpp`, `command.cpp`, `printInfo.cpp`,
`admin.cpp`, and `proxy.cpp`, which nothing compiles.
*State*: the global `proxy_chain`; in each thread its copy, the socket of the current
hop, an answer buffer; two TCP streams. *Interaction*: browser, proxies, target; `WSACleanup`
takes the sockets of all threads away at once.
*Hard*: both sides readable or closed in one pass; early returns that must close the right
sockets; answers that arrive together with data, or never; requests and answers taken for C strings,
and for whole with the first `recv`. *Correct means*: traffic goes
through the whole chain; nothing is lost, repeated or reordered; nothing stays open.

### Games
`2048.cpp` (board, score, score file), `spaceWars.c` (player, arrays of bullets and
enemies, score), `PingPong.c` (ball, its direction, paddle). Each is one loop that reads a key,
changes globals and draws.
*Hard*: four copies of one algorithm for four directions; a tile after every key;
the end of a game that is only looked for before the next key; objects that move in
turn and are compared once per frame; limits tested before or after a move. *Correct
means*: the rules of the game; what moves stays in the field; a hit counts.

### Tools
`PortScan.c`: `main` makes a thread per port, between acquiring and releasing a semaphore,
sleeps and returns. A thread waits for a TCP connection (`select`), then for an answer to
a datagram (`recvfrom`), and prints. *Hard*: the process ends without waiting for its
threads; sockets and threads that cannot be made; answers that come after a timeout.
*Correct means*: what is printed of a port is so; no port that answers in time is forgotten.
`PortListiner.cpp` and `ProcKill.c` print tables of Windows.

### AES-128
`aes-128/aesMain.c` encrypts a text, decrypts it and prints it again, with `aes.c`,
`sbox.h` and `rcon.h`; a Java version in `Java/`.
*State*: the buffer `pMessageHex`, changed in place, and `roundKeys`. The buffer's
length is not passed on: `revert_Hex` looks for the padding to know where the text ends.
*Hard*: ten rounds whose inverses must come in the opposite order, where a wrong byte
only shows at the end, or not at all if both directions are wrong; texts whose length is a
multiple of 16, and texts that look like a padding. *Correct means*: it is AES-128;
decryption undoes encryption; what is printed is the text.

### Small programs
`pointerList.c` (linked list), `Task-Socket-Com-cpp_2` (one-shot UDP hello),
`linux/kernalSpace/module1`, a calculator's window (`aes-128/UI/main.c`), rendering engine, Simple_Mine, Python
and shell scripts.

## 2. What is modelled, and how it corresponds to the code

| module | code | theorems |
|---|---|---|
| `NeighborService` | `Task-Socket-Com-cpp/service.cpp`, `cli.cpp` | `NeighborServiceProofs` |
| `NeighborDirectory` | the promise of that daemon to its clients (abstract) | |
| `DiscoveryServer` | `Task-Socket-Com-cpp_3/server.cpp`, `cli.cpp` | `DiscoveryServerProofs` |
| `Module2Device` | `module2.c`, `test_module2.c` | `Module2DeviceProofs` |
| `ChainProxy` | `UniApp/Utils/chain_proxy.cpp` | `ChainProxyProofs` |
| `Game2048` | `games/2048.cpp` | `Game2048Proofs` |
| `SpaceWars` | `games/spaceWars.c` | `ProgramsProofs` |
| `PingPong` | `games/PingPong.c` | `ProgramsProofs` |
| `PortScan` | `Cyber/PortScan.c` | `ProgramsProofs` |
| `Aes`, `AesTables` | `aes-128/aes.c`, `aesMain.c`, `aes.h`, `sbox.h`, `rcon.h` | `AesProofs` |
| `AesJava` | `Java/AESFunctions.java`, `AESPad.java`, `AESBox.java`, `encrypt` of `aes128.java` | `AesProofs` |
| `AesStandard` | what the cipher should be, FIPS 197 (reference) | `AesProofs` |
| `RecursionLemmas` | induction and recursion over numbers, for the proofs | itself |

Every `MC...` module extends one of the models with the definitions its configurations
(`MC..._<run>.cfg`) give to constants. `MCPrograms` has the four programs that run alone,
2048, Space Wars, ping pong and the port scanner: they share nothing, so a behaviour is
one of one of them. Definitions called "Mutant" in a comment are
the plausible bugs that each property was tried against; no action uses them.
`map` in PROJECT.json names the lines behind each definition.

### NeighborService
One daemon, its clients, the network, the interfaces and the clock. `pc` is the
statement `snd_rec_msg` is at: `top` (337-346, `now` is sampled), `select`, `recv`
(`receive_hello`), `hello` (`send_hello`, `myInfo_update`), `expire`
(`delete_expired_neighbors`) and `serve` (`accept`, `write`, `close`). Between any
two of them a second may pass, a datagram arrive, a client connect or die, an
interface change. The variables are the code's; `heard` and `sent` are history variables.
An address is a number, a subnet a block of `netsize` numbers, a HELLO a
record whose `src` is what `recvfrom` reports and whose `ip` and `mac` are its text.
`Faults` names what may go wrong in an instance: `select`, `accept`,
`getifaddrs`, a client or the daemon being killed.

`NeighborDirectory` says the same without loop, table and sockets: an answer names
everyone heard in the last `Sure` seconds and nobody silent for more than `Stale`.
`ImplementsDirectory` maps `Sure` to `TIMEOUT - MaxIter` and `Stale` to
`TIMEOUT + MaxIter`: the two seconds of an iteration are what sampling `now` before
`select` costs.

### DiscoveryServer
A network whose hosts all run the second server. One iteration of `main_loop`, from
the return of `poll` to the next call, is one action in three forms: it fails to
accept (`AcceptFails`, first `continue`), it hears its own broadcast (`HearOwn`,
second `continue`), or it runs to its end (`Iterate`). A broadcast reaches every
server that is up, its sender as well, unless it is lost or the receiver's buffer is full. The code only uses
differences of `steady_clock`, so instants are kept as ages, which stop at `Horizon`
and so make the state space finite without stopping the clock. An iteration takes
no time compared to a second, but `accept` may fail for seconds: in `Tick` the servers that
are `stuck` go round and round at their first `continue` while time passes. `calm`, a
history variable, is the time since the last such second, or since the buffer dropped a datagram.

### Module2Device
Each access to `message`, `message_len` and `data_available` is an action, in the
producer (`test`, `print`, `printing`, `publish`, `retest`, `sleep`) and in each
reader (`poll`, `read`, `len`, `copy`, `copying`, `clear`). `snprintf` and
`copy_to_user` have a beginning and an end, between which others run. The stores of
a pair may be swapped when `Reorder` (the code has neither a lock nor barriers). The
producer's sleep ends whatever readers do, so it may overwrite a message that is being copied, and
any number of readers may pass the wait for one message.
Loading acquires the four resources one by one and each may fail.

Three history variables say where a race was: `raced[r]`, that somebody else wrote to what
the present round of reader r uses while it used it; `reset`, that the resets of a reader hit what the producer
had stored for the message that is there; `taken`, the latest message got in a round without one.

### ChainProxy
The menu and `local_Proxy` are the main thread; each client has a connection, served
by a detached thread that is at `request`, `connect`, `reply`, `target` or `relay`:
the calls in which it blocks. A thread goes from one to the next in one action,
so `SendRequest` and `Loop` are operators on a connection. A socket is
named after the pass of the loop that made it, which shows the ones that are
dropped without `closesocket`. Streams are sequences of numbered segments. The request is
what one `recv` returns and what of it is before its first NUL, since it becomes a string (line 244): `request` counts the segments received,
`text` those that are left of them, `missed` those of the target that come with its reply and are dropped with it. A proxy may
grant, refuse or hang up, and `find("200")` may say anything of a refusal, of a grant that
comes in pieces and of stack bytes behind a reply, since the buffer is not terminated; so whether the loop goes
on is not tied to what the proxy meant. `substr(8)` throws when the request is the
word CONNECT alone, which ends the program (`Terminate`).

### Game2048
One pass of the loop of `main` that reads a key is one action: the move with its three
loops (shift, merge, shift), the score, the tile that appears after every key,
whatever it was. The score file may be missing when the leaderboard is shown (`Error`). The four move functions are one operator (`Pushed`) on the lines that
`Cell` reads in the four directions.

### SpaceWars, PingPong
An action is one pass of the loop of `main`. Columns and the appearance of enemies, which
`rand()` decides, are free choices; a key is one of those the code knows, or another one.
Bullets and enemies are functions from slots to cells, `Off` when not active.
`Frame` composes the steps in the code's order: the key, bullets, enemies, collisions.

### PortScan
`main` is at `acquire`, `create`, `release` or `sleep`, a thread at `start`, `tcp`, `udp`
or `done`: the calls in which they wait. `clock` counts in units of 500 ms, the
divisor of all the code's times. Whoever is due runs before the clock goes on (`Due`),
at most `Lag` late, so the order of main and threads within that time is free. A port answers
at any time or never (`Answer`); an answer that comes when the timeout is over finds the thread gone on,
or not yet. `born`, `from`, `heard` and `skipped` are history variables. A scan may be broken off at any moment and another one begun.

### Aes
`main` is at `prepare`, `key`, `expand`, `encrypt`, `decrypt` or `revert`; an action
is a word of the expanded key or a round of a block. A byte is the set of its bits, so
that `^` is the symmetric difference, and `gmul` is unrolled: both are then in reach of
the provers. `stages` is a history of every block's encryption. `revert_Hex` is one
action: it stops at the first end of a block that looks like a padding (`Ends`); where there is
none it reads on (`NoEnd`) into what is behind the buffer, whose bytes it may print or be stopped by.
`AesStandard` has the same cipher as polynomials modulo x^8 + x^4 + x^3 + x + 1, with the
S-box computed as inverse and affine transformation, and shares no definition with the model.
`AesJava` has the Java version's `encrypt`, which keeps no state, as operators.

## 3. What the runs check

| run | instance | shows |
|---|---|---|
| `timing` | 2 clients, one neighbour, `TIMEOUT` 3, `BROADCAST_INTERVAL` 2, iterations of up to 1 s, clock 2..7, failing `accept` and `getifaddrs`, kills and restarts | neighbours do not drop out early (`KnownUntilTimeout`), HELLOs leave on time unless no interface was found to send them through, `accept` never blocks, every client is answered; the daemon implements `NeighborDirectory` |
| `faults` | one client, a neighbour with two addresses, malformed and foreign HELLOs, an interface that comes and goes, kills, failing `select`, `accept` and `getifaddrs` | one line per mac, whose address stays and whose stamp never goes back |
| `self` | the host's second interface goes down | violated: the host lists itself |
| `sigpipe` | a client that is killed while it waits | violated: the daemon dies with it |
| `lan` | 2 servers, one at the dummy neighbour's address, one client, `MAX_NO_REPLY` 4, lost broadcasts, `accept` that fails once or for seconds, buffers of two datagrams | broadcasts on time, servers that run know each other, those that stopped are forgotten, each as soon after a shortage as after a start; clients are answered |
| `device_races` | 2 readers, 2 messages, early opens, swapped stores | no lost wake-up, nothing leaks, no stale bytes; rmmod returns; nobody sleeps on a message for ever |
| `device_rounds` | 2 readers, 3 messages, early opens, swapped stores | a read nobody raced returns a whole message that is newer than any before it (`WholeAndOnce`), and at once if poll came first (`ReadsAsPromised`), whatever races were lost on the messages before |
| `device_eof` | 2 readers, stores in order, no early opens | violated: one reads 0 bytes |
| `relay` | one client, chains of up to 3 proxies, 3 segments each way, requests that are cut or come in pieces | what is relayed is what the loop had left, complete and in order (`StreamsExact`), sockets closed, the relay ends |
| `hops` | chains of up to 2 | violated: traffic passes only the last proxy |
| `programs` | whole games of 2048 on a 2x2 board with two players, every line of four of {0, 2, 4}; Space Wars on 2x6 with two bullets, two enemies and two hits; ping pong on its own field of 20x10; scans of two ports that accept, answer, refuse or are silent, in time, late or never, with threads up to 500 ms late | 2048: moves follow the rules and conserve tiles, score and board agree, the end comes exactly when no key has an effect, the leaderboard names the first best or says that it cannot. Space Wars: which shots must and cannot hit; an enemy that reaches the player ends the game. Ping pong: the ball stays in the field. Scanner: every line is true and no answer in time is left out, only the last ports are cut off, a scan ends |
| `cipher` | 10 texts of 0 to 33 bytes, four of them with values of a padding at the end of a block or across it, two keys, `MAX_BYTES` 32 | round by round the code is AES-128; decryption restores the padded text; what is printed is the text wherever its end can be found, and otherwise a beginning of it, or it and then bytes from behind the buffer; the Java version gives the same blocks, and one more for a text that fills its last (`JavaAgrees`) |

### Bounds, and why they are enough
- *Seconds.* What matters in both daemons is the order of `TIMEOUT`,
  `BROADCAST_INTERVAL` and the length of an iteration, not their size. In `timing` the
  clock covers a HELLO, its expiry and a second round. In `lan` ages saturate at
  `Horizon`, so time does not end; the bounds of the three timing properties are tight
  there: one second less is violated, of the period as of the time after a shortage.
- *`MaxIter`.* An iteration that is not blocked lasts at most this long; the properties
  speak of it, and the theorems hold for any value.
- *Queues.* `MaxInbox` 1 (3 in `self`, which needs a queued echo) and a full backlog
  (`BACKLOG + 1` clients) reach every case of `Ready`; one datagram is
  served in each iteration, so a longer queue only repeats. How long a HELLO lay in the buffer is
  outside: `heard` is the moment `recvfrom` takes it. In `lan` the buffer holds two, so
  that a shortage fills it, leaves old datagrams in it and drops new ones; the theorems hold for any size.
- *Hosts.* Two: the code compares addresses only for equality, and a third host's
  datagrams touch only its own entry.
- *Readers, messages.* Two readers race for one flag, one of which polls; a third message follows
  one that was lost to a race and one that was not. `Length` grows, as numbers do.
- *Clients of the proxy.* One: threads share nothing but the sockets that `WSACleanup`
  or the end of the program takes from all of them at any moment. The theorems hold for any number.
- *Chains, segments.* Three hops have a first, a middle and a last one.
- *Field of Space Wars.* Six rows have an even and an odd distance from which a bullet meets
  an enemy, and the rows in which it cannot; two slots of each kind let two bullets meet one
  enemy. `MaxKills` ends a game after two hits, since `kills` is only counted.
- *`PaddleRange`.* The paddle may leave the field without limit; the rows followed beyond it
  exceed its height, after which nothing changes. The field is the code's own.
- *Ports.* Two with a semaphore of one: main would wait if slots were kept. `Lag` 1: a thread may be
  as late as the timeout of TCP is long, and lose its race with an answer or with main's last sleep. The
  bound of `OnlyLastPortsCutOff` is reached: with one `Lag` less it is violated.
- *Board.* 2x2 holds whole games, filled boards and their ends; lines of four are
  checked on their own, since `Pushed` works on one line at a time.
- *Texts and keys.* A block is worked on alone, and every byte of a block and a round
  passes through both tables; the texts reach no, one, two and three blocks, `MAX_BYTES`
  (4096 in the code) reached and not reached, and every way `revert_Hex` can end.

### Fairness, and why the code justifies it
- `NeighborService`: weak fairness of the daemon's loop (the scheduler runs it) and of a
  client that has its answer (its `read` returns). Not of clients connecting,
  of datagrams or of restarts. The clock may stop: an answer does not need it to go on,
  since a queued client makes `select` return. `accept` may fail for ever: `ClientsAnswered`
  then claims nothing.
- `DiscoveryServer`: weak fairness of the iterations of each server in which `accept` does not fail: the
  scheduler runs it, and a shortage of descriptors or memory, however long, has an end. Only
  `ClientsAnswered` needs it; the timing properties say from when on they hold.
- `Module2Device`: the kernel schedules the producer, a reader that can run, and
  the task that waits in `kthread_stop`. A signal, an open, a load or an unload may never come.
- `PortScan`: the scheduler runs main and the threads, and time goes on
  (`WF(ScanStep)`); threads that end, main and the clock are one action, since the clock waits for
  whoever is due. No port has to answer. The games claim nothing that must happen: nobody has to press a key.
- `ChainProxy`: a thread whose `select` has returned runs. Nothing is assumed of proxies
  and clients: a hop that never answers blocks its thread for ever.

### Disagreements found
- `sigpipe`: `write` to a client that has gone raises SIGPIPE (service.cpp:389), which
  nothing ignores; the header says "Runs continuously".
- `self`: own HELLOs are recognised by the interfaces of the last update
  (service.cpp:183); one that is queued while an interface goes down is taken for a
  neighbour's, against "Skip our own broadcasts".
- `device_eof`: test, use and reset of the flag are not atomic (module2.c:30-36); a
  second reader returns 0, against "block until data is available".
- `hops`: each pass of the loop opens a new, direct socket (chain_proxy.cpp:120),
  against "Connect step-by-step through proxies".

Seen while modelling, without a run of their own: after an error of `select` both
descriptors count as ready and `accept` may block (modelled, excluded where it matters);
`cli` reads 1023 bytes of any longer answer; the table keeps the first ip of a mac;
an answer of a UDP port that is longer than 64 bytes is an error to `PortScan.c`, which says nothing of that
port; a request with a NUL is cut there (chain_proxy.cpp:244), a 200 anywhere in a refusal passes for a
grant and one cut in two does not (line 142); while `accept` fails the second server neither reads nor
broadcasts (server.cpp:151);
`read` of module2 ignores O_NONBLOCK; the device node exists before its wait queue
(modelled, `EarlyOpen`); the second `cli` prints an unterminated buffer; in 2048 a
signed char never equals 0xE0, so that arrow keys move nothing and still spawn tiles;
`move` of ping pong tests the limit of each key for the other one, so that the paddle can
leave the field for good; in Space Wars bullets start at row `HEIGHT - 2` and rise
before they are compared, so that nothing hits an enemy from row `HEIGHT - 3` on, and at an odd
distance they pass each other (`ShotsHit`); the header of `PortScan.c` promises "CLOSED"
(PortScan.c:4), which is never printed: of a closed port nothing is said, as of one whose thread could not be
made, and `ReportsTrue` says no more than that what is printed is true; it promises "BOTH TCP and UDP on each port" (PortScan.c:3), where
main's exit may cut off the last ones; its `MAX_THREADS` bounds nothing (`SlotAlwaysFree`);
PKCS#7 gives a text whose length is a multiple of 16 a block of padding, `prepare_Block`
gives it none, so that `revert_Hex` reads on behind the buffer and may print what is there (`NoEnd`); a text with a byte 1 at the end of a block is cut there by `revert_Hex`.

## 4. What is proved

The theorems hold for every value of the constants that the named assumptions allow.

*NeighborServiceProofs.* `TypeCorrect`; `UniqueEntries` (one line per mac, inductive by
itself) and from it `LinesAreRenewed` (with `StampsPast`: no stamp is ahead of `now`); and, while `select` does not fail, `AcceptNeverBlocks`, `KnownNeighbors`,
`HellosOnTime`, `FreshReplies` and `Refinement`. The last five share the invariant
`IInv`: a descriptor in `readfds` behind `select` is still ready (`BacklogReady`); `now` is at most
an iteration old (`FreshNow`); the last HELLO is no older than `last_hello` where the last look found
an interface (`HelloOnTime`); the stamp of a mac is at most an iteration older
than the moment it was heard (`StampsInTime`); behind `expire` the table has no entry that is too old
(`Swept`). None of the properties is inductive without them: each compares the clock
with a stamp taken from the stale `now`. `Refinement` maps each action to a step of
`NeighborDirectory` or a stutter.

*DiscoveryServerProofs.* `TypeCorrect`, `BroadcastsOnTime`, `DeadAreForgotten`,
`RunningAreKnown`. `CadenceInv` relates the age of a broadcast to the time spent in
`poll` and to `calm`, and shows that the two `continue`s do no lasting harm: when `accept` works
again the queued client makes `poll` return in the same second; before the second the
broadcast has just been sent (`MailInv`: without a shortage a datagram is read in the second it was sent).
`ExpiryInv` and `StaleInv` bound the age of an entry by the time since its host
stopped or the shortage ended. `ContactInv` bounds the age of a contact between two servers that run by the number
of broadcasts lost in a row times the period, plus the age of the latest. None of the theorems assumes
that `accept` works or that the buffer is large.

*Module2DeviceProofs.* `TypeCorrect`, `NothingIsLeaked` (by `LoaderInv`: what is acquired at
each place of the loader), `WakeupsAreNotLost`, `NoByteIsStale` (lengths grow, so the length a
reader took is never beyond the message it copies: `MessageInv`, `CopyInv`), and `ReadsKeepPromise`, `MessagesAreWhole`,
for any number of readers, any times and either order of the stores. These two come from
`RacesInv`: `StoresInv` says that the flag, the length and the message are of one message except while the
producer is at it or where `reset` says so, and `RoundInv` what a reader without a race has of it at each
place of its round, and that it is newer than `taken`. Each access has a lemma that it keeps
what others hold, or sets their `raced` (`OthersKept`).

*ChainProxyProofs.* `TypeCorrect`, `StreamsAreExact`, `LastSocketIsClosed`, from one invariant of a connection (`Good`):
what was lost with the request or the reply, what was passed on and what waits make up the segments sent, before,
during and after the relay. Each operator of a thread has a lemma that it keeps `Good`, and lemmas on
`Segments` do the sequence arithmetic.

*AesProofs.* `TypeCorrect`, `DecryptionRestores`, `PrintsPrefix`, `RecoversText` and, from
these two, `ShowsText`, from the only assumption about the tables that `inv_s_box` undoes `s_box`. At the bottom
are bytes: `gmul` is linear, and for each bit the columns of `inv_Column` times those of
`mix_Column` are the identity (`ColumnsInverse`); rows and tables are their own
lemmas. From these follow the three cases in which a round of `de_Crypt` undoes what a
round of `aes_Encrypt` did (`LastUndone`, `MiddleUndone`, `FirstUndone`). `BlocksRestored` says
nothing before the last round, so the invariant has to say what every block is in the
middle: `EncryptInv` chains its stages, and `DecryptInv` says that after `de_Crypt`'s round r
the block is what round r of the encryption began with, bytes and rows already moved.
For the text, `PadValues` tells paddings apart by their bits, and `OnlyEnd` shows that
the padding is the only end there is; `OverreadIsText` says that where there is none the whole text is
printed first, if anything is.
`CodeIsStandard`: if the table is SubByte of the standard, what the code does to any text with any
key is AES. The standard multiplies polynomials and reduces them, the code shifts and
tests a bit; `TimesIs` and `RoundIs` show that these agree, `KeyWordIs` the same of a word
of the key, and the invariant `ScheduleInv` (`KeyIsExpanded`) that the words written at any moment
are those. That the table of sbox.h is SubByte is a fact about 256 numbers, which TLC
computes (`StandardTable` in `MCAes`).
`VersionsAgree`: with the table of sbox.h, the Java version encrypts every text with every key as
the C version does. `JavaMoved`, `JavaMixed` and `JavaAdded` compare the steps of a round, `JavaKey` and
`JavaRounds` the loops, `JavaPad` the two paddings.

*Game2048Proofs.* For boards of every size and any file of scores: `TypesKept`, `ScoreOnTheBoard`,
`EndsWhenStuck`, `MovesKeepTheRules`, `LeaderIsBest`, `TilesAreConserved`. There are three layers.
A line: the loops of a move are recursive functions, each of which is unrolled once (`ShiftedRuns`,
`MergedRuns`, ...) with `RecursionLemmas`; `PushedByRules` shows that shift, merge and shift give the
line that the rules name, by what the loop that merges has reached at each cell (`Reached`). A board:
`MovedExactly` says that a move keeps the sum over the board of any weight for which a merged
tile weighs as much as the two, but for its `gain`; score and conservation are two such weights.
The program: `IInv` says that the board has powers of 2 only, that of tiles that are at
least 2^k there are at most SIZE * SIZE + 2 - k (`Bounded`: without it, that no tile is
beyond 2^(SIZE * SIZE + 1) is not inductive), and that what the tiles on the board must have
scored (`Merit`: k - 1 times 2^(k - 1) for a tile 2^k, which began as tiles of 2) is the score and 2 for the tile of 4 at the
beginning. `GameOverIs` compares the loops of `gameOver` with what the four keys would do.

*ProgramsProofs.* `TypesOfAll`: the types of the four programs together. Space Wars:
`WarTypeCorrect`, `NobodyAtThePlayer`, `ShotsHitAsTheyMust`, for every size of
field and arrays. Two facts about bullets carry the third: an active one is above row
`HEIGHT - 2` (`BulletsHigh`), and no two are in one row (`BulletsApart`), without which
the first of them would take the enemy and leave the other to pass.
Ping pong: `PongTypeCorrect`, `BallStaysInField`; `BallInField` is
inductive because it says which way the ball goes at each edge.
Port scanner: `ScanTypeCorrect`, `ReportsAreTrue`, `EarlyPortsAreScanned`, `SlotAlwaysFree`.
`LoopInv` says that the count is `MAX_THREADS` but for the slot main holds;
`ThreadsInTime` bounds the age of a thread at each of its places by the waits behind it and a lag
for each, and `PrintedSoFar` says what a thread has printed and heard when it gets there.

*RecursionLemmas.* What is defined by recursion exists and is unique, and induction, stated with
sets in place of predicates, so that the provers can use them: `LeastOf` from the well-foundedness of
the numbers, then `Induction`, `Recursion`, `RunsOnce`.

*Only model-checked.* The liveness properties (`ClientsAnswered` twice, `UnloadEnds`,
`ReadersWoken`, `RelayEnds`, `ScanEnds`): fairness and ENABLED are beyond the prover. The four
violations, which are counterexamples. And `StandardTable`, a table compared with what 256 inversions give.
Every other property that a run checks is a theorem.

## 5. What is not modelled, and why

- `Linux_only/`: byte for byte the files `NeighborService` models. `C-based/C/service.cpp`,
  `cli.cpp`: the predecessor, with the same loop; the subnet of a HELLO is looked for among
  all interfaces instead of one at a time, and there is no debug flag.
- `Task-Socket-Com-cpp_2`: one send, one receive. `module1`: prints a line.
- UniApp's other files print system information. `proxy.cpp` is in no compile line and does
  not compile (line 37 lacks a semicolon); `chain_proxy.cpp` took its place.
- `pointerList.c`: builds, prints and frees a list in one pass of one thread.
- `PortListiner.cpp`, `ProcKill.c`: tables of Windows, no state; the header of the second says
  that it does not work.
- What is drawn in the games, and the names of services in `PortScan`.
- Of AES in Java: the file that is read and the hexadecimal text that is printed.
  `key_input` of `aesMain.c`: only commented-out code calls it. `UI/main.c`: a window whose buttons change one text field.
- Rendering engine, Simple_Mine, GUI, Python, Terraform, scripts: calls of libraries.
- In the modelled parts: the text of messages, the sender's interface name, failing
  calls of a setup (the process ends, a stuttering step), a clock that is set back,
  two daemons on one host, `send` that blocks on a peer that does not read.

## 6. Plan

The order follows what the programs have most of: concurrency and time first, then
composition, then algorithms. Done: the modules of section 2 and their theorems.

What is left, in the order of what it would add:

1. The older daemon `C-based/C/service.cpp` as a variant of `NeighborService`: its subnet
   test, and its mask of an interface without a netmask, which nothing initialises.
2. An abstract specification for `DiscoveryServer`, as `NeighborDirectory` is for the first
   daemon; the two servers' bounds side by side would compare wall clock and steady clock.
3. Changes of address for `DiscoveryServer`, whose `infoList` is read once.
4. `send` that blocks in `ChainProxy`: two peers that do not read stop the relay.

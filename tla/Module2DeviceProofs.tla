------------------------- MODULE Module2DeviceProofs -------------------------
(* Theorems about Module2Device, for any readers, lengths and compilers.   *)
EXTENDS Module2Device, TLAPS

USE DEF loader, shared, producer, locals, races, outcome

-----------------------------------------------------------------------------
(* Types.                                                                  *)

\* The producer numbers its messages 0..MaxMessages; after the last one it only
\* wakes to stop.
CounterInv ==
  /\ ppc \in {"print", "printing"} => counter <= MaxMessages
  /\ ppc = "test" => counter <= MaxMessages \/ should_stop
  /\ ppc \in {"printing", "publish"} => message.seq # NoSeq

Typed == TypeOK /\ CounterInv

LEMMA NoMessageType == NoMessage \in Message /\ MaxMessages \in Nat /\ 0 \in 0..Count
  BY MessagesAssumption, ReadersAssumption DEF NoMessage, Message

LEMMA InitTyped == Init => Typed
<1> SUFFICES ASSUME Init PROVE Typed
  OBVIOUS
<1>1. CounterInv
  BY DEF Init, CounterInv
<1>2. tocopy \in [Readers -> 0..Count] /\ seen \in [Readers -> Message]
  BY NoMessageType DEF Init
<1>3. /\ rpc \in [Readers -> {"closed"}] /\ whole \in [Readers -> BOOLEAN]
      /\ rpend \in [Readers -> SUBSET Stores] /\ result \in [Readers -> {"none"}]
      /\ raced \in [Readers -> BOOLEAN]
  BY DEF Init
<1>4. message \in Message /\ counter \in 0..MaxMessages + 1
  BY NoMessageType DEF Init
<1> QED BY <1>1, <1>2, <1>3, <1>4 DEF Init, Typed, TypeOK

LEMMA VanishTyped == ASSUME Typed, Vanish PROVE Typed'
<1>1. CounterInv'
  BY DEF Vanish, CounterInv
<1>2. rpc' \in [Readers -> {"closed", "oops"}]
  BY DEF Vanish
<1>3. message' \in Message /\ counter' \in 0..MaxMessages + 1
  BY NoMessageType DEF Vanish
<1> QED BY <1>1, <1>2, <1>3 DEF Vanish, Typed, TypeOK

LEMMA LoaderTyped == ASSUME Typed, Loader PROVE Typed'
<1> USE DEF Typed, TypeOK, CounterInv
<1>1. CASE Load        BY <1>1 DEF Load
<1>2. CASE InitQueue   BY <1>2 DEF InitQueue
<1>3. CASE StartThread BY <1>3, MessagesAssumption DEF StartThread
<1>4. CASE ThreadFails BY <1>4, VanishTyped DEF ThreadFails
<1>5. CASE Unload      BY <1>5 DEF Unload
<1>6. CASE Unloaded    BY <1>6, VanishTyped DEF Unloaded
<1>7. ASSUME NEW x \in Resources, Acquire(x) PROVE Typed'
  BY <1>7 DEF Acquire
<1> QED BY <1>1, <1>2, <1>3, <1>4, <1>5, <1>6, <1>7 DEF Loader

LEMMA WakeUpTyped == ASSUME Typed, WakeUp PROVE Typed'
<1>1. rpc' \in [Readers -> {"closed", "poll", "pollsleep", "read", "readsleep", "len",
                            "copy", "copying", "clear", "oops"}]
  BY DEF WakeUp, Typed, TypeOK
<1> QED BY <1>1 DEF WakeUp, Typed, TypeOK, CounterInv

LEMMA ProducerTyped == ASSUME Typed, Producer PROVE Typed'
<1> USE DEF Typed, TypeOK, CounterInv
<1>1. CASE Test        BY <1>1 DEF Test
<1>2. CASE PrintBegin
  <2>1. message' \in Message
    BY <1>2 DEF PrintBegin, Message
  <2>2. message'.seq # NoSeq
    BY <1>2 DEF PrintBegin, NoSeq
  <2> QED BY <1>2, <2>1, <2>2 DEF PrintBegin
<1>3. CASE PrintEnd
  <2>1. message' = [seq |-> message.seq, torn |-> FALSE] /\ message' \in Message
    BY <1>3 DEF PrintEnd, Message
  <2>2. message.seq # NoSeq
    BY <1>3 DEF PrintEnd
  <2> QED BY <1>3, <2>1, <2>2, MessagesAssumption DEF PrintEnd
<1>4. CASE WakeUp      BY <1>4, WakeUpTyped
<1>5. CASE Retest      BY <1>5 DEF Retest
<1>6. CASE SleepEnds   BY <1>6, MessagesAssumption DEF SleepEnds
<1>7. ASSUME NEW v \in Stores, Publish(v) PROVE Typed'
  <2>1. message.seq \in 0..MaxMessages
    BY <1>7 DEF Publish, Message
  <2>2. Printed(message.seq) \in Nat
    BY <2>1, MessagesAssumption DEF Printed
  <2> QED BY <1>7, <2>2 DEF Publish
<1> QED BY <1>1, <1>2, <1>3, <1>4, <1>5, <1>6, <1>7 DEF Producer

LEMMA ReaderTyped == ASSUME Typed, NEW r \in Readers, Reader(r) PROVE Typed'
<1> USE DEF Typed, TypeOK, CounterInv
<1>1. CASE OpenDevice(r) BY <1>1 DEF OpenDevice, LoopOf
<1>2. CASE Wait(r)
  <2>1. raced' \in [Readers -> BOOLEAN]
    <3>1. BeginsRaced \in BOOLEAN
      BY DEF BeginsRaced
    <3> QED BY <1>2, <3>1 DEF Wait, Looked
  <2>2. rpc' \in [Readers -> {"closed", "poll", "pollsleep", "read", "readsleep", "len",
                             "copy", "copying", "clear", "oops"}]
    BY <1>2 DEF Wait
  <2>3. UNCHANGED <<loader, shared, producer, locals, reset, outcome>>
    BY <1>2 DEF Wait
  <2> QED BY <2>1, <2>2, <2>3
<1>3. CASE TakeLength(r)
  <2>1. Smaller(Count, message_len) \in 0..Count
    BY ReadersAssumption DEF Smaller
  <2> QED BY <1>3, <2>1 DEF TakeLength
<1>4. CASE CopyBegin(r)  BY <1>4 DEF CopyBegin
<1>5. CASE CopyEnd(r)    BY <1>5 DEF CopyEnd
<1>6. CASE CopyFails(r)  BY <1>6, NoMessageType DEF CopyFails, Leave
<1>7. CASE Return(r)
  <2>1. seen[r].seq \in 0..MaxMessages \cup {NoSeq}
    BY DEF Message
  <2> QED BY <1>7, <2>1, NoMessageType DEF Return, LoopOf, Leave
<1>8. CASE Interrupt(r)  BY <1>8 DEF Interrupt
<1>9. ASSUME NEW v \in Stores, Clear(r, v) PROVE Typed'
  BY <1>9 DEF Clear
<1> QED BY <1>1, <1>2, <1>3, <1>4, <1>5, <1>6, <1>7, <1>8, <1>9 DEF Reader, ReaderRuns

LEMMA StutterTyped == ASSUME Typed, UNCHANGED vars PROVE Typed'
  BY DEF Typed, TypeOK, CounterInv, vars

LEMMA TypedInvariant == Spec => []Typed
<1>1. Typed /\ [Next]_vars => Typed'
  BY LoaderTyped, ProducerTyped, ReaderTyped, StutterTyped DEF Next
<1> QED BY InitTyped, <1>1, PTL DEF Spec

\* Every variable keeps its type; in particular no read copies more than the
\* reader's buffer holds, whichever length it raced with.
THEOREM TypeCorrect == Spec => []TypeOK
<1>1. Typed => TypeOK
  BY DEF Typed
<1> QED BY <1>1, TypedInvariant, PTL

-----------------------------------------------------------------------------
(* Loading and unloading.                                                  *)

LoaderInv ==
  /\ lpc = "unloaded" => resources = {}
  /\ lpc \in {"unloaded", "loading"} => ~queueInit
  /\ lpc \in {"starting", "live", "stopping"} => resources = Resources /\ queueInit
  /\ ppc # "none" => lpc \in {"live", "stopping"}

LEMMA LoaderInvariant == Spec => []LoaderInv
<1>1. Init => LoaderInv
  BY DEF Init, LoaderInv
<1>2. TypeOK /\ LoaderInv /\ [Next]_vars => LoaderInv'
  <2> SUFFICES ASSUME TypeOK, LoaderInv, [Next]_vars PROVE LoaderInv'
    OBVIOUS
  <2> USE DEF LoaderInv
  <2>1. CASE Loader
    <3>1. CASE Load \/ InitQueue \/ StartThread \/ Unload
      BY <3>1 DEF Load, InitQueue, StartThread, Unload
    <3>2. CASE ThreadFails \/ Unloaded
      BY <3>2 DEF ThreadFails, Unloaded, Vanish
    <3>3. ASSUME NEW x \in Resources, Acquire(x) PROVE LoaderInv'
      <4>1. Undo[x] = Before[x]
        BY DEF Resources, Undo, Before
      <4>2. lpc' = "unloaded" => resources' = {}
        BY <3>3, <4>1 DEF Acquire
      <4> QED BY <3>3, <4>2 DEF Acquire
    <3> QED BY <2>1, <3>1, <3>2, <3>3 DEF Loader
  <2>2. CASE Producer
    BY <2>2 DEF Producer, Test, PrintBegin, PrintEnd, Publish, WakeUp, Retest, SleepEnds
  <2>3. CASE \E r \in Readers : Reader(r)
    BY <2>3 DEF Reader, ReaderRuns, OpenDevice, Wait, TakeLength, CopyBegin, CopyEnd,
                CopyFails, Clear, Return, Interrupt, Leave
  <2>4. CASE UNCHANGED vars
    BY <2>4 DEF vars
  <2> QED BY <2>1, <2>2, <2>3, <2>4 DEF Next
<1> QED BY <1>1, <1>2, TypeCorrect, PTL DEF Spec

\* Nothing stays registered after a failed load or an unload, and the thread
\* never outlives what it uses.
THEOREM NothingIsLeaked == Spec => []NothingLeaks
<1>1. LoaderInv => NothingLeaks
  BY DEF LoaderInv, NothingLeaks
<1> QED BY <1>1, LoaderInvariant, PTL

-----------------------------------------------------------------------------
(* Waking the readers.                                                     *)

\* Before the thread runs nothing can be there to be woken for.
WakeupInv == NoLostWakeup /\ (ppc = "none" => data_available = 0)

\* A reader that sleeps although a message is there is about to be woken.
THEOREM WakeupsAreNotLost == Spec => []NoLostWakeup
<1>1. Init => WakeupInv
  BY DEF Init, WakeupInv, NoLostWakeup
<1>2. TypeOK /\ LoaderInv /\ WakeupInv /\ [Next]_vars => WakeupInv'
  <2> SUFFICES ASSUME TypeOK, LoaderInv, WakeupInv, [Next]_vars PROVE WakeupInv'
    OBVIOUS
  <2> USE DEF WakeupInv, NoLostWakeup, Asleep
  <2>1. CASE Loader
    <3>1. CASE Load \/ InitQueue \/ Unload \/ \E x \in Resources : Acquire(x)
      BY <3>1 DEF Load, InitQueue, Unload, Acquire
    <3>2. CASE ThreadFails \/ Unloaded
      BY <3>2 DEF ThreadFails, Unloaded, Vanish
    <3>3. CASE StartThread
      BY <3>3 DEF StartThread, LoaderInv
    <3> QED BY <2>1, <3>1, <3>2, <3>3 DEF Loader
  <2>2. CASE WakeUp
    BY <2>2 DEF WakeUp
  <2>3. CASE Test \/ PrintBegin \/ PrintEnd \/ Retest \/ SleepEnds
    BY <2>3 DEF Test, PrintBegin, PrintEnd, Retest, SleepEnds
  <2>4. CASE \E v \in Stores : Publish(v)
    BY <2>4 DEF Publish
  <2>5. ASSUME NEW r \in Readers, Wait(r) PROVE WakeupInv'
    BY <2>5 DEF Wait, TypeOK
  <2>6. ASSUME NEW r \in Readers,
               \/ OpenDevice(r) \/ TakeLength(r) \/ CopyBegin(r) \/ CopyEnd(r)
               \/ CopyFails(r) \/ Return(r) \/ Interrupt(r)
        PROVE  WakeupInv'
    <3>1. Asleep' \subseteq Asleep /\ data_available' = data_available /\ ppc' = ppc
      BY <2>6 DEF OpenDevice, TakeLength, CopyBegin, CopyEnd, CopyFails, Return, Interrupt,
                  LoopOf, Leave, TypeOK
    <3> QED BY <3>1
  <2>7. ASSUME NEW r \in Readers, NEW v \in Stores, Clear(r, v) PROVE WakeupInv'
    BY <2>7 DEF Clear, Stores
  <2>8. CASE UNCHANGED vars
    BY <2>8 DEF vars
  <2> QED BY <2>1, <2>2, <2>3, <2>4, <2>5, <2>6, <2>7, <2>8
          DEF Next, Producer, Reader, ReaderRuns
<1>3. WakeupInv => NoLostWakeup
  BY DEF WakeupInv
<1> QED BY <1>1, <1>2, <1>3, TypeCorrect, LoaderInvariant, PTL DEF Spec

-----------------------------------------------------------------------------
(* What a read can copy.                                                   *)

\* The buffer holds ever later messages, and the published length is never of a
\* later one than the buffer's.
MessageInv ==
  /\ ppc = "none" => message.seq = NoSeq /\ message_len = 0
  /\ IF ppc = "printing" THEN message.seq = counter ELSE message.seq < counter
  /\ message_len # 0 => message.seq # NoSeq /\ message_len <= Length[message.seq]
  /\ data_available = 1 => message.seq # NoSeq

Reading(r) == rpc[r] \in {"len", "copy", "copying", "clear"}

\* Nor is the length a reader took.
CopyInv ==
  \A r \in Readers :
    /\ Reading(r) => message.seq # NoSeq
    /\ rpc[r] = "copy" => tocopy[r] <= Length[message.seq]
    /\ rpc[r] \in {"copying", "clear"} => /\ seen[r].seq # NoSeq
                                          /\ tocopy[r] <= Length[seen[r].seq]

LEMMA MessageFacts ==
  ASSUME Typed
  PROVE  /\ message.seq \in 0..MaxMessages \cup {NoSeq} /\ message_len \in Nat
         /\ counter \in Nat /\ NoSeq = -1
         /\ \A n \in 0..MaxMessages : Length[n] \in Nat \ {0}
         /\ \A r \in Readers : /\ seen[r].seq \in 0..MaxMessages \cup {NoSeq}
                               /\ tocopy[r] \in Nat
<1>1. message.seq \in 0..MaxMessages \cup {NoSeq}
  BY DEF Typed, TypeOK, Message
<1>2. counter \in Nat
  BY MessagesAssumption DEF Typed, TypeOK
<1>3. \A n \in 0..MaxMessages : Length[n] \in Nat \ {0}
  BY MessagesAssumption
<1>4. ASSUME NEW r \in Readers
      PROVE  seen[r].seq \in 0..MaxMessages \cup {NoSeq} /\ tocopy[r] \in Nat
  <2>1. seen[r] \in Message /\ tocopy[r] \in 0..Count
    BY DEF Typed, TypeOK
  <2> QED BY <2>1, ReadersAssumption DEF Message
<1> QED BY <1>1, <1>2, <1>3, <1>4 DEF NoSeq, Typed, TypeOK

LEMMA VanishMessage == ASSUME Vanish PROVE MessageInv' /\ CopyInv'
<1>1. \A r \in Readers : rpc'[r] \in {"closed", "oops"}
  BY DEF Vanish
<1>2. CopyInv'
  BY <1>1 DEF CopyInv, Reading
<1>3. message'.seq = -1 /\ counter' = 0 /\ message_len' = 0 /\ data_available' = 0
      /\ ppc' = "none"
  BY DEF Vanish, NoMessage, NoSeq
<1> QED BY <1>2, <1>3 DEF MessageInv, NoSeq

LEMMA LoaderMessage ==
  ASSUME Typed, LoaderInv, MessageInv, CopyInv, Loader PROVE MessageInv' /\ CopyInv'
<1>1. CASE Load \/ Unload
  BY <1>1 DEF Load, Unload, MessageInv, CopyInv, Reading
<1>2. CASE InitQueue
  BY <1>2 DEF InitQueue, MessageInv, CopyInv, Reading
<1>3. CASE StartThread
  <2>1. ppc = "none"
    BY <1>3 DEF StartThread, LoaderInv
  <2>2. message.seq = -1 /\ message_len = 0
    BY <2>1 DEF MessageInv, NoSeq
  <2>3. CopyInv'
    BY <1>3 DEF StartThread, CopyInv, Reading
  <2> QED BY <1>3, <2>2, <2>3 DEF StartThread, MessageInv, NoSeq
<1>4. CASE ThreadFails \/ Unloaded
  BY <1>4, VanishMessage DEF ThreadFails, Unloaded
<1>5. ASSUME NEW x \in Resources, Acquire(x) PROVE MessageInv' /\ CopyInv'
  BY <1>5 DEF Acquire, MessageInv, CopyInv, Reading
<1> QED BY <1>1, <1>2, <1>3, <1>4, <1>5 DEF Loader

LEMMA ProducerMessage ==
  ASSUME Typed, MessageInv, CopyInv, Producer PROVE MessageInv' /\ CopyInv'
<1>1. CASE Test \/ Retest \/ SleepEnds
  BY <1>1 DEF Test, Retest, SleepEnds, MessageInv, CopyInv, Reading
<1>2. CASE PrintBegin
  <2>1. /\ message'.seq = counter /\ message.seq < counter /\ counter \in 0..MaxMessages
        /\ ppc' = "printing" /\ counter' = counter
    BY <1>2, MessageFacts DEF PrintBegin, MessageInv, Typed, CounterInv
  <2>2. \A n \in 0..MaxMessages : n = message.seq => Length[n] <= Length[counter]
    BY <2>1, MessageFacts, MessagesAssumption
  <2>3. message.seq # NoSeq => /\ Length[message.seq] <= Length[counter]
                               /\ Length[message.seq] \in Nat /\ Length[counter] \in Nat
    BY <2>1, <2>2, MessageFacts
  <2>4. MessageInv'
    <3>1. message_len # 0 => message_len <= Length[counter]
      BY <2>3, MessageFacts DEF MessageInv
    <3> QED BY <1>2, <2>1, <3>1, MessageFacts DEF PrintBegin, MessageInv
  <2>5. ASSUME NEW r \in Readers, rpc[r] = "copy" PROVE tocopy[r] <= Length[counter]
    BY <2>3, <2>5, MessageFacts DEF CopyInv, Reading
  <2>6. CopyInv'
    BY <1>2, <2>1, <2>5, MessageFacts DEF PrintBegin, CopyInv, Reading
  <2> QED BY <2>4, <2>6
<1>3. CASE PrintEnd
  <2>1. message'.seq = message.seq
    BY <1>3 DEF PrintEnd, Typed, TypeOK, Message
  <2>2. MessageInv'
    BY <1>3, <2>1, MessageFacts DEF PrintEnd, MessageInv
  <2>3. CopyInv'
    BY <1>3, <2>1 DEF PrintEnd, CopyInv, Reading
  <2> QED BY <2>2, <2>3
<1>4. CASE WakeUp
  <2>1. ASSUME NEW r \in Readers
        PROVE  rpc'[r] \in {"len", "copy", "copying", "clear"} => rpc'[r] = rpc[r]
    BY <1>4 DEF WakeUp, Typed, TypeOK
  <2>2. CopyInv'
    BY <1>4, <2>1 DEF WakeUp, CopyInv, Reading
  <2> QED BY <1>4, <2>2 DEF WakeUp, MessageInv
<1>5. ASSUME NEW v \in Stores, Publish(v) PROVE MessageInv' /\ CopyInv'
  <2>1. message.seq # NoSeq /\ Printed(message.seq) = Length[message.seq]
    BY <1>5 DEF Publish, Typed, CounterInv, Printed
  <2>2. Length[message.seq] \in Nat
    BY <2>1, MessageFacts
  <2>3. MessageInv'
    BY <1>5, <2>1, <2>2 DEF Publish, MessageInv
  <2>4. CopyInv'
    BY <1>5 DEF Publish, CopyInv, Reading
  <2> QED BY <2>3, <2>4
<1> QED BY <1>1, <1>2, <1>3, <1>4, <1>5 DEF Producer

LEMMA ReaderMessage ==
  ASSUME Typed, MessageInv, CopyInv, NEW r \in Readers, Reader(r)
  PROVE  MessageInv' /\ CopyInv'
<1>1. MessageInv'
  BY DEF Reader, ReaderRuns, OpenDevice, Wait, TakeLength, CopyBegin, CopyEnd, CopyFails,
         Clear, Return, Interrupt, Leave, MessageInv, Stores, Typed, TypeOK
<1> SUFFICES CopyInv'
  BY <1>1
<1> USE DEF CopyInv, Reading, Typed, TypeOK
<1>2. CASE OpenDevice(r) \/ CopyFails(r) \/ Return(r) \/ Interrupt(r)
  <2>1. ASSUME NEW x \in Readers, rpc'[x] \in {"len", "copy", "copying", "clear"}
        PROVE  rpc'[x] = rpc[x] /\ tocopy'[x] = tocopy[x] /\ seen'[x] = seen[x]
    BY <1>2, <2>1 DEF OpenDevice, CopyFails, Return, Interrupt, LoopOf, Leave
  <2>2. message' = message
    BY <1>2 DEF OpenDevice, CopyFails, Return, Interrupt, Leave
  <2> QED BY <2>1, <2>2
<1>3. CASE Wait(r)
  BY <1>3 DEF Wait, MessageInv
<1>4. CASE TakeLength(r)
  <2>1. message.seq # NoSeq
    BY <1>4 DEF TakeLength
  <2>2. Length[message.seq] \in Nat \ {0}
    BY <2>1, MessageFacts
  <2>3. Smaller(Count, message_len) <= message_len
    BY ReadersAssumption DEF Smaller
  <2>4. Smaller(Count, message_len) <= Length[message.seq]
    BY <2>2, <2>3, ReadersAssumption DEF MessageInv, Smaller
  <2>5. rpc'[r] = "copy" /\ tocopy'[r] <= Length[message'.seq]
    BY <1>4, <2>4 DEF TakeLength
  <2>6. \A x \in Readers \ {r} : rpc'[x] = rpc[x] /\ tocopy'[x] = tocopy[x]
    BY <1>4 DEF TakeLength
  <2> QED BY <1>4, <2>1, <2>5, <2>6 DEF TakeLength
<1>5. CASE CopyBegin(r)
  <2>1. rpc'[r] = "copying" /\ seen'[r] = message
    BY <1>5 DEF CopyBegin
  <2>2. \A x \in Readers \ {r} : rpc'[x] = rpc[x] /\ seen'[x] = seen[x]
    BY <1>5 DEF CopyBegin
  <2>3. message.seq # NoSeq /\ tocopy[r] <= Length[message.seq]
    BY <1>5 DEF CopyBegin
  <2> QED BY <1>5, <2>1, <2>2, <2>3 DEF CopyBegin
<1>6. CASE CopyEnd(r)
  <2>1. rpc'[r] = "clear" /\ \A x \in Readers \ {r} : rpc'[x] = rpc[x]
    BY <1>6 DEF CopyEnd
  <2> QED BY <1>6, <2>1 DEF CopyEnd
<1>7. ASSUME NEW v \in Stores, Clear(r, v) PROVE CopyInv'
  BY <1>7 DEF Clear
<1> QED BY <1>2, <1>3, <1>4, <1>5, <1>6, <1>7 DEF Reader, ReaderRuns

LEMMA MessageInvariant == Spec => [](MessageInv /\ CopyInv)
<1>1. Init => MessageInv /\ CopyInv
  BY DEF Init, MessageInv, CopyInv, Reading, NoMessage, NoSeq
<1>2. Typed /\ LoaderInv /\ MessageInv /\ CopyInv /\ [Next]_vars => MessageInv' /\ CopyInv'
  <2>1. ASSUME MessageInv, CopyInv, UNCHANGED vars PROVE MessageInv' /\ CopyInv'
    BY <2>1 DEF vars, MessageInv, CopyInv, Reading
  <2> QED BY <2>1, LoaderMessage, ProducerMessage, ReaderMessage DEF Next
<1> QED BY <1>1, <1>2, TypedInvariant, LoaderInvariant, PTL DEF Spec

\* However the accesses of readers and producer interleave and whatever order
\* the compiler stores in, a read returns no byte behind the end of its message.
THEOREM NoByteIsStale == Spec => []NoStaleBytes
<1>1. CopyInv => NoStaleBytes
  BY DEF CopyInv, NoStaleBytes
<1> QED BY <1>1, MessageInvariant, PTL

-----------------------------------------------------------------------------
(* Rounds without a race.                                                  *)

\* What the producer has stored is there until a reader resets it, and a message
\* got in a round without a race has been reset.
StoresInv ==
  /\ ppend # {} => ppc = "publish"
  /\ message.torn => ppc = "printing"
  /\ ~Unwritten("len") /\ ~reset /\ message.seq # NoSeq => message_len = Length[message.seq]
  /\ taken <= message.seq
  /\ taken = message.seq /\ taken # NoSeq => reset

Unraced(r) == InRound(r) /\ ~raced[r]

\* r has begun to reset the message.
Resets(r) == rpc[r] = "clear" /\ rpend[r] # Stores

\* The message is complete, and no such round has got it.
Fresh == message.seq # NoSeq /\ ~message.torn /\ ~Writing /\ taken < message.seq

\* Up to its own resets r finds message, length and flag as they were published;
\* from then on nobody else is in a round without a race.
RoundOf(r) ==
  Unraced(r) =>
    /\ Fresh
    /\ ~Resets(r) => ~reset /\ data_available = 1 /\ message_len = Length[message.seq]
    /\ Resets(r) => reset /\ \A x \in Readers \ {r} : ~Unraced(x)
    /\ rpc[r] # "readsleep"
    /\ rpc[r] \in {"copy", "copying", "clear"} => tocopy[r] = Smaller(Count, Length[message.seq])
    /\ rpc[r] \in {"copying", "clear"} => seen[r] = message
    /\ rpc[r] = "clear" => whole[r]

RoundInv == \A r \in Readers : RoundOf(r)

RacesInv == StoresInv /\ RoundInv

LEMMA InitRaces == Init => RacesInv
  BY DEF Init, RacesInv, StoresInv, RoundInv, RoundOf, Unraced, InRound, NoMessage, NoSeq

\* A step that leaves a round and all it uses alone.
LEMMA RoundKept ==
  ASSUME NEW x \in Readers, RoundInv,
         UNCHANGED <<message, message_len, data_available, ppc, ppend, reset, taken>>,
         UNCHANGED <<rpc[x], raced[x], tocopy[x], seen[x], whole[x], rpend[x]>>,
         \A y \in Readers : Unraced(y)' /\ y # x /\ Resets(x) => Unraced(y)
  PROVE  RoundOf(x)'
  BY DEF RoundInv, RoundOf, Unraced, InRound, Resets, Fresh, Writing

LEMMA VanishRaces == ASSUME Vanish PROVE RacesInv'
<1>1. \A r \in Readers : rpc'[r] \in {"closed", "oops"}
  BY DEF Vanish
<1> QED BY <1>1 DEF Vanish, RacesInv, StoresInv, RoundInv, RoundOf, Unraced, InRound, NoMessage,
                NoSeq

LEMMA LoaderRaces ==
  ASSUME Typed, LoaderInv, MessageInv, RacesInv, Loader PROVE RacesInv'
<1>1. ASSUME UNCHANGED <<message, message_len, data_available, ppend, rpc, reset, raced, taken>>,
             UNCHANGED <<tocopy, seen, whole, rpend>>,
             ppc' = "printing" <=> ppc = "printing", ppc' = "publish" <=> ppc = "publish"
      PROVE  RacesInv'
  <2>1. ASSUME NEW x \in Readers PROVE RoundOf(x)'
    BY <1>1 DEF RacesInv, RoundInv, RoundOf, Unraced, InRound, Resets, Fresh, Writing
  <2>2. StoresInv'
    BY <1>1 DEF RacesInv, StoresInv, Unwritten
  <2> QED BY <2>1, <2>2 DEF RacesInv, RoundInv
<1>2. CASE Load \/ Unload
  BY <1>1, <1>2 DEF Load, Unload
<1>3. CASE InitQueue
  <2>1. message.seq = NoSeq /\ UNCHANGED <<message, ppc, ppend, rpc, reset, raced, taken>>
    BY <1>3 DEF InitQueue, LoaderInv, MessageInv
  <2>2. RoundInv'
    BY <2>1 DEF RacesInv, RoundInv, RoundOf, Unraced, InRound, Fresh
  <2> QED BY <2>1, <2>2 DEF RacesInv, StoresInv, Unwritten
<1>4. CASE StartThread
  <2>1. message.seq = NoSeq
    BY <1>4 DEF StartThread, LoaderInv, MessageInv
  <2>2. UNCHANGED <<message, rpc, reset, raced, taken>> /\ ppc' = "test" /\ ppend' = {} /\ ppc = "none"
    BY <1>4 DEF StartThread, LoaderInv
  <2>3. RoundInv'
    BY <2>1, <2>2 DEF RacesInv, RoundInv, RoundOf, Unraced, InRound, Fresh
  <2> QED BY <2>1, <2>2, <2>3 DEF RacesInv, StoresInv, Unwritten
<1>5. CASE ThreadFails \/ Unloaded
  BY <1>5, VanishRaces DEF ThreadFails, Unloaded
<1>6. ASSUME NEW x \in Resources, Acquire(x) PROVE RacesInv'
  BY <1>1, <1>6 DEF Acquire
<1> QED BY <1>2, <1>3, <1>4, <1>5, <1>6 DEF Loader

\* The producer begins a message in every round there is: from then on these have
\* a race, and its other stores meet no round without.
LEMMA ProducerRaces ==
  ASSUME Typed, MessageInv, RacesInv, Producer PROVE RacesInv'
<1>1. ASSUME UNCHANGED <<message, message_len, data_available, ppend, reset, raced, taken>>,
             UNCHANGED <<tocopy, seen, whole, rpend>>,
             ppc' # "printing", ppc # "printing", ppend = {},
             \A x \in Readers : InRound(x)' /\ ~raced[x] => InRound(x) /\ rpc'[x] = rpc[x]
      PROVE  RacesInv'
  <2>1. ASSUME NEW x \in Readers PROVE RoundOf(x)'
    BY <1>1 DEF RacesInv, RoundInv, RoundOf, Unraced, Resets, Fresh, Writing
  <2>2. StoresInv'
    BY <1>1 DEF RacesInv, StoresInv, Unwritten
  <2> QED BY <2>1, <2>2 DEF RacesInv, RoundInv
<1>2. CASE Test \/ Retest \/ SleepEnds
  <2>1. ppend = {} /\ ppc # "printing" /\ ppc' # "printing"
    BY <1>2 DEF Test, Retest, SleepEnds, RacesInv, StoresInv
  <2>2. \A x \in Readers : InRound(x)' => InRound(x)
    BY <1>2 DEF Test, Retest, SleepEnds, InRound
  <2> QED BY <1>1, <1>2, <2>1, <2>2 DEF Test, Retest, SleepEnds
<1>3. CASE PrintBegin
  <2>1. \A x \in Readers : ~Unraced(x)'
    BY <1>3 DEF PrintBegin, Unraced, InRound, Typed, TypeOK
  <2>2. message'.seq = counter /\ message.seq < counter /\ ppc' = "printing" /\ ppend' = ppend
        /\ taken' = taken
    BY <1>3 DEF PrintBegin, MessageInv
  <2>3. ppend = {}
    BY <1>3 DEF PrintBegin, RacesInv, StoresInv
  <2>4. taken' < message'.seq
    BY <2>2, MessageFacts DEF RacesInv, StoresInv, Typed, TypeOK
  <2>5. StoresInv'
    <3>1. taken' \in Int /\ message'.seq \in Int
      BY <2>2, MessageFacts DEF Typed, TypeOK
    <3>2. taken' <= message'.seq /\ taken' # message'.seq
      BY <2>4, <3>1
    <3> QED BY <2>2, <2>3, <3>2 DEF StoresInv, Unwritten
  <2> QED BY <2>1, <2>5 DEF RacesInv, RoundInv, RoundOf
<1>4. CASE PrintEnd
  <2>1. message'.seq = message.seq /\ ~message'.torn
    BY <1>4 DEF PrintEnd, Typed, TypeOK, Message
  <2>2. \A x \in Readers : ~Unraced(x) /\ ~Unraced(x)'
    BY <1>4 DEF PrintEnd, RacesInv, RoundInv, RoundOf, Fresh, Writing, Unraced, InRound
  <2>3. StoresInv'
    BY <1>4, <2>1 DEF PrintEnd, RacesInv, StoresInv, Unwritten, Stores
  <2> QED BY <2>2, <2>3 DEF RacesInv, RoundInv, RoundOf
<1>5. CASE WakeUp
  <2>1. \A x \in Readers : InRound(x)' /\ ~raced[x] => InRound(x) /\ rpc'[x] = rpc[x]
    <3> SUFFICES ASSUME NEW x \in Readers, InRound(x)', ~raced[x]
                 PROVE  InRound(x) /\ rpc'[x] = rpc[x]
      BY <1>5 DEF WakeUp
    <3>1. rpc'[x] = CASE rpc[x] = "pollsleep" -> "poll" [] rpc[x] = "readsleep" -> "read"
                      [] OTHER -> rpc[x]
      BY <1>5 DEF WakeUp
    <3>2. RoundOf(x)
      BY DEF RacesInv, RoundInv
    <3>3. rpc[x] = "readsleep" => x \notin Pollers
      BY <3>2 DEF RoundOf, Unraced, InRound
    <3> QED BY <3>1, <3>3 DEF InRound
  <2> QED BY <1>1, <1>5, <2>1 DEF WakeUp
<1>6. ASSUME NEW v \in Stores, Publish(v) PROVE RacesInv'
  <2>1. \A x \in Readers : ~Unraced(x) /\ ~Unraced(x)'
    BY <1>6 DEF Publish, RacesInv, RoundInv, RoundOf, Fresh, Writing, Unraced, InRound
  <2>2. StoresInv'
    BY <1>6 DEF Publish, RacesInv, StoresInv, Unwritten, Printed, Stores
  <2> QED BY <2>1, <2>2 DEF RacesInv, RoundInv, RoundOf
<1> QED BY <1>2, <1>3, <1>4, <1>5, <1>6 DEF Producer

\* A round begins without a race only if the message is complete and not reset.
LEMMA WaitRaces ==
  ASSUME Typed, MessageInv, RacesInv, NEW r \in Readers, Wait(r) PROVE RacesInv'
<1>1. StoresInv'
  BY DEF Wait, RacesInv, StoresInv, Unwritten
<1>2. RoundOf(r)'
  <2> SUFFICES ASSUME Unraced(r)' PROVE RoundOf(r)'
    BY DEF RoundOf
  <2>1. data_available = 1 /\ rpc'[r] \in {"read", "len"}
        /\ UNCHANGED <<message, message_len, data_available, ppc, ppend, reset, taken>>
    <3>1. ASSUME data_available # 1 PROVE FALSE
      <4>1. rpc[r] = "read" /\ r \in Pollers /\ ~raced[r]
        BY <3>1 DEF Wait, Looked, LoopOf, Unraced, InRound, Typed, TypeOK
      <4> QED BY <3>1, <4>1 DEF RacesInv, RoundInv, RoundOf, Unraced, InRound, Resets
    <3> QED BY <3>1 DEF Wait, Unraced, InRound, Typed, TypeOK
  <2>2. CASE rpc[r] = LoopOf(r)
    <3>1. ~Writing /\ ~reset
      BY <2>1, <2>2 DEF Wait, Looked, BeginsRaced, Unraced, Typed, TypeOK
    <3>2. message.seq # NoSeq
      BY <2>1 DEF MessageInv
    <3>3. ~Unwritten("len") /\ ~message.torn
      BY <3>1 DEF Writing, Unwritten, RacesInv, StoresInv
    <3>4. taken < message.seq
      BY <3>1, <3>2, MessageFacts DEF RacesInv, StoresInv, Typed, TypeOK
    <3> QED BY <2>1, <3>1, <3>2, <3>3, <3>4
            DEF RoundOf, Fresh, Writing, Resets, RacesInv, StoresInv
  <2>3. CASE rpc[r] # LoopOf(r)
    <3>1. rpc[r] = "read" /\ r \in Pollers /\ ~raced[r]
      <4>1. rpc[r] = "read" /\ r \in Pollers
        BY <2>3 DEF Wait, LoopOf, Unraced, InRound, Typed, TypeOK
      <4>2. raced'[r] = raced[r]
        BY <2>3 DEF Wait, Looked, Typed, TypeOK
      <4> QED BY <4>1, <4>2 DEF Unraced
    <3>2. Unraced(r) /\ ~Resets(r)
      BY <3>1 DEF Unraced, InRound, Resets
    <3> QED BY <2>1, <3>2 DEF RacesInv, RoundInv, RoundOf, Fresh, Writing, Resets
  <2> QED BY <2>2, <2>3
<1>3. ASSUME NEW x \in Readers, x # r PROVE RoundOf(x)'
  <2>1. ASSUME Resets(x), ~raced[x], Unraced(r)' PROVE Unraced(r)
    <3>1. reset
      BY <2>1 DEF RacesInv, RoundInv, RoundOf, Unraced, InRound, Resets
    <3>2. RoundOf(r)' /\ rpc'[r] \in {"read", "len"}
      BY <1>2, <2>1 DEF Wait, Unraced, InRound, Typed, TypeOK, RoundOf
    <3> QED BY <2>1, <3>1, <3>2 DEF RoundOf, Resets, Wait
  <2>2. \A y \in Readers \ {r} : Unraced(y)' <=> Unraced(y)
    BY DEF Wait, Looked, Unraced, InRound, Typed, TypeOK
  <2>3. UNCHANGED <<message, message_len, data_available, ppc, ppend, reset, taken>>
    BY DEF Wait
  <2>4. UNCHANGED <<rpc[x], raced[x], tocopy[x], seen[x], whole[x], rpend[x]>>
    BY <1>3 DEF Wait, Looked, Typed, TypeOK
  <2>5. CASE raced[x]
    BY <2>4, <2>5 DEF RoundOf, Unraced
  <2>6. CASE ~raced[x]
    BY <2>1, <2>2, <2>3, <2>4, <2>6, RoundKept DEF RacesInv
  <2> QED BY <2>5, <2>6
<1> QED BY <1>1, <1>2, <1>3 DEF RacesInv, RoundInv

\* A step of a reader that writes nothing the others use.
LEMMA OthersKept ==
  ASSUME NEW r \in Readers, Typed, RacesInv,
         \/ OpenDevice(r) \/ TakeLength(r) \/ CopyBegin(r) \/ CopyEnd(r) \/ CopyFails(r)
         \/ Interrupt(r)
  PROVE  StoresInv' /\ \A x \in Readers \ {r} : RoundOf(x)'
<1>1. /\ UNCHANGED <<message, message_len, data_available, ppc, ppend, reset, taken>>
      /\ \A x \in Readers \ {r} :
           UNCHANGED <<rpc[x], raced[x], tocopy[x], seen[x], whole[x], rpend[x]>>
  BY DEF OpenDevice, TakeLength, CopyBegin, CopyEnd, CopyFails, Interrupt, Leave,
         Typed, TypeOK
<1>2. StoresInv'
  BY <1>1 DEF RacesInv, StoresInv, Unwritten
<1>3. Unraced(r)' => Unraced(r)
  BY DEF OpenDevice, TakeLength, CopyBegin, CopyEnd, CopyFails, Interrupt, Leave, LoopOf,
         Unraced, InRound, Typed, TypeOK
<1>4. ASSUME NEW x \in Readers \ {r} PROVE RoundOf(x)'
  <2>1. \A y \in Readers : Unraced(y)' => Unraced(y)
    BY <1>1, <1>3 DEF Unraced, InRound
  <2> QED BY <1>1, <2>1, RoundKept DEF RacesInv
<1> QED BY <1>2, <1>4

LEMMA ReturnRaces ==
  ASSUME Typed, MessageInv, RacesInv, NEW r \in Readers, Return(r) PROVE RacesInv'
<1>1. UNCHANGED <<message, message_len, data_available, ppc, ppend, reset>>
      /\ (taken' = taken \/ (~raced[r] /\ taken' = seen[r].seq))
  BY DEF Return, Leave
<1>2. rpc[r] = "clear" /\ rpend[r] # Stores /\ rpc'[r] \in {"closed", LoopOf(r)}
  BY DEF Return, Stores, Typed, TypeOK
<1>3. ~raced[r] => /\ reset /\ seen[r] = message
                   /\ \A x \in Readers \ {r} : ~Unraced(x)
  BY <1>2 DEF RacesInv, RoundInv, RoundOf, Unraced, InRound, Resets
<1>4. StoresInv'
  BY <1>1, <1>3 DEF RacesInv, StoresInv, Unwritten, Typed, TypeOK, Message, NoSeq
<1>5. ~Unraced(r)'
  BY <1>2 DEF Unraced, InRound, LoopOf
<1>6. ASSUME NEW x \in Readers \ {r} PROVE RoundOf(x)'
  <2>1. \A y \in Readers \ {r} :
          UNCHANGED <<rpc[y], raced[y], tocopy[y], seen[y], whole[y], rpend[y]>>
    BY DEF Return, Leave, Typed, TypeOK
  <2>2. \A y \in Readers : Unraced(y)' => Unraced(y)
    BY <1>5, <2>1 DEF Unraced, InRound
  <2>3. CASE taken' = taken
    BY <1>1, <2>1, <2>2, <2>3, RoundKept DEF RacesInv
  <2>4. CASE ~raced[r]
    BY <1>3, <2>2, <2>4 DEF RoundOf
  <2> QED BY <1>1, <2>3, <2>4
<1>7. RoundOf(r)'
  BY <1>5 DEF RoundOf
<1> QED BY <1>4, <1>6, <1>7 DEF RacesInv, RoundInv

\* A reset gives every other round a race.
LEMMA ClearRaces ==
  ASSUME Typed, RacesInv, NEW r \in Readers, NEW v \in Stores, Clear(r, v) PROVE RacesInv'
<1>1. /\ UNCHANGED <<message, ppc, ppend, taken, rpc, tocopy, seen, whole>>
      /\ reset' = (reset \/ ~Unwritten(v)) /\ rpc[r] = "clear" /\ rpend'[r] # Stores
      /\ raced'[r] = raced[r]
  BY DEF Clear, Stores, Typed, TypeOK
<1>2. \A x \in Readers \ {r} : ~Unraced(x)'
  BY <1>1 DEF Clear, Unraced, InRound
<1>3. StoresInv'
  <2>1. ~Unwritten("len") /\ ~reset' => message_len' = message_len
    BY <1>1 DEF Clear
  <2> QED BY <1>1, <2>1 DEF RacesInv, StoresInv, Unwritten
<1>4. RoundOf(r)'
  <2> SUFFICES ASSUME Unraced(r)' PROVE RoundOf(r)'
    BY DEF RoundOf
  <2>1. Unraced(r)
    BY <1>1 DEF Unraced, InRound
  <2>2. Fresh /\ tocopy[r] = Smaller(Count, Length[message.seq]) /\ seen[r] = message /\ whole[r]
    BY <1>1, <2>1 DEF RacesInv, RoundInv, RoundOf
  <2>3. ~Unwritten(v)
    BY <2>2 DEF Fresh, Writing, Unwritten
  <2> QED BY <1>1, <1>2, <2>2, <2>3 DEF RoundOf, Fresh, Writing, Resets
<1> QED BY <1>2, <1>3, <1>4 DEF RacesInv, RoundInv, RoundOf

LEMMA ReaderRaces ==
  ASSUME Typed, MessageInv, RacesInv, NEW r \in Readers, Reader(r) PROVE RacesInv'
<1> USE DEF RacesInv, RoundInv
<1>1. CASE OpenDevice(r)
  <2>1. ~Unraced(r)'
    BY <1>1 DEF OpenDevice, LoopOf, Unraced, InRound, Typed, TypeOK
  <2> QED BY <1>1, <2>1, OthersKept DEF RoundOf
<1>2. CASE Wait(r)
  BY <1>2, WaitRaces
<1>3. CASE TakeLength(r)
  <2>1. RoundOf(r)'
    BY <1>3 DEF TakeLength, RoundOf, Unraced, InRound, Resets, Fresh, Writing, Typed, TypeOK
  <2> QED BY <1>3, <2>1, OthersKept
<1>4. CASE CopyBegin(r)
  <2>1. RoundOf(r)'
    BY <1>4 DEF CopyBegin, RoundOf, Unraced, InRound, Resets, Fresh, Writing, Typed, TypeOK
  <2> QED BY <1>4, <2>1, OthersKept
<1>5. CASE CopyEnd(r)
  <2>1. RoundOf(r)'
    BY <1>5 DEF CopyEnd, RoundOf, Unraced, InRound, Resets, Fresh, Writing, Typed, TypeOK
  <2> QED BY <1>5, <2>1, OthersKept
<1>6. CASE CopyFails(r) \/ Interrupt(r)
  <2>1. ~Unraced(r)'
    BY <1>6 DEF CopyFails, Interrupt, Unraced, InRound, Typed, TypeOK
  <2> QED BY <1>6, <2>1, OthersKept DEF RoundOf
<1>7. CASE Return(r)
  BY <1>7, ReturnRaces
<1>8. ASSUME NEW v \in Stores, Clear(r, v) PROVE RacesInv'
  BY <1>8, ClearRaces
<1> QED BY <1>1, <1>2, <1>3, <1>4, <1>5, <1>6, <1>7, <1>8 DEF Reader, ReaderRuns

LEMMA RacesInvariant == Spec => [](Typed /\ RacesInv)
<1>1. Typed /\ LoaderInv /\ MessageInv /\ RacesInv /\ [Next]_vars => RacesInv'
  <2>1. ASSUME RacesInv, UNCHANGED vars PROVE RacesInv'
    BY <2>1 DEF vars, RacesInv, StoresInv, Unwritten, RoundInv, RoundOf, Unraced, InRound,
                Resets, Fresh, Writing
  <2> QED BY <2>1, LoaderRaces, ProducerRaces, ReaderRaces DEF Next
<1> QED BY InitRaces, <1>1, TypedInvariant, LoaderInvariant, MessageInvariant, PTL DEF Spec

\* For any readers, lengths and order of the stores: a read that nobody raced
\* returns data, and at once after poll, whatever races were lost before it.
THEOREM ReadsKeepPromise == Spec => []ReadsAsPromised
<1>1. Typed /\ RacesInv => ReadsAsPromised
  <2> SUFFICES ASSUME Typed, RacesInv, NEW r \in Readers, ~raced[r]
               PROVE  /\ rpc[r] \in {"copy", "copying", "clear"} => tocopy[r] > 0
                      /\ r \in Pollers => rpc[r] # "readsleep"
    BY DEF ReadsAsPromised
  <2>1. RoundOf(r)
    BY DEF RacesInv, RoundInv
  <2>2. r \in Pollers => rpc[r] # "readsleep"
    BY <2>1 DEF RoundOf, Unraced, InRound
  <2>3. ASSUME rpc[r] \in {"copy", "copying", "clear"} PROVE tocopy[r] > 0
    <3>1. tocopy[r] = Smaller(Count, Length[message.seq]) /\ message.seq # NoSeq
      BY <2>1, <2>3 DEF RoundOf, Unraced, InRound, Fresh
    <3>2. Length[message.seq] \in Nat \ {0}
      BY <3>1, MessageFacts
    <3> QED BY <3>1, <3>2, ReadersAssumption DEF Smaller
  <2> QED BY <2>2, <2>3
<1> QED BY <1>1, RacesInvariant, PTL

\* It returns a whole message, and no two such reads return the same one.
THEOREM MessagesAreWhole == Spec => WholeAndOnce
<1> DEFINE Whole == \A r \in Readers : Return(r) /\ ~raced[r] => whole[r] /\ seen[r].seq > taken
<1>1. Typed /\ RacesInv => Whole
  <2> SUFFICES ASSUME Typed, RacesInv, NEW r \in Readers, Return(r), ~raced[r]
               PROVE  whole[r] /\ seen[r].seq > taken
    OBVIOUS
  <2>1. whole[r] /\ seen[r] = message /\ taken < message.seq
    BY DEF Return, RacesInv, RoundInv, RoundOf, Unraced, InRound, Fresh
  <2> QED BY <2>1, MessageFacts DEF Typed, TypeOK
<1>2. Typed /\ RacesInv /\ [Next]_vars => [Whole]_vars
  BY <1>1
<1>3. Spec => [][Whole]_vars
  <2> HIDE DEF Whole
  <2> QED BY <1>2, RacesInvariant, PTL DEF Spec
<1> QED BY <1>3 DEF WholeAndOnce

=============================================================================

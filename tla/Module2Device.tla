---------------------------- MODULE Module2Device ----------------------------
(***************************************************************************)
(* The character device linux/kernalSpace/module2/module2.c and its reader *)
(* linux/userSpace/test_module2.c.                                         *)
(*                                                                         *)
(* A kernel thread publishes a numbered message now and then; readers take *)
(* it.  Message, length and flag are plain variables and no lock protects  *)
(* them, so each access is an action of its own.  Loading and unloading    *)
(* the module is a third party: the device can be opened before module2_   *)
(* init has returned.                                                      *)
(***************************************************************************)
EXTENDS Integers, Sequences, FiniteSets

CONSTANTS
  Readers,      \* processes that open the device
  Pollers,      \* those of them that poll before they read (test_module2)
  Count,        \* the size of their buffers
  Length,       \* Length[n] is the number of bytes of message n
  EarlyOpen,    \* may the device be opened while module2_init still runs?
  Reorder,      \* may the compiler swap adjacent plain stores?
  MaxMessages   \* bound: messages the producer publishes after one load

ASSUME ReadersAssumption  == Pollers \subseteq Readers /\ Count \in Nat \ {0}
ASSUME FlagsAssumption    == {EarlyOpen, Reorder} \subseteq BOOLEAN
ASSUME MessagesAssumption ==
  /\ MaxMessages \in Nat /\ Length \in [0..MaxMessages -> Nat \ {0}]
  /\ \A m, n \in 0..MaxMessages : m <= n => Length[m] <= Length[n]

NoSeq == -1

\* A message is torn while snprintf writes it.
Message == [seq : 0..MaxMessages \cup {NoSeq}, torn : BOOLEAN]
NoMessage == [seq |-> NoSeq, torn |-> FALSE]

Stores == {"flag", "len"}

VARIABLES
  \* the module and its loader
  lpc, resources, queueInit, should_stop,
  \* the shared variables
  message, message_len, data_available,
  \* the producer thread: where it is, stores it has still to do, messages so far
  ppc, ppend, counter,
  \* the readers
  rpc,       \* where each one is
  tocopy,    \* its local variable
  seen,      \* the message when its copy_to_user began
  whole,     \* did the copy catch all of one message?
  rpend,     \* stores it has still to do
  result,    \* how its latest read ended
  \* history
  reset,     \* has a reader reset what the producer stored for the present message?
  raced,     \* raced[r]: somebody else wrote to what r's round uses while it used it
  taken      \* the latest message got in a round without a race

loader   == <<lpc, resources, queueInit, should_stop>>
shared   == <<message, message_len, data_available>>
producer == <<ppc, ppend, counter>>
locals   == <<tocopy, seen, whole, rpend>>
races    == <<reset, raced>>
outcome  == <<result, taken>>
vars     == <<loader, shared, producer, rpc, locals, races, outcome>>

Resources == {"region", "cdev", "class", "device"}

\* alloc_chrdev_region, cdev_add, class_create, device_create, in this order.
Before == [region |-> {}, cdev |-> {"region"}, class |-> {"region", "cdev"},
           device |-> {"region", "cdev", "class"}]

\* Mutant: the class's error path forgets unregister_chrdev_region.
UndoLeaky == [region |-> {}, cdev |-> {"region"}, class |-> {"cdev"},
              device |-> {"class", "cdev", "region"}]

\* What the error path of each call releases.
Undo == [region |-> {}, cdev |-> {"region"}, class |-> {"cdev", "region"},
         device |-> {"class", "cdev", "region"}]

Open == {r \in Readers : rpc[r] # "closed"}

Asleep == {r \in Readers : rpc[r] \in {"pollsleep", "readsleep"}}

\* The loop of a reader starts here.
LoopOf(r) == IF r \in Pollers THEN "poll" ELSE "read"

Smaller(a, b) == IF a <= b THEN a ELSE b

\* A round of a reader: from the look at the flag that finds it set, by poll in a
\* reader that polls, to the return of the read.
InRound(r) ==
  \/ rpc[r] \in {"len", "copy", "copying", "clear"}
  \/ r \in Pollers /\ rpc[r] \in {"read", "readsleep"}

\* The producer has begun a message and not stored all of it, or variable v.
Writing == ppc = "printing" \/ ppend # {}
Unwritten(v) == ppc = "printing" \/ v \in ppend

-----------------------------------------------------------------------------
(* Loading and unloading.                                                  *)

Load ==
  /\ lpc = "unloaded"
  /\ lpc' = "loading"
  /\ UNCHANGED <<resources, queueInit, should_stop, shared, producer, rpc, locals, races, outcome>>

Acquire(x) ==
  /\ lpc = "loading" /\ x \notin resources /\ Before[x] = resources
  /\ \/ resources' = resources \cup {x} /\ UNCHANGED lpc
     \/ resources' = resources \ Undo[x] /\ lpc' = "unloaded"
  /\ UNCHANGED <<queueInit, should_stop, shared, producer, rpc, locals, races, outcome>>

InitQueue ==
  /\ lpc = "loading" /\ resources = Resources
  /\ lpc' = "starting"
  /\ queueInit' = TRUE
  /\ data_available' = 0 /\ message_len' = 0
  /\ UNCHANGED <<resources, should_stop, message, producer, rpc, locals, races, outcome>>

StartThread ==
  /\ lpc = "starting"
  /\ lpc' = "live"
  /\ ppc' = "test" /\ ppend' = {} /\ counter' = 0
  /\ UNCHANGED <<resources, queueInit, should_stop, shared, rpc, locals, races, outcome>>

\* The module's memory is gone, and with it whatever a reader still uses.
Vanish ==
  /\ lpc' = "unloaded"
  /\ resources' = {} /\ queueInit' = FALSE /\ should_stop' = FALSE
  /\ message' = NoMessage /\ message_len' = 0 /\ data_available' = 0
  /\ ppc' = "none" /\ ppend' = {} /\ counter' = 0
  /\ rpc' = [r \in Readers |-> IF r \in Open THEN "oops" ELSE "closed"]
  /\ reset' = FALSE /\ taken' = NoSeq
  /\ UNCHANGED <<locals, raced, result>>

ThreadFails == lpc = "starting" /\ Vanish

\* Mutant: the thread is waited for, but not asked to stop.
UnloadSilently ==
  /\ lpc = "live" /\ Open = {}
  /\ lpc' = "stopping"
  /\ UNCHANGED <<resources, queueInit, should_stop, shared, producer, rpc, locals, races, outcome>>

\* rmmod waits until nobody has the device open; kthread_stop asks the thread
\* to stop and waits for it.
Unload ==
  /\ lpc = "live" /\ Open = {}
  /\ lpc' = "stopping"
  /\ should_stop' = TRUE
  /\ UNCHANGED <<resources, queueInit, shared, producer, rpc, locals, races, outcome>>

Unloaded == lpc = "stopping" /\ ppc = "done" /\ Vanish

Loader ==
  \/ Load \/ InitQueue \/ StartThread \/ ThreadFails \/ Unload \/ Unloaded
  \/ \E x \in Resources : Acquire(x)

-----------------------------------------------------------------------------
(* The producer, producer_fn.                                              *)

Test ==
  /\ ppc = "test"
  /\ ppc' = IF should_stop THEN "done" ELSE "print"
  /\ UNCHANGED <<loader, shared, ppend, counter, rpc, locals, races, outcome>>

PrintBegin ==
  /\ ppc = "print"
  /\ ppc' = "printing"
  /\ message' = [seq |-> counter, torn |-> TRUE]
  /\ reset' = FALSE
  /\ raced' = [r \in Readers |-> raced[r] \/ InRound(r)]
  /\ UNCHANGED <<loader, message_len, data_available, ppend, counter, rpc, locals, outcome>>

PrintEnd ==
  /\ ppc = "printing"
  /\ ppc' = "publish"
  /\ message' = [message EXCEPT !.torn = FALSE]
  /\ counter' = counter + 1
  /\ ppend' = Stores
  /\ UNCHANGED <<loader, message_len, data_available, rpc, locals, races, outcome>>

\* What snprintf returns; the mutant counts the terminating zero too.
PrintedPlusOne(n) == Length[n] + 1
Printed(n) == Length[n]

\* message_len is stored before data_available.
Publish(v) ==
  /\ ppc = "publish" /\ v \in ppend
  /\ v = "flag" /\ ~Reorder => "len" \notin ppend
  /\ ppend' = ppend \ {v}
  /\ message_len' = IF v = "len" THEN Printed(message.seq) ELSE message_len
  /\ data_available' = IF v = "flag" THEN 1 ELSE data_available
  /\ UNCHANGED <<loader, message, ppc, counter, rpc, locals, races, outcome>>

\* Mutant: the first waiter only (wake_up of an exclusive queue).
WakeOne ==
  /\ ppc = "publish" /\ ppend = {}
  /\ ppc' = "retest"
  /\ rpc' = [r \in Readers |-> IF r # CHOOSE x \in Readers : TRUE THEN rpc[r] ELSE
               CASE rpc[r] = "pollsleep" -> "poll" [] rpc[r] = "readsleep" -> "read"
                 [] OTHER -> rpc[r]]
  /\ UNCHANGED <<loader, shared, ppend, counter, locals, races, outcome>>

\* wake_up_interruptible wakes every waiter.
WakeUp ==
  /\ ppc = "publish" /\ ppend = {}
  /\ ppc' = "retest"
  /\ rpc' = [r \in Readers |-> CASE rpc[r] = "pollsleep" -> "poll"
                                 [] rpc[r] = "readsleep" -> "read"
                                 [] OTHER -> rpc[r]]
  /\ UNCHANGED <<loader, shared, ppend, counter, locals, races, outcome>>

Retest ==
  /\ ppc = "retest"
  /\ ppc' = IF should_stop THEN "done" ELSE "sleep"
  /\ UNCHANGED <<loader, shared, ppend, counter, rpc, locals, races, outcome>>

\* sleep ends after its time, whatever the readers do, or when kthread_stop wakes
\* the thread.
SleepEnds ==
  /\ ppc = "sleep"
  /\ should_stop \/ counter < MaxMessages
  /\ ppc' = "test"
  /\ UNCHANGED <<loader, shared, ppend, counter, rpc, locals, races, outcome>>

Producer ==
  \/ Test \/ PrintBegin \/ PrintEnd \/ WakeUp \/ Retest \/ SleepEnds
  \/ \E v \in Stores : Publish(v)

-----------------------------------------------------------------------------
(* The readers, module2_open, module2_poll and module2_read.               *)

OpenDevice(r) ==
  /\ rpc[r] = "closed" /\ "device" \in resources
  /\ lpc \in IF EarlyOpen THEN {"live", "loading", "starting"} ELSE {"live"}
  /\ rpc' = [rpc EXCEPT ![r] = LoopOf(r)]
  /\ result' = [result EXCEPT ![r] = "none"]
  /\ UNCHANGED <<loader, shared, producer, locals, races, taken>>

\* History: a round that begins with this look at the flag has a race if what it
\* will use is being written, or was reset.
BeginsRaced == data_available # 0 /\ (Writing \/ reset)
Looked(r) == raced' = [raced EXCEPT ![r] = IF rpc[r] = LoopOf(r) THEN BeginsRaced ELSE @]

\* Mutant: the read does not wait for the flag.
WaitNot(r) ==
  /\ rpc[r] \in {"poll", "read"}
  /\ rpc' = [rpc EXCEPT ![r] = IF rpc[r] = "poll" THEN "read" ELSE "len"]
  /\ Looked(r)
  /\ UNCHANGED <<loader, shared, producer, locals, reset, outcome>>

\* poll_wait and wait_event add the caller to read_queue and look at the flag;
\* a wake_up between the look and the sleep cancels the sleep.  Before
\* init_waitqueue_head the queue is a list of null pointers.
Wait(r) ==
  /\ rpc[r] \in {"poll", "read"}
  /\ rpc' = [rpc EXCEPT ![r] =
       CASE ~queueInit -> "oops"
         [] queueInit /\ data_available # 0 -> IF rpc[r] = "poll" THEN "read" ELSE "len"
         [] queueInit /\ data_available = 0 ->
              IF rpc[r] = "poll" THEN "pollsleep" ELSE "readsleep"]
  /\ Looked(r)
  /\ UNCHANGED <<loader, shared, producer, locals, reset, outcome>>

\* The call returns, and its locals are gone.
Leave(r) ==
  /\ tocopy' = [tocopy EXCEPT ![r] = 0]
  /\ seen' = [seen EXCEPT ![r] = NoMessage]
  /\ whole' = [whole EXCEPT ![r] = FALSE]
  /\ rpend' = [rpend EXCEPT ![r] = {}]
  /\ raced' = [raced EXCEPT ![r] = FALSE]
  /\ UNCHANGED <<loader, shared, producer, reset>>

TakeLength(r) ==
  /\ rpc[r] = "len"
  /\ rpc' = [rpc EXCEPT ![r] = "copy"]
  /\ tocopy' = [tocopy EXCEPT ![r] = Smaller(Count, message_len)]
  /\ UNCHANGED <<loader, shared, producer, seen, whole, rpend, races, outcome>>

CopyBegin(r) ==
  /\ rpc[r] = "copy"
  /\ rpc' = [rpc EXCEPT ![r] = "copying"]
  /\ seen' = [seen EXCEPT ![r] = message]
  /\ UNCHANGED <<loader, shared, producer, tocopy, whole, rpend, races, outcome>>

\* Mutant: neither variable is reset after the copy.
CopyEndKeeps(r) ==
  /\ rpc[r] = "copying"
  /\ rpc' = [rpc EXCEPT ![r] = "clear"]
  /\ whole' = [whole EXCEPT ![r] = TRUE]
  /\ rpend' = [rpend EXCEPT ![r] = {}]
  /\ UNCHANGED <<loader, shared, producer, tocopy, seen, races, outcome>>

CopyEnd(r) ==
  /\ rpc[r] = "copying"
  /\ rpc' = [rpc EXCEPT ![r] = "clear"]
  /\ whole' = [whole EXCEPT ![r] = message = seen[r] /\ ~message.torn
                                     /\ tocopy[r] = Smaller(Count, Length[message.seq])]
  /\ rpend' = [rpend EXCEPT ![r] = Stores]
  /\ UNCHANGED <<loader, shared, producer, tocopy, seen, races, outcome>>

\* The user's buffer is not writable: -EFAULT, and the reader gives up.
CopyFails(r) ==
  /\ rpc[r] = "copying"
  /\ rpc' = [rpc EXCEPT ![r] = "closed"]
  /\ Leave(r)
  /\ UNCHANGED outcome

\* data_available is cleared before message_len.
Clear(r, v) ==
  /\ rpc[r] = "clear" /\ v \in rpend[r]
  /\ v = "len" /\ ~Reorder => "flag" \notin rpend[r]
  /\ rpend' = [rpend EXCEPT ![r] = @ \ {v}]
  /\ data_available' = IF v = "flag" THEN 0 ELSE data_available
  /\ message_len' = IF v = "len" THEN 0 ELSE message_len
  /\ reset' = (reset \/ ~Unwritten(v))
  /\ raced' = [x \in Readers |-> raced[x] \/ (x # r /\ InRound(x))]
  /\ UNCHANGED <<loader, message, producer, rpc, tocopy, seen, whole, outcome>>

\* An empty read is an end of file to the reader.
Return(r) ==
  /\ rpc[r] = "clear" /\ rpend[r] = {}
  /\ IF tocopy[r] = 0
     THEN /\ rpc' = [rpc EXCEPT ![r] = "closed"]
          /\ result' = [result EXCEPT ![r] = "eof"]
          /\ UNCHANGED taken
     ELSE /\ rpc' = [rpc EXCEPT ![r] = LoopOf(r)]
          /\ result' = [result EXCEPT ![r] = "data"]
          /\ taken' = IF raced[r] THEN taken ELSE seen[r].seq
  /\ Leave(r)

\* A signal ends a sleeping reader.
Interrupt(r) ==
  /\ r \in Asleep
  /\ rpc' = [rpc EXCEPT ![r] = "closed"]
  /\ raced' = [raced EXCEPT ![r] = FALSE]
  /\ UNCHANGED <<loader, shared, producer, locals, reset, outcome>>

ReaderRuns(r) ==
  \/ Wait(r) \/ TakeLength(r) \/ CopyBegin(r) \/ CopyEnd(r) \/ Return(r)
  \/ \E v \in Stores : Clear(r, v)

Reader(r) == OpenDevice(r) \/ ReaderRuns(r) \/ CopyFails(r) \/ Interrupt(r)

-----------------------------------------------------------------------------

Init ==
  /\ lpc = "unloaded" /\ resources = {} /\ queueInit = FALSE /\ should_stop = FALSE
  /\ message = NoMessage /\ message_len = 0 /\ data_available = 0
  /\ ppc = "none" /\ ppend = {} /\ counter = 0
  /\ rpc = [r \in Readers |-> "closed"]
  /\ tocopy = [r \in Readers |-> 0]
  /\ seen = [r \in Readers |-> NoMessage]
  /\ whole = [r \in Readers |-> FALSE]
  /\ rpend = [r \in Readers |-> {}]
  /\ result = [r \in Readers |-> "none"]
  /\ reset = FALSE /\ raced = [r \in Readers |-> FALSE] /\ taken = NoSeq

Next == Loader \/ Producer \/ \E r \in Readers : Reader(r)

Spec == Init /\ [][Next]_vars

\* The kernel schedules its thread, the task that unloads the module and every
\* reader that can run; nobody has to open, load or unload anything.
FairSpec ==
  /\ Spec
  /\ WF_vars(Producer) /\ WF_vars(Unloaded)
  /\ \A r \in Readers : WF_vars(ReaderRuns(r))

-----------------------------------------------------------------------------
(* Properties.                                                             *)

\* The type of each variable.
TypeOK ==
  /\ lpc \in {"unloaded", "loading", "starting", "live", "stopping"}
  /\ resources \subseteq Resources /\ queueInit \in BOOLEAN /\ should_stop \in BOOLEAN
  /\ message \in Message
  /\ message_len \in Nat
  /\ data_available \in {0, 1}
  /\ ppc \in {"none", "test", "print", "printing", "publish", "retest", "sleep", "done"}
  /\ ppend \subseteq Stores
  /\ counter \in 0..MaxMessages + 1
  /\ rpc \in [Readers -> {"closed", "poll", "pollsleep", "read", "readsleep", "len",
                          "copy", "copying", "clear", "oops"}]
  /\ tocopy \in [Readers -> 0..Count]
  /\ seen \in [Readers -> Message]
  /\ whole \in [Readers -> BOOLEAN]
  /\ rpend \in [Readers -> SUBSET Stores]
  /\ result \in [Readers -> {"none", "data", "eof"}]
  /\ reset \in BOOLEAN /\ raced \in [Readers -> BOOLEAN]
  /\ taken \in 0..MaxMessages \cup {NoSeq}

\* No reader sleeps on a message that is there, unless the producer is about to
\* wake it: the flag is set before wake_up and checked after queueing.
NoLostWakeup == Asleep # {} /\ data_available = 1 => ppc = "publish"

\* Whichever call of module2_init fails, and after module2_exit, nothing stays
\* registered, and the thread runs only while the device exists.
NothingLeaks ==
  /\ lpc = "unloaded" => resources = {} /\ ppc = "none"
  /\ ppc # "none" => resources = Resources /\ queueInit

\* "block until data is available" (module2.c:27): a read neither returns
\* nothing, which test_module2 takes for the end of the file, nor runs into a
\* queue that does not exist yet.
ReadsBlockUntilData == \A r \in Readers : result[r] # "eof" /\ rpc[r] # "oops"

\* A round of a reader has a race only if somebody else writes to what it uses
\* while it uses it (the producer, which goes by time, or the resets of another
\* reader), or if such resets hit the message it finds.  In every other round the
\* read returns data, and at once if poll came first: test_module2 opens the device
\* O_NONBLOCK and handles EAGAIN (test_module2.c:43).  So a race harms the reads of
\* one message and leaves nothing behind for the next, however many readers there
\* are, however often they lose, and however the compiler orders the stores.
ReadsAsPromised ==
  \A r \in Readers : ~raced[r] =>
    /\ rpc[r] \in {"copy", "copying", "clear"} => tocopy[r] > 0
    /\ r \in Pollers => rpc[r] # "readsleep"

\* Such a round returns one whole message, and a newer one than any such round,
\* of whichever reader, before it.
WholeAndOnce ==
  [][\A r \in Readers : Return(r) /\ ~raced[r] => whole[r] /\ seen[r].seq > taken]_vars

\* However reads and writes interleave, a read never returns bytes behind the
\* end of the message it copies: the length it used may be of an earlier
\* message, but messages do not get shorter.
NoStaleBytes ==
  \A r \in Readers :
    rpc[r] \in {"copying", "clear"} => tocopy[r] <= Length[seen[r].seq]

\* rmmod returns: the thread notices kthread_stop wherever it is.
UnloadEnds == lpc = "stopping" ~> lpc = "unloaded"

\* A reader that sleeps while a message is there is woken.
ReadersWoken ==
  \A r \in Readers : r \in Asleep /\ data_available = 1 ~> r \notin Asleep

=============================================================================

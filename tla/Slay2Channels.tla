--------------------------- MODULE Slay2Channels ---------------------------
(***************************************************************************)
(* The table of channels and the Slay2Channel objects under threads: one   *)
(* thread calls task(), which holds the critical section throughout, the   *)
(* others open, close and use channels.  open, close, setReceiver and      *)
(* getTxBufferSpace do not enter the critical section themselves; Guarded  *)
(* names the calls the application puts between enterCritical and          *)
(* leaveCritical.  A thread uses the objects that open has returned to it; *)
(* a receiver uses the object it is called with.                           *)
(***************************************************************************)
EXTENDS Integers, Sequences

CONSTANTS
  Thread,          \* the application's threads; "task" is the one that calls task()
  Channel,         \* channel numbers
  Object,          \* the channel objects there is memory for (bound)
  Room,            \* SLAY2_FIFO_SIZE
  FRAME_PAYLOAD,
  SendSizes,       \* lengths passed to send() (bound)
  MaxSends,        \* calls of send() (bound)
  MaxFrames,       \* data frames received (bound)
  Guarded,         \* calls the application makes inside the critical section
  None             \* NULL

Calls == {"open", "close", "setReceiver", "send", "flush", "space"}

ASSUME ThreadAssumption == "task" \notin Thread
ASSUME NullAssumption == None \notin Object /\ None # "task" /\ None \notin Thread
ASSUME NumberAssumption == Channel \subseteq Nat /\ MaxSends \in Nat /\ MaxFrames \in Nat
ASSUME SizeAssumption == Room \in Nat /\ FRAME_PAYLOAD \in Nat \ {0} /\ SendSizes \subseteq Nat
ASSUME GuardedAssumption == Guarded \subseteq Calls

VARIABLES
  table,                     \* channels[]
  live,                      \* objects that exist
  number, receiver, receiverObj, fifo, txMore,     \* their fields
  owner, depth,              \* the recursive mutex
  task,                      \* where task() is and what it has read
  call,                      \* the call each thread is in
  handle,                    \* handle[p][ch]: what open(ch) has returned to p
  space,                     \* space[o]: what its thread may still rely on
  sends, frames,             \* calls of send and frames received so far
  destroyed                  \* the driver has been destroyed

objects == <<live, number, receiver, receiverObj, fifo, txMore>>
mutex == <<owner, depth>>
app == <<handle, space, sends>>
vars == <<table, objects, mutex, task, call, app, frames, destroyed>>

Proc == Thread \cup {"task"}
Byte == Proc \X (1 .. MaxSends)      \* who sent it, in which call
Fn == {None, "fn"}
Idle == [name |-> "none"]

CallState == {Idle}
  \cup [name : {"open"}, at : {"enter", "run", "store"}, ch : Channel, obj : Object \cup {None}]
  \cup [name : {"close"}, at : {"enter", "run", "delete"}, obj : Object]
  \cup [name : {"setReceiver"}, at : {"enter", "run", "object"}, obj : Object, fn : Fn]
  \cup [name : {"send"}, at : {"enter", "run"}, obj : Object, id : 1 .. MaxSends, left : Nat, more : BOOLEAN]
  \cup [name : {"flush", "space"}, at : {"enter", "run"}, obj : Object]

TypeOK ==
  /\ table \in [Channel -> Object \cup {None}]
  /\ live \subseteq Object
  /\ number \in [Object -> Channel]
  /\ receiver \in [Object -> Fn] /\ receiverObj \in [Object -> Object \cup {None}]
  /\ fifo \in [Object -> Seq(Byte)] /\ \A o \in Object : Len(fifo[o]) <= Room
  /\ txMore \in [Object -> BOOLEAN]
  /\ owner \in Proc \cup {None} /\ depth \in 0 .. 2 /\ (owner = None <=> depth = 0)
  /\ task \in [at : {"out", "rx", "found", "known", "callback", "scan", "look", "count", "fill"},
               ch : Nat, ptr : Object \cup {None}, arg : Object \cup {None}, left : 0 .. Room]
  /\ call \in [Proc -> CallState]
  /\ handle \in [Thread -> [Channel -> Object \cup {None}]]
  /\ space \in [Object -> 0 .. Room]
  /\ sends \in 0 .. MaxSends /\ frames \in 0 .. MaxFrames /\ destroyed \in BOOLEAN

Init ==
  /\ table = [ch \in Channel |-> None] /\ live = {}
  /\ number \in {[o \in Object |-> ch] : ch \in Channel}
  /\ receiver = [o \in Object |-> None] /\ receiverObj = [o \in Object |-> None]
  /\ fifo = [o \in Object |-> <<>>] /\ txMore = [o \in Object |-> FALSE]
  /\ owner = None /\ depth = 0
  /\ task = [at |-> "out", ch |-> 0, ptr |-> None, arg |-> None, left |-> 0]
  /\ call = [p \in Proc |-> Idle]
  /\ handle = [p \in Thread |-> [ch \in Channel |-> None]]
  /\ space = [o \in Object |-> 0] /\ sends = 0 /\ frames = 0 /\ destroyed = FALSE

-----------------------------------------------------------------------------
\* The mutex belongs to a thread, which may take it again.

\* A plausible slip, for mutation of the model: a mutex that is not recursive.
MayEnterOnce(p) == owner = None
MayEnter(p) == owner \in {None, p}

EnterCritical(p) == MayEnter(p) /\ owner' = p /\ depth' = depth + 1
LeaveCritical == depth' = depth - 1 /\ owner' = IF depth = 1 THEN None ELSE owner

\* Plausible slips, for mutation of the model: calls without the critical section.
EntersNotToSend(name) == name \in Guarded
EntersNotToFlush(name) == name \in Guarded \cup {"send"}
EntersNotToClose(name) == name \in (Guarded \ {"close"}) \cup {"send", "flush"}
EntersNotToSet(name) == name \in (Guarded \ {"setReceiver"}) \cup {"send", "flush"}
EntersNotToOpen(name) == name \in (Guarded \ {"open"}) \cup {"send", "flush"}
Enters(name) == name \in Guarded \cup {"send", "flush"}

-----------------------------------------------------------------------------
\* The application's calls.

\* A call begins with the object it is made on in hand.  A receiver runs in the thread
\* of task() and makes its calls there.
Begin(p, c) ==
  /\ call[p] = Idle /\ ~destroyed
  /\ call' = [call EXCEPT ![p] = c]
  /\ UNCHANGED <<table, objects, mutex, task, handle, space, frames, destroyed>>

FirstStep(name) == IF Enters(name) THEN "enter" ELSE "run"

Usable(p) ==
  IF p = "task" THEN {o \in {task.arg} : task.at = "callback"}
  ELSE {handle[p][ch] : ch \in Channel}

BeginOpen(p, ch) ==
  /\ p \in Thread /\ UNCHANGED sends
  /\ Begin(p, [name |-> "open", at |-> FirstStep("open"), ch |-> ch, obj |-> None])
BeginClose(p, o) ==
  /\ p \in Thread /\ UNCHANGED sends
  /\ Begin(p, [name |-> "close", at |-> FirstStep("close"), obj |-> o])
BeginSetReceiver(p, o, fn) ==
  /\ p \in Thread /\ UNCHANGED sends
  /\ Begin(p, [name |-> "setReceiver", at |-> FirstStep("setReceiver"), obj |-> o, fn |-> fn])
BeginFlush(p, o) ==
  /\ UNCHANGED sends
  /\ Begin(p, [name |-> "flush", at |-> FirstStep("flush"), obj |-> o])
BeginSpace(p, o) ==
  /\ p \in Thread /\ UNCHANGED sends
  /\ Begin(p, [name |-> "space", at |-> FirstStep("space"), obj |-> o])
BeginSend(p, o, len, more) ==
  /\ sends < MaxSends /\ sends' = sends + 1
  /\ Begin(p, [name |-> "send", at |-> FirstStep("send"), obj |-> o, id |-> sends + 1,
               left |-> len, more |-> more])

BeginCall(p) ==
  \/ \E ch \in Channel : BeginOpen(p, ch)
  \/ \E o \in Usable(p) \ {None} :
       \/ BeginClose(p, o) \/ BeginFlush(p, o) \/ BeginSpace(p, o)
       \/ \E fn \in Fn : BeginSetReceiver(p, o, fn)
       \/ \E len \in SendSizes, more \in BOOLEAN : BeginSend(p, o, len, more)

In(p, name, at) == call[p].name = name /\ call[p].at = at
Continue(p, at) == call' = [call EXCEPT ![p].at = at] /\ UNCHANGED mutex
Return(p) ==
  /\ call' = [call EXCEPT ![p] = Idle]
  /\ IF Enters(call[p].name) THEN LeaveCritical ELSE UNCHANGED mutex

Enter(p) ==
  /\ call[p] # Idle /\ call[p].at = "enter"
  /\ EnterCritical(p)
  /\ call' = [call EXCEPT ![p].at = "run"]
  /\ UNCHANGED <<table, objects, task, app, frames, destroyed>>

\* open looks into the table, makes an object and stores it.
OpenCheck(p) ==
  /\ In(p, "open", "run")
  /\ LET ch == call[p].ch IN
       \/ table[ch] # None /\ Return(p) /\ UNCHANGED <<objects, space>>
       \/ /\ table[ch] = None
          /\ \E o \in Object \ live :
               /\ live' = live \cup {o} /\ number' = [number EXCEPT ![o] = ch]
               /\ receiver' = [receiver EXCEPT ![o] = None]
               /\ receiverObj' = [receiverObj EXCEPT ![o] = None]
               /\ fifo' = [fifo EXCEPT ![o] = <<>>] /\ txMore' = [txMore EXCEPT ![o] = FALSE]
               /\ space' = [space EXCEPT ![o] = 0]
               /\ call' = [call EXCEPT ![p].at = "store", ![p].obj = o]
          /\ UNCHANGED mutex
  /\ UNCHANGED <<table, task, handle, sends, frames, destroyed>>

OpenStore(p) ==
  /\ In(p, "open", "store")
  /\ table' = [table EXCEPT ![call[p].ch] = call[p].obj]
  /\ handle' = [handle EXCEPT ![p][call[p].ch] = call[p].obj]
  /\ Return(p)
  /\ UNCHANGED <<objects, task, space, sends, frames, destroyed>>

CloseUnlink(p) ==
  /\ In(p, "close", "run")
  /\ table' = [table EXCEPT ![number[call[p].obj]] = None]
  /\ Continue(p, "delete")
  /\ UNCHANGED <<objects, task, app, frames, destroyed>>

CloseDelete(p) ==
  /\ In(p, "close", "delete")
  /\ live' = live \ {call[p].obj}
  /\ handle' = [handle EXCEPT ![p][number[call[p].obj]] = None]
  /\ Return(p)
  /\ UNCHANGED <<table, number, receiver, receiverObj, fifo, txMore, task, space, sends, frames, destroyed>>

SetFunction(p) ==
  /\ In(p, "setReceiver", "run")
  /\ receiver' = [receiver EXCEPT ![call[p].obj] = call[p].fn]
  /\ Continue(p, "object")
  /\ UNCHANGED <<table, live, number, receiverObj, fifo, txMore, task, app, frames, destroyed>>

\* The application passes the channel itself as the object of its receiver.
SetObject(p) ==
  /\ In(p, "setReceiver", "object")
  /\ receiverObj' = [receiverObj EXCEPT ![call[p].obj] = IF call[p].fn = None THEN None ELSE call[p].obj]
  /\ Return(p)
  /\ UNCHANGED <<table, live, number, receiver, fifo, txMore, task, app, frames, destroyed>>

\* A plausible slip, for mutation of the model: one byte more than there is room for.
RoomierSpace(o) == Room + 1 - Len(fifo[o])
GetSpace(o) == Room - Len(fifo[o])

\* A plausible slip, for mutation of the model: the byte being filled counts as free.
SpaceTooMuch(o) == IF GetSpace(o) < Room THEN GetSpace(o) + 1 ELSE Room
TxBufferSpace(o) == GetSpace(o)

Before(n) == IF n = 0 THEN 0 ELSE n - 1

SendPush(p) ==
  LET o == call[p].obj IN
    /\ In(p, "send", "run") /\ call[p].left > 0 /\ GetSpace(o) > 0
    /\ fifo' = [fifo EXCEPT ![o] = Append(@, <<p, call[p].id>>)]
    /\ space' = [space EXCEPT ![o] = IF p = "task" THEN 0 ELSE Before(@)]
    /\ call' = [call EXCEPT ![p].left = @ - 1]
    /\ UNCHANGED <<table, live, number, receiver, receiverObj, txMore, mutex, task, handle, sends, frames, destroyed>>

SendReturn(p) ==
  LET o == call[p].obj IN
    /\ In(p, "send", "run") /\ (call[p].left = 0 \/ GetSpace(o) = 0)
    /\ txMore' = [txMore EXCEPT ![o] = call[p].more]
    /\ Return(p)
    /\ UNCHANGED <<table, live, number, receiver, receiverObj, fifo, task, app, frames, destroyed>>

Flush(p) ==
  /\ In(p, "flush", "run")
  /\ fifo' = [fifo EXCEPT ![call[p].obj] = <<>>]
  /\ Return(p)
  /\ UNCHANGED <<table, live, number, receiver, receiverObj, txMore, task, app, frames, destroyed>>

Space(p) ==
  /\ In(p, "space", "run")
  /\ space' = [space EXCEPT ![call[p].obj] = TxBufferSpace(call[p].obj)]
  /\ Return(p)
  /\ UNCHANGED <<table, objects, task, handle, sends, frames, destroyed>>

CallStep(p) ==
  \/ Enter(p) \/ OpenCheck(p) \/ OpenStore(p) \/ CloseUnlink(p) \/ CloseDelete(p)
  \/ SetFunction(p) \/ SetObject(p) \/ SendPush(p) \/ SendReturn(p) \/ Flush(p) \/ Space(p)

\* The destructor, when all threads are done with the driver.
Destroy ==
  /\ ~destroyed /\ destroyed' = TRUE
  /\ task.at = "out" /\ \A p \in Proc : call[p] = Idle
  /\ live' = live \ {table[ch] : ch \in Channel}
  /\ table' = [ch \in Channel |-> None]
  /\ UNCHANGED <<number, receiver, receiverObj, fifo, txMore, mutex, task, call, app, frames>>

-----------------------------------------------------------------------------
\* task()

Goto(at) == task' = [task EXCEPT !.at = at]
Quiet == UNCHANGED <<table, live, number, receiver, receiverObj, txMore, call, app, destroyed>>

TaskEnter ==
  /\ task.at = "out" /\ ~destroyed
  /\ EnterCritical("task") /\ Goto("rx")
  /\ Quiet /\ UNCHANGED <<fifo, frames>>

\* The next expected frame, for channel ch.  It is acknowledged in any case, and dropped
\* if the channel is closed.
TaskFrame(ch) ==
  /\ task.at = "rx" /\ frames < MaxFrames /\ frames' = frames + 1
  /\ task' = [task EXCEPT !.ptr = table[ch], !.at = IF table[ch] # None THEN "found" ELSE "rx"]
  /\ Quiet /\ UNCHANGED <<fifo, mutex>>

TaskGetReceiver ==
  /\ task.at = "found"
  /\ Goto(IF receiver[task.ptr] # None THEN "known" ELSE "rx")
  /\ Quiet /\ UNCHANGED <<fifo, mutex, frames>>

TaskCallReceiver ==
  /\ task.at = "known"
  /\ task' = [task EXCEPT !.at = "callback", !.arg = receiverObj[task.ptr]]
  /\ Quiet /\ UNCHANGED <<fifo, mutex, frames>>

TaskReceiverReturns ==
  /\ task.at = "callback" /\ call["task"] = Idle
  /\ task' = [task EXCEPT !.at = "rx", !.ptr = None, !.arg = None]
  /\ Quiet /\ UNCHANGED <<fifo, mutex, frames>>

Ready(count, more) == count >= FRAME_PAYLOAD \/ (count > 0 /\ ~more)

\* Neither an ACK nor a repetition is due and the gate is open.
TaskScan ==
  /\ task.at = "rx"
  /\ task' = [task EXCEPT !.at = "scan", !.ch = 0, !.ptr = None]
  /\ Quiet /\ UNCHANGED <<fifo, mutex, frames>>

TaskGetChannel ==
  /\ task.at = "scan" /\ \E ch \in Channel : ch >= task.ch
  /\ task' = IF task.ch \in Channel /\ table[task.ch] # None
             THEN [task EXCEPT !.at = "look", !.ptr = table[task.ch]]
             ELSE [task EXCEPT !.ch = @ + 1]
  /\ Quiet /\ UNCHANGED <<fifo, mutex, frames>>

\* getCount is read once, before the more flag.
TaskCount ==
  /\ task.at = "look"
  /\ task' = [task EXCEPT !.at = "count", !.left = Len(fifo[task.ptr])]
  /\ Quiet /\ UNCHANGED <<fifo, mutex, frames>>

Limited(count) == IF count > FRAME_PAYLOAD THEN FRAME_PAYLOAD ELSE count

TaskMore ==
  /\ task.at = "count"
  /\ task' = IF Ready(task.left, txMore[task.ptr])
             THEN [task EXCEPT !.at = "fill", !.left = Limited(@)]
             ELSE [task EXCEPT !.at = "scan", !.ch = @ + 1, !.ptr = None, !.left = 0]
  /\ Quiet /\ UNCHANGED <<fifo, mutex, frames>>

\* The fifo of an object that is ready gives left bytes.
TaskFill ==
  /\ task.at = "fill" /\ task.left > 0
  /\ task' = [task EXCEPT !.left = @ - 1]
  /\ fifo' = [fifo EXCEPT ![task.ptr] = IF @ = <<>> THEN @ ELSE Tail(@)]
  /\ Quiet /\ UNCHANGED <<mutex, frames>>

\* With a frame or without: the gate closed, something else to send, no channel ready
\* or no room in the window.
TaskLeave ==
  /\ \/ task.at = "rx"
     \/ task.at = "scan" /\ \A ch \in Channel : ch < task.ch
     \/ task.at = "count" /\ Ready(task.left, txMore[task.ptr])
     \/ task.at = "fill" /\ task.left = 0
  /\ LeaveCritical
  /\ task' = [task EXCEPT !.at = "out", !.ch = 0, !.ptr = None, !.left = 0]
  /\ Quiet /\ UNCHANGED <<fifo, frames>>

TaskInside ==
  \/ \E ch \in Channel : TaskFrame(ch)
  \/ TaskGetReceiver \/ TaskCallReceiver \/ TaskReceiverReturns
  \/ TaskScan \/ TaskGetChannel \/ TaskCount \/ TaskMore \/ TaskFill \/ TaskLeave

-----------------------------------------------------------------------------

Next ==
  \/ TaskEnter \/ TaskInside \/ Destroy
  \/ \E p \in Proc : BeginCall(p) \/ CallStep(p)

Spec == Init /\ [][Next]_vars

-----------------------------------------------------------------------------
\* No thread follows a pointer to an object that close or the destructor has deleted:
\* neither task() between two looks at an object, nor a receiver that uses the channel
\* it was called with, nor a call.
NoUseAfterDelete ==
  /\ task.ptr # None => task.ptr \in live
  /\ task.at = "callback" /\ task.arg # None => task.arg \in live
  /\ \A p \in Proc : call[p] # Idle /\ call[p].name # "open" => call[p].obj \in live
  /\ \A ch \in Channel : table[ch] # None => table[ch] \in live

\* A receiver that was set together with the channel as its object is called with it.
ReceiverGetsItsObject == task.at = "callback" => task.arg = task.ptr

\* The destructor finds every object that exists: two threads that open one channel do
\* not both make an object for it.
NothingLeaks == destroyed => live = {}

\* What getTxBufferSpace has said without the critical section can be sent, whatever
\* task() takes out meanwhile, as long as nobody else sends on the channel.
SpaceCanBeSent == \A o \in live : space[o] <= GetSpace(o)

\* The bytes of one send stay together.
SendsDoNotMix ==
  \A o \in live : \A k \in 1 .. Len(fifo[o]) : \A i \in 1 .. k - 1 : \A j \in i .. k :
    fifo[o][i] = fifo[o][k] => fifo[o][j] = fifo[o][k]

\* A frame is filled with bytes that were sent: from the moment its count is read the
\* fifo never runs dry under it, neither before the more flag is read nor between pops.
FramesHoldSentBytes == task.at \in {"count", "fill"} => task.left <= Len(fifo[task.ptr])

\* Whoever is inside the critical section can go on: a receiver that sends from inside
\* task() does not wait for its own thread, and no way out of a call keeps the mutex.
HolderGoesOn ==
  /\ owner \in Thread => ENABLED CallStep(owner)
  /\ owner = "task" => ENABLED (TaskInside \/ CallStep("task"))

=============================================================================

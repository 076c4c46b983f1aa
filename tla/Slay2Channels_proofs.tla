------------------------ MODULE Slay2Channels_proofs ------------------------
(***************************************************************************)
(* Channels under threads, when the application calls open, close and      *)
(* setReceiver inside the critical section: for every number of threads,   *)
(* channels, objects and calls, and every size of the fifo and the frame.  *)
(***************************************************************************)
EXTENDS Slay2Channels, FiniteSets, FiniteSetTheorems, SequenceTheorems, TLAPS

\* What the theorems assume of the application: it makes the calls that do not enter the
\* critical section themselves inside it.  getTxBufferSpace needs no brackets.
Bracketed == {"open", "close", "setReceiver"} \subseteq Guarded

\* p is in a call and has entered the critical section for it.
Inside(p) == call[p] # Idle /\ Enters(call[p].name) /\ call[p].at # "enter"

\* The mutex is held by whoever is inside, twice by a receiver that sends.
Exclusion ==
  /\ owner = "task" <=> task.at # "out"
  /\ \A p \in Thread : Inside(p) <=> owner = p
  /\ owner = None => depth = 0
  /\ owner \in Thread => depth = 1
  /\ owner = "task" => depth = IF Inside("task") THEN 2 ELSE 1
  /\ \A p \in Proc : call[p] # Idle /\ call[p].at = "enter" => Enters(call[p].name)

\* A receiver uses the object it was called with, and only to send and to flush.
ReceiverCalls ==
  /\ call["task"] = Idle \/ call["task"].name \in {"send", "flush"}
  /\ call["task"] # Idle => task.at = "callback" /\ call["task"].obj = task.arg

\* What is known of the object task() has in hand.
TaskHolds ==
  /\ task.at = "out" => task.ptr = None
  /\ task.at \in {"found", "known", "callback", "look", "count", "fill"} => task.ptr # None
  /\ task.ptr # None => task.ptr \in live
  /\ task.at = "known" => receiver[task.ptr] # None
  /\ task.at = "callback" => task.arg = task.ptr

Storing(p) == In(p, "open", "store")
Deleting(p) == In(p, "close", "delete")

\* The table holds the objects that live, but for one being opened or closed.
TableHoldsLive ==
  /\ \A ch \in Channel : table[ch] # None => table[ch] \in live /\ number[table[ch]] = ch
  /\ \A o \in live : \/ table[number[o]] = o
                     \/ \E p \in Thread : (Storing(p) \/ Deleting(p)) /\ call[p].obj = o
  /\ \A p \in Thread : Storing(p) => /\ call[p].obj \in live /\ number[call[p].obj] = call[p].ch
                                     /\ table[call[p].ch] = None
                                     /\ \A q \in Thread, ch \in Channel : handle[q][ch] # call[p].obj
  /\ \A p \in Thread : Deleting(p) => table[number[call[p].obj]] = None

\* The object a thread has for a number is in the table, but while it closes it; no other
\* thread has it.
HandlesHoldLive ==
  /\ ~destroyed => \A p \in Thread, ch \in Channel : handle[p][ch] # None =>
       /\ handle[p][ch] \in live /\ number[handle[p][ch]] = ch
       /\ table[ch] = handle[p][ch] \/ (Deleting(p) /\ call[p].obj = handle[p][ch])
       /\ \A q \in Thread : handle[q][ch] = handle[p][ch] => q = p
  /\ \A p \in Thread : call[p] # Idle /\ call[p].name # "open" =>
       handle[p][number[call[p].obj]] = call[p].obj

\* When the driver is destroyed nobody is inside and nothing is left.
Gone == destroyed => live = {} /\ task.at = "out" /\ \A p \in Proc : call[p] = Idle

Setting(p) == In(p, "setReceiver", "object")

\* Function and object of a receiver belong together, but while they are being set.
ReceiversMatch ==
  /\ \A o \in live : \/ receiver[o] = None \/ receiverObj[o] = o
                     \/ \E p \in Thread : Setting(p) /\ call[p].obj = o
  /\ \A p \in Thread : Setting(p) => receiver[call[p].obj] = call[p].fn

\* The bytes of a send that goes on are the last ones, and there is no other place that
\* has some; numbers of sends are not used twice.
Contiguous(s) == \A k \in 1 .. Len(s) : \A i \in 1 .. k - 1 : \A j \in i .. k : s[i] = s[k] => s[j] = s[k]
Has(s, b) == \E i \in 1 .. Len(s) : s[i] = b
EndsWith(s, b) == Len(s) > 0 /\ s[Len(s)] = b
SendsInOrder ==
  /\ \A o \in Object : Contiguous(fifo[o])
  /\ \A o \in Object : \A i \in 1 .. Len(fifo[o]) : fifo[o][i][2] <= sends
  /\ \A p \in Proc : call[p] # Idle /\ call[p].name = "send" => call[p].id <= sends
  /\ \A p \in Proc, o \in Object : call[p] # Idle /\ call[p].name = "send" =>
       \/ ~Has(fifo[o], <<p, call[p].id>>)
       \/ call[p].at = "run" /\ o = call[p].obj /\ EndsWith(fifo[o], <<p, call[p].id>>)

RoomPromised == \A o \in Object : space[o] <= GetSpace(o)

ChannelsInv ==
  /\ TypeOK /\ Exclusion /\ ReceiverCalls /\ TaskHolds /\ TableHoldsLive /\ HandlesHoldLive
  /\ Gone /\ ReceiversMatch /\ SendsInOrder /\ RoomPromised /\ FramesHoldSentBytes

-----------------------------------------------------------------------------
\* What a call is, by its name.

OpenCall == [name : {"open"}, at : {"enter", "run", "store"}, ch : Channel, obj : Object \cup {None}]
CloseCall == [name : {"close"}, at : {"enter", "run", "delete"}, obj : Object]
SetCall == [name : {"setReceiver"}, at : {"enter", "run", "object"}, obj : Object, fn : Fn]
SendCall == [name : {"send"}, at : {"enter", "run"}, obj : Object, id : 1 .. MaxSends, left : Nat, more : BOOLEAN]
ShortCall == [name : {"flush", "space"}, at : {"enter", "run"}, obj : Object]

LEMMA CallForms ==
  ASSUME NEW c \in CallState
  PROVE  /\ c = Idle <=> c.name = "none"
         /\ c.name \in {"none", "open", "close", "setReceiver", "send", "flush", "space"}
         /\ c.name = "open" => c \in OpenCall
         /\ c.name = "close" => c \in CloseCall
         /\ c.name = "setReceiver" => c \in SetCall
         /\ c.name = "send" => c \in SendCall
         /\ c.name \in {"flush", "space"} => c \in ShortCall
<1>1. c \in {Idle} \/ c \in OpenCall \/ c \in CloseCall \/ c \in SetCall \/ c \in SendCall \/ c \in ShortCall
  BY DEF CallState, OpenCall, CloseCall, SetCall, SendCall, ShortCall
<1>2. CASE c = Idle
  BY <1>2 DEF Idle
<1>3. CASE c \in OpenCall
  BY <1>3 DEF OpenCall, Idle
<1>4. CASE c \in CloseCall
  BY <1>4 DEF CloseCall, Idle
<1>5. CASE c \in SetCall
  BY <1>5 DEF SetCall, Idle
<1>6. CASE c \in SendCall
  BY <1>6 DEF SendCall, Idle
<1>7. CASE c \in ShortCall
  BY <1>7 DEF ShortCall, Idle
<1> QED BY <1>1, <1>2, <1>3, <1>4, <1>5, <1>6, <1>7

LEMMA FormsAreCalls ==
  /\ Idle \in CallState /\ OpenCall \subseteq CallState /\ CloseCall \subseteq CallState
  /\ SetCall \subseteq CallState /\ SendCall \subseteq CallState /\ ShortCall \subseteq CallState
BY DEF CallState, OpenCall, CloseCall, SetCall, SendCall, ShortCall

\* A step of a call changes that call only, and of it the place, a number or an object.
Others(p) == \A q \in Proc : q # p => call'[q] = call[q]
SameCall(p) == /\ call'[p].name = call[p].name /\ call'[p].obj = call[p].obj
               /\ call[p].name = "open" => call'[p].ch = call[p].ch
               /\ call[p].name = "setReceiver" => call'[p].fn = call[p].fn
               /\ call[p].name = "send" => call'[p].id = call[p].id

LEMMA MovedCall ==
  ASSUME TypeOK, NEW p \in Proc, call[p] # Idle, NEW at,
         call' = [call EXCEPT ![p].at = at],
         [call[p] EXCEPT !.at = at] \in CallState
  PROVE  /\ call' \in [Proc -> CallState] /\ Others(p) /\ SameCall(p) /\ call'[p].at = at
         /\ call'[p] # Idle
<1>0. call \in [Proc -> CallState]
  BY DEF TypeOK
<1>1. call' \in [Proc -> CallState] /\ Others(p) /\ call'[p] = [call[p] EXCEPT !.at = at]
  BY <1>0 DEF Others
<1>2. SameCall(p) /\ call'[p].at = at
  <2>1. call[p] \in OpenCall \/ call[p] \in CloseCall \/ call[p] \in SetCall \/ call[p] \in SendCall \/ call[p] \in ShortCall
    BY <1>0, CallForms
  <2>2. CASE call[p] \in OpenCall
    BY <1>1, <2>2 DEF OpenCall, SameCall
  <2>3. CASE call[p] \in CloseCall
    BY <1>1, <2>3 DEF CloseCall, SameCall
  <2>4. CASE call[p] \in SetCall
    BY <1>1, <2>4 DEF SetCall, SameCall
  <2>5. CASE call[p] \in SendCall
    BY <1>1, <2>5 DEF SendCall, SameCall
  <2>6. CASE call[p] \in ShortCall
    BY <1>1, <2>6 DEF ShortCall, SameCall
  <2> QED BY <2>1, <2>2, <2>3, <2>4, <2>5, <2>6
<1>3. call'[p] # Idle
  BY <1>0, <1>1, <1>2, CallForms DEF SameCall
<1> QED BY <1>1, <1>2, <1>3

\* What each step does to the calls: the other calls stay as they are.

LEMMA CallStays ==
  ASSUME TypeOK, UNCHANGED call
  PROVE  call' \in [Proc -> CallState] /\ \A p \in Proc : call'[p] = call[p]
BY DEF TypeOK

LEMMA ReturnEndsCall ==
  ASSUME TypeOK, NEW p \in Proc, Return(p)
  PROVE  call' \in [Proc -> CallState] /\ Others(p) /\ call'[p] = Idle
BY FormsAreCalls DEF TypeOK, Return, Others

LEMMA BeginStartsCall ==
  ASSUME TypeOK, NEW p \in Proc, NEW c \in CallState, Begin(p, c)
  PROVE  call' \in [Proc -> CallState] /\ Others(p) /\ call'[p] = c /\ call[p] = Idle
BY DEF TypeOK, Begin, Others

LEMMA EnterMovesCall ==
  ASSUME TypeOK, NEW p \in Proc, Enter(p)
  PROVE  /\ call' \in [Proc -> CallState] /\ Others(p) /\ SameCall(p) /\ call[p].at = "enter"
         /\ call'[p].at = "run" /\ call[p] # Idle /\ call'[p] # Idle
<1>0. call[p] \in CallState /\ call[p] # Idle /\ call[p].at = "enter" /\ call' = [call EXCEPT ![p].at = "run"]
  BY DEF TypeOK, Enter
<1>1. call[p] \in OpenCall \/ call[p] \in CloseCall \/ call[p] \in SetCall \/ call[p] \in SendCall \/ call[p] \in ShortCall
  BY <1>0, CallForms
<1>2. [call[p] EXCEPT !.at = "run"] \in CallState
  <2>1. CASE call[p] \in OpenCall
    BY <2>1, FormsAreCalls DEF OpenCall
  <2>2. CASE call[p] \in CloseCall
    BY <2>2, FormsAreCalls DEF CloseCall
  <2>3. CASE call[p] \in SetCall
    BY <2>3, FormsAreCalls DEF SetCall
  <2>4. CASE call[p] \in SendCall
    BY <2>4, FormsAreCalls DEF SendCall
  <2>5. CASE call[p] \in ShortCall
    BY <2>5, FormsAreCalls DEF ShortCall
  <2> QED BY <1>1, <2>1, <2>2, <2>3, <2>4, <2>5
<1> QED BY <1>0, <1>2, MovedCall

LEMMA UnlinkMovesCall ==
  ASSUME TypeOK, NEW p \in Proc, CloseUnlink(p)
  PROVE  /\ call' \in [Proc -> CallState] /\ Others(p) /\ SameCall(p)
         /\ call[p].name = "close" /\ call[p].at = "run" /\ call'[p].at = "delete"
         /\ call[p] # Idle /\ call'[p] # Idle
<1>0. call[p] \in CallState /\ call[p].name = "close" /\ call[p].at = "run" /\ call' = [call EXCEPT ![p].at = "delete"]
  BY DEF TypeOK, CloseUnlink, In, Continue
<1>1. call[p] \in CloseCall /\ call[p] # Idle
  BY <1>0, CallForms
<1>2. [call[p] EXCEPT !.at = "delete"] \in CallState
  BY <1>1, FormsAreCalls DEF CloseCall
<1> QED BY <1>0, <1>1, <1>2, MovedCall

LEMMA SetMovesCall ==
  ASSUME TypeOK, NEW p \in Proc, SetFunction(p)
  PROVE  /\ call' \in [Proc -> CallState] /\ Others(p) /\ SameCall(p)
         /\ call[p].name = "setReceiver" /\ call[p].at = "run" /\ call'[p].at = "object"
         /\ call[p] # Idle /\ call'[p] # Idle
<1>0. call[p] \in CallState /\ call[p].name = "setReceiver" /\ call[p].at = "run" /\ call' = [call EXCEPT ![p].at = "object"]
  BY DEF TypeOK, SetFunction, In, Continue
<1>1. call[p] \in SetCall /\ call[p] # Idle
  BY <1>0, CallForms
<1>2. [call[p] EXCEPT !.at = "object"] \in CallState
  BY <1>1, FormsAreCalls DEF SetCall
<1> QED BY <1>0, <1>1, <1>2, MovedCall

LEMMA PushMovesCall ==
  ASSUME TypeOK, NEW p \in Proc, SendPush(p)
  PROVE  /\ call' \in [Proc -> CallState] /\ Others(p) /\ SameCall(p)
         /\ call[p].name = "send" /\ call[p].at = "run" /\ call'[p].at = "run"
         /\ call[p] # Idle /\ call'[p] # Idle
<1>0. /\ call[p] \in CallState /\ call[p].name = "send" /\ call[p].at = "run" /\ call[p].left > 0
      /\ call' = [call EXCEPT ![p].left = @ - 1] /\ call \in [Proc -> CallState]
  BY DEF TypeOK, SendPush, In
<1>1. call[p] \in SendCall /\ call[p] # Idle
  BY <1>0, CallForms
<1>2. call'[p] = [call[p] EXCEPT !.left = call[p].left - 1] /\ Others(p)
  BY <1>0 DEF Others
<1>3. call'[p] \in SendCall
  BY <1>0, <1>1, <1>2 DEF SendCall
<1>4. SameCall(p) /\ call'[p].at = "run"
  BY <1>0, <1>1, <1>2 DEF SendCall, SameCall
<1>5. call' \in [Proc -> CallState]
  BY <1>0, <1>3, FormsAreCalls
<1>6. call'[p] # Idle
  BY <1>0, <1>4, <1>5, CallForms DEF SameCall
<1> QED BY <1>0, <1>1, <1>2, <1>4, <1>5, <1>6

LEMMA OpenMovesCall ==
  ASSUME TypeOK, NEW p \in Proc, NEW o \in Object, In(p, "open", "run"),
         call' = [call EXCEPT ![p].at = "store", ![p].obj = o]
  PROVE  /\ call' \in [Proc -> CallState] /\ Others(p) /\ call'[p].name = "open" /\ call'[p].at = "store"
         /\ call'[p].obj = o /\ call'[p].ch = call[p].ch /\ call[p].ch \in Channel /\ call[p] # Idle /\ call'[p] # Idle
<1>0. /\ call[p] \in CallState /\ call[p].name = "open" /\ call[p].at = "run"
      /\ call \in [Proc -> CallState]
  BY DEF TypeOK, In
<1>1. call[p] \in OpenCall /\ call[p] # Idle
  BY <1>0, CallForms
<1>2. call'[p] = [call[p] EXCEPT !.at = "store", !.obj = o] /\ Others(p)
  BY <1>0 DEF Others
<1>m. call[p] = [name |-> "open", at |-> call[p].at, ch |-> call[p].ch, obj |-> call[p].obj] /\ call[p].ch \in Channel
  BY <1>1 DEF OpenCall
<1>n. call'[p] = [name |-> "open", at |-> "store", ch |-> call[p].ch, obj |-> o]
  <2> DEFINE r == [call[p] EXCEPT !.at = "store"]
  <2>1. r = [name |-> "open", at |-> "store", ch |-> call[p].ch, obj |-> call[p].obj]
    BY <1>m
  <2>2. call'[p] = [r EXCEPT !.obj = o]
    BY <1>2, <1>m
  <2> HIDE DEF r
  <2> QED BY <2>1, <2>2
<1>3. /\ call'[p] \in OpenCall /\ call'[p].at = "store" /\ call'[p].obj = o /\ call'[p].ch = call[p].ch
      /\ call'[p].name = "open" /\ call[p].ch \in Channel
  BY <1>m, <1>n DEF OpenCall
<1>4. call' \in [Proc -> CallState]
  BY <1>0, <1>3, FormsAreCalls
<1>5. call'[p] # Idle
  BY <1>3, <1>4, CallForms
<1> QED BY <1>1, <1>2, <1>3, <1>4, <1>5

\* A call begins outside the critical section, on an object the caller may use; in a
\* receiver it is a send or a flush.
Begun(p) ==
  /\ Others(p) /\ call[p] = Idle /\ call'[p] # Idle /\ ~destroyed
  /\ call'[p].at = FirstStep(call'[p].name)
  /\ call'[p].name = "open" => p \in Thread
  /\ call'[p].name # "open" => call'[p].obj \in Usable(p) \ {None}
  /\ p \in Thread \/ call'[p].name \in {"send", "flush"}
  /\ IF call'[p].name = "send" THEN sends' = sends + 1 /\ call'[p].id = sends + 1 ELSE sends' = sends
  /\ UNCHANGED <<table, objects, mutex, task, handle, space, frames, destroyed>>

LEMMA UsableType ==
  ASSUME TypeOK, NEW p \in Proc, NEW o \in Usable(p) \ {None}
  PROVE  o \in Object
BY DEF TypeOK, Usable, Proc

LEMMA FirstStepType == ASSUME NEW name PROVE FirstStep(name) \in {"enter", "run"}
BY DEF FirstStep

LEMMA BeginOpenBegins ==
  ASSUME TypeOK, NEW p \in Proc, NEW ch \in Channel, BeginOpen(p, ch)
  PROVE  call' \in [Proc -> CallState] /\ sends' \in 0 .. MaxSends /\ Begun(p)
<1> DEFINE c == [name |-> "open", at |-> FirstStep("open"), ch |-> ch, obj |-> None]
<1>1. c \in OpenCall /\ c.name = "open" /\ c.at = FirstStep("open") /\ c # Idle
  BY FirstStepType DEF OpenCall, Idle
<1>2. c \in CallState
  BY <1>1, FormsAreCalls
<1>3. Begin(p, c) /\ p \in Thread /\ sends' = sends
  BY DEF BeginOpen
<1> HIDE DEF c
<1>4. call' \in [Proc -> CallState] /\ Others(p) /\ call'[p] = c /\ call[p] = Idle
  BY <1>2, <1>3, BeginStartsCall
<1> QED BY <1>1, <1>3, <1>4 DEF Begun, Begin, TypeOK

LEMMA BeginCloseBegins ==
  ASSUME TypeOK, NEW p \in Proc, NEW o \in Usable(p) \ {None}, BeginClose(p, o)
  PROVE  call' \in [Proc -> CallState] /\ sends' \in 0 .. MaxSends /\ Begun(p)
<1> DEFINE c == [name |-> "close", at |-> FirstStep("close"), obj |-> o]
<1>1. c \in CloseCall /\ c.name = "close" /\ c.at = FirstStep("close") /\ c.obj = o /\ c # Idle
  BY FirstStepType, UsableType DEF CloseCall, Idle
<1>2. c \in CallState
  BY <1>1, FormsAreCalls
<1>3. Begin(p, c) /\ p \in Thread /\ sends' = sends
  BY DEF BeginClose
<1> HIDE DEF c
<1>4. call' \in [Proc -> CallState] /\ Others(p) /\ call'[p] = c /\ call[p] = Idle
  BY <1>2, <1>3, BeginStartsCall
<1> QED BY <1>1, <1>3, <1>4 DEF Begun, Begin, TypeOK

LEMMA BeginSetReceiverBegins ==
  ASSUME TypeOK, NEW p \in Proc, NEW o \in Usable(p) \ {None}, NEW fn \in Fn, BeginSetReceiver(p, o, fn)
  PROVE  call' \in [Proc -> CallState] /\ sends' \in 0 .. MaxSends /\ Begun(p)
<1> DEFINE c == [name |-> "setReceiver", at |-> FirstStep("setReceiver"), obj |-> o, fn |-> fn]
<1>1. c \in SetCall /\ c.name = "setReceiver" /\ c.at = FirstStep("setReceiver") /\ c.obj = o /\ c # Idle
  BY FirstStepType, UsableType DEF SetCall, Idle
<1>2. c \in CallState
  BY <1>1, FormsAreCalls
<1>3. Begin(p, c) /\ p \in Thread /\ sends' = sends
  BY DEF BeginSetReceiver
<1> HIDE DEF c
<1>4. call' \in [Proc -> CallState] /\ Others(p) /\ call'[p] = c /\ call[p] = Idle
  BY <1>2, <1>3, BeginStartsCall
<1> QED BY <1>1, <1>3, <1>4 DEF Begun, Begin, TypeOK

LEMMA BeginShortBegins ==
  ASSUME TypeOK, NEW p \in Proc, NEW o \in Usable(p) \ {None}, BeginFlush(p, o) \/ BeginSpace(p, o)
  PROVE  call' \in [Proc -> CallState] /\ sends' \in 0 .. MaxSends /\ Begun(p)
<1>1. PICK name \in {"flush", "space"} : /\ Begin(p, [name |-> name, at |-> FirstStep(name), obj |-> o])
                                         /\ sends' = sends /\ (p \in Thread \/ name = "flush")
  BY DEF BeginFlush, BeginSpace
<1> DEFINE c == [name |-> name, at |-> FirstStep(name), obj |-> o]
<1>2. c \in ShortCall /\ c.name = name /\ c.at = FirstStep(name) /\ c.obj = o /\ c # Idle
  BY FirstStepType, UsableType DEF ShortCall, Idle
<1>3. c \in CallState
  BY <1>2, FormsAreCalls
<1>4. Begin(p, c)
  BY <1>1
<1> HIDE DEF c
<1>5. call' \in [Proc -> CallState] /\ Others(p) /\ call'[p] = c /\ call[p] = Idle
  BY <1>3, <1>4, BeginStartsCall
<1> QED BY <1>1, <1>2, <1>4, <1>5 DEF Begun, Begin, TypeOK

LEMMA BeginSendBegins ==
  ASSUME TypeOK, NEW p \in Proc, NEW o \in Usable(p) \ {None}, NEW len \in SendSizes, NEW more \in BOOLEAN,
         BeginSend(p, o, len, more)
  PROVE  call' \in [Proc -> CallState] /\ sends' \in 0 .. MaxSends /\ Begun(p)
<1> DEFINE c == [name |-> "send", at |-> FirstStep("send"), obj |-> o, id |-> sends + 1,
                 left |-> len, more |-> more]
<1>0. sends \in 0 .. MaxSends /\ sends < MaxSends /\ MaxSends \in Nat /\ sends' = sends + 1 /\ Begin(p, c)
  BY NumberAssumption DEF TypeOK, BeginSend
<1>n. sends + 1 \in 1 .. MaxSends /\ len \in Nat
  BY <1>0, SizeAssumption
<1>1. /\ c \in SendCall /\ c.name = "send" /\ c.at = FirstStep("send") /\ c.obj = o /\ c.id = sends + 1
      /\ c # Idle
  BY <1>n, FirstStepType, UsableType DEF SendCall, Idle
<1>2. c \in CallState
  BY <1>1, FormsAreCalls
<1> HIDE DEF c
<1>3. call' \in [Proc -> CallState] /\ Others(p) /\ call'[p] = c /\ call[p] = Idle
  BY <1>0, <1>2, BeginStartsCall
<1>4. sends' \in 0 .. MaxSends
  BY <1>0
<1> QED BY <1>0, <1>1, <1>3, <1>4 DEF Begun, Begin

LEMMA CallBegins ==
  ASSUME TypeOK, NEW p \in Proc, BeginCall(p)
  PROVE  call' \in [Proc -> CallState] /\ sends' \in 0 .. MaxSends /\ Begun(p)
BY BeginOpenBegins, BeginCloseBegins, BeginSetReceiverBegins, BeginShortBegins, BeginSendBegins
   DEF BeginCall

-----------------------------------------------------------------------------
\* The mutex.

LEMMA Processes == None \notin Proc /\ "task" \in Proc /\ "task" \notin Thread /\ Thread \subseteq Proc
BY ThreadAssumption, NullAssumption DEF Proc

\* A step that leaves the mutex alone and lets nobody in or out.
LEMMA ExclusionKept ==
  ASSUME TypeOK, Exclusion, UNCHANGED mutex, task'.at = "out" <=> task.at = "out",
         \A p \in Proc : Inside(p)' <=> Inside(p),
         \A p \in Proc : call'[p] # Idle /\ call'[p].at = "enter" => Enters(call'[p].name)
  PROVE  Exclusion' /\ owner' \in Proc \cup {None}
<1>1. owner' = owner /\ depth' = depth /\ owner \in Proc \cup {None}
  BY DEF mutex, TypeOK
<1>2. (owner' = "task" <=> task'.at # "out") /\ (owner' = None => depth' = 0) /\ (owner' \in Thread => depth' = 1)
  BY <1>1 DEF Exclusion
<1>3. \A p \in Thread : Inside(p)' <=> owner' = p
  BY <1>1, Processes DEF Exclusion
<1>4. owner' = "task" => depth' = IF Inside("task")' THEN 2 ELSE 1
  BY <1>1, Processes DEF Exclusion
<1> QED BY <1>1, <1>2, <1>3, <1>4 DEF Exclusion

LEMMA InsideOfOthers ==
  ASSUME NEW p, Others(p), NEW q \in Proc, q # p
  PROVE  Inside(q)' <=> Inside(q)
BY DEF Others, Inside, Enters

LEMMA EntersStays == ASSUME NEW name PROVE Enters(name)' <=> Enters(name)
BY DEF Enters

\* A call that begins, or goes on without the mutex.
LEMMA ExclusionOnward ==
  ASSUME TypeOK, Exclusion, UNCHANGED <<mutex, task>>, NEW p \in Proc, Others(p),
         Inside(p)' <=> Inside(p),
         call'[p] # Idle /\ call'[p].at = "enter" => Enters(call'[p].name)
  PROVE  Exclusion' /\ owner' \in Proc \cup {None}
<1>1. \A q \in Proc : Inside(q)' <=> Inside(q)
  BY InsideOfOthers
<1>2. \A q \in Proc : call'[q] # Idle /\ call'[q].at = "enter" => Enters(call'[q].name)
  BY DEF Others, Exclusion
<1> QED BY <1>1, <1>2, ExclusionKept

LEMMA BegunIsOutside ==
  ASSUME NEW p \in Proc, Begun(p)
  PROVE  /\ Inside(p)' <=> Inside(p)
         /\ call'[p] # Idle /\ call'[p].at = "enter" => Enters(call'[p].name)
BY DEF Begun, Inside, FirstStep

LEMMA EnterExcludes ==
  ASSUME TypeOK, Exclusion, ReceiverCalls, NEW p \in Proc, Enter(p)
  PROVE  Exclusion' /\ owner' \in Proc \cup {None}
<1>1. /\ Others(p) /\ SameCall(p) /\ call[p].at = "enter" /\ call'[p].at = "run" /\ call[p] # Idle /\ call'[p] # Idle
  BY EnterMovesCall
<1>2. owner \in {None, p} /\ owner' = p /\ depth' = depth + 1 /\ task' = task
  BY DEF Enter, EnterCritical, MayEnter
<1>3. ~Inside(p) /\ Inside(p)'
  BY <1>1 DEF Exclusion, Inside, SameCall
<1>4. \A q \in Proc : q # p => (Inside(q)' <=> Inside(q))
  BY <1>1, InsideOfOthers
<1>5. \A q \in Proc : call'[q] # Idle /\ call'[q].at = "enter" => Enters(call'[q].name)
  BY <1>1 DEF Others, Exclusion
<1>6. CASE p \in Thread
  <2>1. owner = None /\ depth = 0 /\ task.at = "out"
    BY <1>2, <1>3, <1>6, Processes DEF Exclusion
  <2>2. \A q \in Thread : Inside(q)' <=> owner' = q
    BY <1>2, <1>3, <1>4, <2>1, Processes DEF Exclusion
  <2>3. owner' \in Thread /\ owner' # "task" /\ owner' # None /\ depth' = 1 /\ task'.at = "out"
    BY <1>2, <1>6, <2>1, Processes
  <2> QED BY <2>2, <2>3, <1>5, Processes DEF Exclusion
<1>7. CASE p = "task"
  <2>1. task.at = "callback" /\ owner = "task" /\ depth = 1
    BY <1>1, <1>3, <1>7 DEF ReceiverCalls, Exclusion
  <2>2. \A q \in Thread : Inside(q)' <=> owner' = q
    BY <1>2, <1>4, <1>7, <2>1, Processes DEF Exclusion
  <2>3. owner' = "task" /\ owner' # None /\ owner' \notin Thread /\ depth' = 2 /\ task'.at # "out"
    BY <1>2, <1>7, <2>1, Processes
  <2> QED BY <2>2, <2>3, <1>3, <1>5, <1>7, Processes DEF Exclusion
<1> QED BY <1>6, <1>7 DEF Proc

LEMMA ReturnExcludes ==
  ASSUME TypeOK, Exclusion, ReceiverCalls, NEW p \in Proc, call[p] # Idle, call[p].at # "enter", Return(p),
         UNCHANGED task
  PROVE  Exclusion' /\ owner' \in Proc \cup {None}
<1>1. Others(p) /\ call'[p] = Idle
  BY ReturnEndsCall
<1>2. ~Inside(p)'
  BY <1>1 DEF Inside
<1>3. CASE ~Enters(call[p].name)
  <2>1. UNCHANGED mutex /\ ~Inside(p)
    BY <1>3 DEF Return, Inside
  <2> QED BY <1>1, <1>2, <2>1, ExclusionOnward
<1>4. CASE Enters(call[p].name)
  <2>1. Inside(p) /\ depth' = depth - 1 /\ owner' = IF depth = 1 THEN None ELSE owner
    BY <1>4 DEF Return, LeaveCritical, Inside
  <2>2. \A q \in Proc : q # p => (Inside(q)' <=> Inside(q))
    BY <1>1, InsideOfOthers
  <2>3. \A q \in Proc : call'[q] # Idle /\ call'[q].at = "enter" => Enters(call'[q].name)
    BY <1>1 DEF Others, Exclusion
  <2>4. CASE p \in Thread
    <3>1. owner = p /\ depth = 1 /\ task.at = "out"
      BY <2>1, <2>4, Processes DEF Exclusion
    <3>2. owner' = None /\ depth' = 0 /\ task'.at = "out"
      BY <2>1, <3>1
    <3>3. \A q \in Thread : Inside(q)' <=> owner' = q
      BY <1>2, <2>2, <3>1, <3>2, Processes DEF Exclusion
    <3> QED BY <3>2, <3>3, <2>3, Processes, NullAssumption DEF Exclusion
  <2>5. CASE p = "task"
    <3>1. task.at = "callback" /\ owner = "task" /\ depth = 2
      BY <2>1, <2>5 DEF ReceiverCalls, Exclusion
    <3>2. owner' = "task" /\ depth' = 1 /\ task'.at # "out"
      BY <2>1, <3>1
    <3>3. \A q \in Thread : Inside(q)' <=> owner' = q
      BY <2>2, <2>5, <3>1, <3>2, Processes DEF Exclusion
    <3>4. ~Inside("task")' /\ owner' # None /\ owner' \notin Thread /\ owner' \in Proc
      BY <1>2, <2>5, <3>2, Processes
    <3> QED BY <3>2, <3>3, <3>4, <2>3 DEF Exclusion
  <2> QED BY <2>4, <2>5 DEF Proc
<1> QED BY <1>3, <1>4

\* A step of task() or of the destructor leaves the calls alone.
LEMMA CallsStayOutside ==
  ASSUME UNCHANGED call
  PROVE  /\ \A p \in Proc : Inside(p)' <=> Inside(p)
         /\ \A p \in Proc : call'[p] = call[p]
BY DEF Inside, Enters

LEMMA ExclusionUntouched ==
  ASSUME TypeOK, Exclusion, UNCHANGED <<mutex, call>>, task'.at = "out" <=> task.at = "out"
  PROVE  Exclusion' /\ owner' \in Proc \cup {None}
BY CallsStayOutside, ExclusionKept DEF Exclusion

LEMMA RunsAt ==
  ASSUME TypeOK, NEW p \in Proc, NEW name \in Calls, NEW at, In(p, name, at)
  PROVE  call[p] # Idle /\ call[p].name = name /\ call[p].at = at
BY CallForms DEF In, TypeOK, Calls

LEMMA TaskEnterExcludes ==
  ASSUME TypeOK, Exclusion, ReceiverCalls, TaskEnter
  PROVE  Exclusion' /\ owner' \in Proc \cup {None}
<1>1. /\ task.at = "out" /\ owner \in {None, "task"} /\ owner' = "task" /\ depth' = depth + 1 /\ UNCHANGED call
      /\ task'.at = "rx"
  BY DEF TaskEnter, EnterCritical, MayEnter, Quiet, Goto, TypeOK
<1>2. owner = None /\ depth' = 1
  BY <1>1 DEF Exclusion
<1>3. ~Inside("task")'
  BY <1>1, Processes, CallsStayOutside DEF ReceiverCalls, Inside
<1>4. \A q \in Thread : Inside(q)' <=> owner' = q
  BY <1>1, <1>2, Processes, CallsStayOutside DEF Exclusion
<1>5. \A q \in Proc : call'[q] # Idle /\ call'[q].at = "enter" => Enters(call'[q].name)
  BY <1>1, CallsStayOutside DEF Exclusion
<1>6. owner' # None /\ owner' \notin Thread
  BY <1>1, Processes
<1> QED BY <1>1, <1>2, <1>3, <1>4, <1>5, <1>6, Processes DEF Exclusion

LEMMA TaskLeaveExcludes ==
  ASSUME TypeOK, Exclusion, ReceiverCalls, TaskLeave
  PROVE  Exclusion' /\ owner' \in Proc \cup {None}
<1>1. /\ task.at # "out" /\ task.at # "callback" /\ depth' = depth - 1 /\ UNCHANGED call
      /\ owner' = (IF depth = 1 THEN None ELSE owner) /\ task'.at = "out"
  BY DEF TaskLeave, LeaveCritical, Quiet, TypeOK
<1>2. ~Inside("task")
  BY <1>1 DEF ReceiverCalls, Inside
<1>3. owner = "task" /\ depth = 1
  BY <1>1, <1>2 DEF Exclusion
<1>4. owner' = None /\ depth' = 0
  BY <1>1, <1>3
<1>5. \A q \in Thread : Inside(q)' <=> owner' = q
  BY <1>1, <1>3, <1>4, Processes, CallsStayOutside DEF Exclusion
<1>6. \A q \in Proc : call'[q] # Idle /\ call'[q].at = "enter" => Enters(call'[q].name)
  BY <1>1, CallsStayOutside DEF Exclusion
<1> QED BY <1>1, <1>4, <1>5, <1>6, Processes DEF Exclusion

\* The steps of task() between entering and leaving.
LEMMA TaskStaysInside ==
  ASSUME TypeOK, TaskInside, ~TaskLeave
  PROVE  task.at # "out" /\ task'.at # "out" /\ UNCHANGED <<mutex, call>>
<1> USE DEF Quiet, Goto, TypeOK
<1>1. ASSUME NEW ch \in Channel, TaskFrame(ch)
      PROVE task.at # "out" /\ task'.at # "out" /\ UNCHANGED <<mutex, call>>
  BY <1>1 DEF TaskFrame
<1>2. CASE TaskGetReceiver
  BY <1>2 DEF TaskGetReceiver
<1>3. CASE TaskCallReceiver
  BY <1>3 DEF TaskCallReceiver
<1>4. CASE TaskReceiverReturns
  BY <1>4 DEF TaskReceiverReturns
<1>5. CASE TaskScan
  BY <1>5 DEF TaskScan
<1>6. CASE TaskGetChannel
  BY <1>6 DEF TaskGetChannel
<1>7. CASE TaskCount
  BY <1>7 DEF TaskCount
<1>8. CASE TaskFill
  BY <1>8 DEF TaskFill
<1>9. CASE TaskMore
  BY <1>9 DEF TaskMore
<1> QED BY <1>1, <1>2, <1>3, <1>4, <1>5, <1>6, <1>7, <1>8, <1>9 DEF TaskInside

LEMMA CallStepExcludes ==
  ASSUME TypeOK, Exclusion, ReceiverCalls, NEW p \in Proc, CallStep(p)
  PROVE  Exclusion' /\ owner' \in Proc \cup {None}
<1>r. ASSUME NEW name \in Calls, NEW at, at # "enter", In(p, name, at), Return(p), UNCHANGED task
      PROVE  Exclusion' /\ owner' \in Proc \cup {None}
  BY <1>r, RunsAt, ReturnExcludes
<1>m. ASSUME Others(p), SameCall(p), call[p].at # "enter", call'[p].at # "enter",
             call[p] # Idle, call'[p] # Idle, UNCHANGED <<mutex, task>>
      PROVE  Exclusion' /\ owner' \in Proc \cup {None}
  <2>1. Inside(p)' <=> Inside(p)
    BY <1>m DEF SameCall, Inside, Enters
  <2> QED BY <1>m, <2>1, ExclusionOnward
<1>1. CASE Enter(p)
  BY <1>1, EnterExcludes
<1>2. CASE OpenCheck(p)
  <2>1. In(p, "open", "run") /\ UNCHANGED task
    BY <1>2 DEF OpenCheck
  <2>2. CASE Return(p)
    BY <1>r, <2>1, <2>2 DEF Calls
  <2>3. CASE ~Return(p)
    <3>1. PICK o \in Object : call' = [call EXCEPT ![p].at = "store", ![p].obj = o]
      BY <1>2, <2>3 DEF OpenCheck
    <3>2. UNCHANGED mutex
      BY <1>2, <2>3 DEF OpenCheck
    <3>3. /\ Others(p) /\ call'[p].name = "open" /\ call'[p].at = "store" /\ call[p] # Idle /\ call'[p] # Idle
          /\ call[p].name = "open" /\ call[p].at = "run"
      BY <2>1, <3>1, OpenMovesCall DEF In
    <3>4. Inside(p)' <=> Inside(p)
      BY <3>3 DEF Inside, Enters
    <3> QED BY <2>1, <3>2, <3>3, <3>4, ExclusionOnward
  <2> QED BY <2>2, <2>3
<1>3. CASE OpenStore(p)
  BY <1>3, <1>r DEF OpenStore, Calls
<1>4. CASE CloseUnlink(p)
  BY <1>4, <1>m, UnlinkMovesCall DEF CloseUnlink, Continue
<1>5. CASE CloseDelete(p)
  BY <1>5, <1>r DEF CloseDelete, Calls
<1>6. CASE SetFunction(p)
  BY <1>6, <1>m, SetMovesCall DEF SetFunction, Continue
<1>7. CASE SetObject(p)
  BY <1>7, <1>r DEF SetObject, Calls
<1>8. CASE SendPush(p)
  BY <1>8, <1>m, PushMovesCall DEF SendPush
<1>9. CASE SendReturn(p)
  BY <1>9, <1>r DEF SendReturn, Calls
<1>10. CASE Flush(p)
  BY <1>10, <1>r DEF Flush, Calls
<1>11. CASE Space(p)
  BY <1>11, <1>r DEF Space, Calls
<1> QED BY <1>1, <1>2, <1>3, <1>4, <1>5, <1>6, <1>7, <1>8, <1>9, <1>10, <1>11 DEF CallStep

LEMMA ExclusionPreserved ==
  ASSUME TypeOK, Exclusion, ReceiverCalls, [Next]_vars
  PROVE  Exclusion' /\ owner' \in Proc \cup {None}
<1>1. CASE TaskEnter
  BY <1>1, TaskEnterExcludes
<1>2. CASE TaskInside
  BY <1>2, TaskStaysInside, TaskLeaveExcludes, ExclusionUntouched
<1>3. CASE Destroy
  BY <1>3, ExclusionUntouched DEF Destroy
<1>4. ASSUME NEW p \in Proc, BeginCall(p) PROVE Exclusion' /\ owner' \in Proc \cup {None}
  <2>1. Begun(p)
    BY <1>4, CallBegins
  <2> QED BY <2>1, BegunIsOutside, ExclusionOnward DEF Begun
<1>5. ASSUME NEW p \in Proc, CallStep(p) PROVE Exclusion' /\ owner' \in Proc \cup {None}
  BY <1>5, CallStepExcludes
<1>6. CASE UNCHANGED vars
  BY <1>6, ExclusionUntouched DEF vars
<1> QED BY <1>1, <1>2, <1>3, <1>4, <1>5, <1>6 DEF Next

-----------------------------------------------------------------------------
\* Types.

ObjectTypes ==
  /\ table \in [Channel -> Object \cup {None}] /\ live \subseteq Object
  /\ number \in [Object -> Channel]
  /\ receiver \in [Object -> Fn] /\ receiverObj \in [Object -> Object \cup {None}]
  /\ fifo \in [Object -> Seq(Byte)] /\ (\A o \in Object : Len(fifo[o]) <= Room)
  /\ txMore \in [Object -> BOOLEAN]

TaskPlaces == {"out", "rx", "found", "known", "callback", "scan", "look", "count", "fill"}
TaskType ==
  task \in [at : TaskPlaces, ch : Nat, ptr : Object \cup {None}, arg : Object \cup {None}, left : 0 .. Room]

AppTypes ==
  /\ handle \in [Thread -> [Channel -> Object \cup {None}]] /\ space \in [Object -> 0 .. Room]
  /\ sends \in 0 .. MaxSends /\ frames \in 0 .. MaxFrames /\ destroyed \in BOOLEAN

LEMMA TypeParts ==
  TypeOK <=> /\ ObjectTypes /\ TaskType /\ AppTypes /\ call \in [Proc -> CallState]
             /\ owner \in Proc \cup {None} /\ depth \in 0 .. 2 /\ (owner = None <=> depth = 0)
BY DEF TypeOK, ObjectTypes, TaskType, AppTypes, TaskPlaces

LEMMA ExclusionTypes ==
  ASSUME Exclusion, owner \in Proc \cup {None}
  PROVE  depth \in 0 .. 2 /\ (owner = None <=> depth = 0)
BY Processes DEF Exclusion, Proc

LEMMA EmptyFifo == <<>> \in Seq(Byte) /\ Len(<<>>) = 0
OBVIOUS

LEMMA PushedFifo ==
  ASSUME NEW s \in Seq(Byte), NEW b \in Byte
  PROVE  /\ Append(s, b) \in Seq(Byte) /\ Len(Append(s, b)) = Len(s) + 1 /\ Len(s) \in Nat
         /\ Append(s, b)[Len(s) + 1] = b /\ \A i \in 1 .. Len(s) : Append(s, b)[i] = s[i]
OBVIOUS

LEMMA PoppedFifo ==
  ASSUME NEW s \in Seq(Byte), s # <<>>
  PROVE  /\ Tail(s) \in Seq(Byte) /\ Len(s) \in Nat \ {0} /\ Len(Tail(s)) = Len(s) - 1
         /\ \A i \in 1 .. Len(s) - 1 : Tail(s)[i] = s[i + 1]
OBVIOUS

LEMMA CallObject ==
  ASSUME TypeOK, NEW p \in Proc, call[p] # Idle
  PROVE  /\ call[p].obj \in Object \cup {None}
         /\ call[p].name # "open" => call[p].obj \in Object
         /\ call[p].name = "open" => call[p].ch \in Channel
         /\ call[p].name = "send" => call[p].id \in 1 .. MaxSends
         /\ call[p].name = "setReceiver" => call[p].fn \in Fn
<1>1. call[p] \in OpenCall \/ call[p] \in CloseCall \/ call[p] \in SetCall \/ call[p] \in SendCall \/ call[p] \in ShortCall
  BY CallForms DEF TypeOK
<1>2. CASE call[p] \in OpenCall
  BY <1>2 DEF OpenCall
<1>3. CASE call[p] \in CloseCall
  BY <1>3 DEF CloseCall
<1>4. CASE call[p] \in SetCall
  BY <1>4 DEF SetCall
<1>5. CASE call[p] \in SendCall
  BY <1>5 DEF SendCall
<1>6. CASE call[p] \in ShortCall
  BY <1>6 DEF ShortCall
<1> QED BY <1>1, <1>2, <1>3, <1>4, <1>5, <1>6

\* What a send, a flush and a frame being filled do to one fifo.
LEMMA FifoUpdateTypes ==
  ASSUME TypeOK, NEW o \in Object, NEW s \in Seq(Byte), Len(s) <= Room, fifo' = [fifo EXCEPT ![o] = s],
         UNCHANGED <<table, live, number, receiver, receiverObj, txMore>>
  PROVE  ObjectTypes'
<1>1. fifo \in [Object -> Seq(Byte)] /\ \A x \in Object : Len(fifo[x]) <= Room
  BY DEF TypeOK
<1>2. fifo' \in [Object -> Seq(Byte)] /\ \A x \in Object : Len(fifo'[x]) <= Room
  BY <1>1
<1> QED BY <1>2 DEF TypeOK, ObjectTypes

LEMMA CallStepTypes ==
  ASSUME TypeOK, NEW p \in Proc, CallStep(p)
  PROVE  ObjectTypes' /\ TaskType' /\ AppTypes' /\ call' \in [Proc -> CallState]
<1>0. ObjectTypes /\ TaskType /\ AppTypes /\ Room \in Nat
  BY TypeParts, SizeAssumption
<1>t. task' = task => TaskType'
  BY <1>0 DEF TaskType
<1>o. UNCHANGED <<table, objects>> => ObjectTypes'
  BY <1>0 DEF ObjectTypes, objects
<1>a. UNCHANGED <<app, frames, destroyed>> => AppTypes'
  BY <1>0 DEF AppTypes, app
<1>r. Return(p) => call' \in [Proc -> CallState]
  BY ReturnEndsCall
<1>1. CASE Enter(p)
  BY <1>1, <1>t, <1>o, <1>a, EnterMovesCall DEF Enter
<1>2. CASE OpenCheck(p)
  <2>0. call[p] # Idle /\ call[p].ch \in Channel /\ In(p, "open", "run")
    BY <1>2, RunsAt, CallObject DEF OpenCheck, Calls
  <2>1. CASE Return(p) /\ UNCHANGED <<objects, space>>
    BY <1>2, <2>1, <1>t, <1>o, <1>a, <1>r DEF OpenCheck, app
  <2>2. ASSUME NEW o \in Object, live' = live \cup {o}, number' = [number EXCEPT ![o] = call[p].ch],
               receiver' = [receiver EXCEPT ![o] = None], receiverObj' = [receiverObj EXCEPT ![o] = None],
               fifo' = [fifo EXCEPT ![o] = <<>>], txMore' = [txMore EXCEPT ![o] = FALSE],
               space' = [space EXCEPT ![o] = 0], call' = [call EXCEPT ![p].at = "store", ![p].obj = o]
        PROVE  ObjectTypes' /\ TaskType' /\ AppTypes' /\ call' \in [Proc -> CallState]
    <3>1. UNCHANGED <<table, task, handle, sends, frames, destroyed>>
      BY <1>2 DEF OpenCheck
    <3>2. fifo' \in [Object -> Seq(Byte)] /\ \A x \in Object : Len(fifo'[x]) <= Room
      BY <1>0, <2>2, EmptyFifo DEF ObjectTypes
    <3>3. table' \in [Channel -> Object \cup {None}] /\ live' \subseteq Object /\ number' \in [Object -> Channel]
      BY <1>0, <2>0, <2>2, <3>1 DEF ObjectTypes
    <3>4. /\ receiver' \in [Object -> Fn] /\ receiverObj' \in [Object -> Object \cup {None}]
          /\ txMore' \in [Object -> BOOLEAN]
      BY <1>0, <2>2 DEF ObjectTypes, Fn
    <3>5. AppTypes'
      BY <1>0, <2>2, <3>1 DEF AppTypes
    <3>6. call' \in [Proc -> CallState]
      BY <2>0, <2>2, OpenMovesCall
    <3> QED BY <3>1, <3>2, <3>3, <3>4, <3>5, <3>6, <1>t DEF ObjectTypes
  <2> QED BY <1>2, <2>1, <2>2 DEF OpenCheck
<1>3. CASE OpenStore(p)
  <2>0. call[p] # Idle /\ call[p].ch \in Channel /\ call[p].obj \in Object \cup {None}
    BY <1>3, RunsAt, CallObject DEF OpenStore, Calls
  <2>1. table' \in [Channel -> Object \cup {None}] /\ handle' \in [Thread -> [Channel -> Object \cup {None}]]
    BY <1>0, <1>3, <2>0 DEF OpenStore, ObjectTypes, AppTypes
  <2> QED BY <1>0, <1>3, <2>1, <1>t, <1>r DEF OpenStore, ObjectTypes, AppTypes, objects
<1>4. CASE CloseUnlink(p)
  <2>1. table' \in [Channel -> Object \cup {None}]
    BY <1>0, <1>4 DEF CloseUnlink, ObjectTypes
  <2> QED BY <1>0, <1>4, <2>1, <1>t, <1>a, UnlinkMovesCall DEF CloseUnlink, ObjectTypes, objects
<1>5. CASE CloseDelete(p)
  <2>1. live' \subseteq Object /\ handle' \in [Thread -> [Channel -> Object \cup {None}]]
    BY <1>0, <1>5 DEF CloseDelete, ObjectTypes, AppTypes
  <2> QED BY <1>0, <1>5, <2>1, <1>t, <1>r DEF CloseDelete, ObjectTypes, AppTypes
<1>6. CASE SetFunction(p)
  <2>0. call[p] # Idle /\ call[p].fn \in Fn
    BY <1>6, RunsAt, CallObject DEF SetFunction, Calls
  <2>1. receiver' \in [Object -> Fn]
    BY <1>0, <1>6, <2>0 DEF SetFunction, ObjectTypes
  <2> QED BY <1>0, <1>6, <2>1, <1>t, <1>a, SetMovesCall DEF SetFunction, ObjectTypes
<1>7. CASE SetObject(p)
  <2>0. call[p] # Idle /\ call[p].obj \in Object
    BY <1>7, RunsAt, CallObject DEF SetObject, Calls
  <2>1. receiverObj' \in [Object -> Object \cup {None}]
    BY <1>0, <1>7, <2>0 DEF SetObject, ObjectTypes
  <2> QED BY <1>0, <1>7, <2>1, <1>t, <1>a, <1>r DEF SetObject, ObjectTypes
<1>8. CASE SendPush(p)
  <2>0. call[p] # Idle /\ call[p].obj \in Object /\ call[p].id \in 1 .. MaxSends
    BY <1>8, RunsAt, CallObject DEF SendPush, Calls
  <2> DEFINE o == call[p].obj
             s == Append(fifo[o], <<p, call[p].id>>)
  <2>1. o \in Object /\ fifo[o] \in Seq(Byte) /\ <<p, call[p].id>> \in Byte /\ Room - Len(fifo[o]) > 0
    BY <1>0, <1>8, <2>0 DEF ObjectTypes, Byte, SendPush, GetSpace
  <2>2. s \in Seq(Byte) /\ Len(s) <= Room
    BY <1>0, <2>1, PushedFifo
  <2>3. fifo' = [fifo EXCEPT ![o] = s] /\ UNCHANGED <<table, live, number, receiver, receiverObj, txMore, task>>
    BY <1>8 DEF SendPush
  <2>4. space' \in [Object -> 0 .. Room]
    <3>1. space' = [space EXCEPT ![o] = IF p = "task" THEN 0 ELSE Before(space[o])]
      BY <1>8 DEF SendPush
    <3>2. space[o] \in 0 .. Room
      BY <1>0, <2>1 DEF AppTypes
    <3>3. Before(space[o]) \in 0 .. Room /\ 0 \in 0 .. Room
      BY <3>2, <1>0 DEF Before
    <3> QED BY <1>0, <3>1, <3>3 DEF AppTypes
  <2> HIDE DEF o, s
  <2>5. ObjectTypes'
    BY <2>1, <2>2, <2>3, FifoUpdateTypes
  <2>6. AppTypes'
    BY <1>0, <1>8, <2>4 DEF SendPush, AppTypes
  <2> QED BY <1>8, <2>3, <2>5, <2>6, <1>t, PushMovesCall
<1>9. CASE SendReturn(p)
  <2>0. call[p] # Idle /\ call[p].more \in BOOLEAN
    <3>1. call[p] # Idle /\ call[p].name = "send"
      BY <1>9, RunsAt DEF SendReturn, Calls
    <3>2. call[p] \in SendCall
      BY <3>1, CallForms DEF TypeOK
    <3> QED BY <3>1, <3>2 DEF SendCall
  <2>1. txMore' \in [Object -> BOOLEAN]
    BY <1>0, <1>9, <2>0 DEF SendReturn, ObjectTypes
  <2> QED BY <1>0, <1>9, <2>1, <1>t, <1>a, <1>r DEF SendReturn, ObjectTypes
<1>10. CASE Flush(p)
  <2>0. call[p] # Idle /\ call[p].obj \in Object
    BY <1>10, RunsAt, CallObject DEF Flush, Calls
  <2>1. <<>> \in Seq(Byte) /\ Len(<<>>) <= Room
    BY <1>0, EmptyFifo
  <2>2. /\ fifo' = [fifo EXCEPT ![call[p].obj] = <<>>]
        /\ UNCHANGED <<table, live, number, receiver, receiverObj, txMore>>
    BY <1>10 DEF Flush
  <2>3. ObjectTypes'
    BY <2>0, <2>1, <2>2, FifoUpdateTypes
  <2> QED BY <1>10, <2>3, <1>t, <1>a, <1>r DEF Flush
<1>11. CASE Space(p)
  <2>0. call[p] # Idle /\ call[p].obj \in Object
    BY <1>11, RunsAt, CallObject DEF Space, Calls
  <2>1. Len(fifo[call[p].obj]) \in Nat /\ Len(fifo[call[p].obj]) <= Room
    BY <1>0, <2>0 DEF ObjectTypes
  <2>2. TxBufferSpace(call[p].obj) \in 0 .. Room
    BY <1>0, <2>1 DEF TxBufferSpace, GetSpace
  <2>3. AppTypes'
    BY <1>0, <1>11, <2>2 DEF Space, AppTypes
  <2> QED BY <1>11, <2>3, <1>t, <1>o, <1>r DEF Space
<1> QED BY <1>1, <1>2, <1>3, <1>4, <1>5, <1>6, <1>7, <1>8, <1>9, <1>10, <1>11 DEF CallStep

LEMMA TaskStepTypes ==
  ASSUME TypeOK, TaskHolds, TaskEnter \/ TaskInside
  PROVE  ObjectTypes' /\ TaskType' /\ AppTypes' /\ call' \in [Proc -> CallState]
<1>0. /\ ObjectTypes /\ TaskType /\ AppTypes /\ call \in [Proc -> CallState]
      /\ FRAME_PAYLOAD \in Nat /\ Room \in Nat /\ MaxFrames \in Nat
  BY TypeParts, SizeAssumption, NumberAssumption
<1>o. Quiet /\ UNCHANGED fifo => ObjectTypes'
  BY <1>0 DEF ObjectTypes, Quiet
<1>a. Quiet /\ UNCHANGED frames => AppTypes'
  BY <1>0 DEF AppTypes, Quiet, app
<1>c. Quiet => call' \in [Proc -> CallState]
  BY <1>0 DEF Quiet
<1>g. ASSUME NEW at \in TaskPlaces, Goto(at) PROVE TaskType'
  BY <1>0, <1>g DEF TaskType, Goto
<1>1. CASE TaskEnter
  BY <1>1, <1>o, <1>a, <1>c, <1>g DEF TaskEnter, TaskPlaces
<1>2. ASSUME NEW ch \in Channel, TaskFrame(ch)
      PROVE  ObjectTypes' /\ TaskType' /\ AppTypes' /\ call' \in [Proc -> CallState]
  <2>1. table[ch] \in Object \cup {None}
    BY <1>0 DEF ObjectTypes
  <2>2. TaskType'
    BY <1>0, <1>2, <2>1 DEF TaskFrame, TaskType, TaskPlaces
  <2>3. frames' \in 0 .. MaxFrames
    BY <1>0, <1>2 DEF TaskFrame, AppTypes
  <2>4. AppTypes'
    BY <1>0, <1>2, <2>3 DEF TaskFrame, AppTypes, Quiet, app
  <2> QED BY <1>2, <2>2, <2>4, <1>o, <1>c DEF TaskFrame
<1>3. CASE TaskGetReceiver
  BY <1>3, <1>o, <1>a, <1>c, <1>g DEF TaskGetReceiver, TaskPlaces
<1>4. CASE TaskCallReceiver
  <2>1. task.ptr \in Object
    BY <1>0, <1>4 DEF TaskHolds, TaskType, TaskCallReceiver
  <2>2. receiverObj[task.ptr] \in Object \cup {None}
    BY <1>0, <2>1 DEF ObjectTypes
  <2>3. TaskType'
    BY <1>0, <1>4, <2>2 DEF TaskCallReceiver, TaskType, TaskPlaces
  <2> QED BY <1>4, <2>3, <1>o, <1>a, <1>c DEF TaskCallReceiver
<1>5. CASE TaskReceiverReturns
  <2>1. TaskType'
    BY <1>0, <1>5 DEF TaskReceiverReturns, TaskType, TaskPlaces
  <2> QED BY <1>5, <2>1, <1>o, <1>a, <1>c DEF TaskReceiverReturns
<1>6. CASE TaskScan
  <2>1. TaskType'
    BY <1>0, <1>6 DEF TaskScan, TaskType, TaskPlaces
  <2> QED BY <1>6, <2>1, <1>o, <1>a, <1>c DEF TaskScan
<1>7. CASE TaskGetChannel
  <2>1. task.ch \in Channel => table[task.ch] \in Object \cup {None}
    BY <1>0 DEF ObjectTypes
  <2>2. CASE task.ch \in Channel /\ table[task.ch] # None
    <3>1. TaskType'
      BY <1>0, <1>7, <2>1, <2>2 DEF TaskGetChannel, TaskType, TaskPlaces
    <3> QED BY <1>7, <3>1, <1>o, <1>a, <1>c DEF TaskGetChannel
  <2>3. CASE ~(task.ch \in Channel /\ table[task.ch] # None)
    <3>1. task' = [task EXCEPT !.ch = task.ch + 1] /\ task.ch + 1 \in Nat
      BY <1>0, <1>7, <2>3 DEF TaskGetChannel, TaskType
    <3>2. TaskType'
      BY <1>0, <3>1 DEF TaskType
    <3> QED BY <1>7, <3>2, <1>o, <1>a, <1>c DEF TaskGetChannel
  <2> QED BY <2>2, <2>3
<1>8. CASE TaskCount
  <2>1. task.ptr \in Object
    BY <1>0, <1>8 DEF TaskHolds, TaskType, TaskCount
  <2>2. Len(fifo[task.ptr]) \in 0 .. Room
    BY <1>0, <2>1 DEF ObjectTypes
  <2>3. TaskType'
    BY <1>0, <1>8, <2>2 DEF TaskCount, TaskType, TaskPlaces
  <2> QED BY <1>8, <2>3, <1>o, <1>a, <1>c DEF TaskCount
<1>11. CASE TaskMore
  <2>1. task.left \in 0 .. Room /\ 0 \in 0 .. Room /\ task.ch + 1 \in Nat
    BY <1>0 DEF TaskType
  <2>2. Limited(task.left) \in 0 .. Room
    BY <1>0, <2>1 DEF Limited
  <2>3. \/ task' = [task EXCEPT !.at = "fill", !.left = Limited(task.left)]
        \/ task' = [task EXCEPT !.at = "scan", !.ch = task.ch + 1, !.ptr = None, !.left = 0]
    BY <1>11 DEF TaskMore
  <2>4. TaskType'
    BY <1>0, <2>1, <2>2, <2>3 DEF TaskType, TaskPlaces
  <2> QED BY <1>11, <2>4, <1>o, <1>a, <1>c DEF TaskMore
<1>9. CASE TaskFill
  <2>1. task.ptr \in Object /\ task.left \in 0 .. Room /\ task.left > 0
    BY <1>0, <1>9 DEF TaskHolds, TaskType, TaskFill
  <2>2. task' = [task EXCEPT !.left = task.left - 1] /\ task.left - 1 \in 0 .. Room
    BY <1>0, <1>9, <2>1 DEF TaskFill
  <2>3. TaskType'
    BY <1>0, <2>2 DEF TaskType
  <2> DEFINE s == IF fifo[task.ptr] = <<>> THEN fifo[task.ptr] ELSE Tail(fifo[task.ptr])
  <2>4. fifo[task.ptr] \in Seq(Byte) /\ Len(fifo[task.ptr]) <= Room /\ Len(fifo[task.ptr]) \in Nat
    BY <1>0, <2>1 DEF ObjectTypes
  <2>5. s \in Seq(Byte) /\ Len(s) <= Room
    <3>1. CASE fifo[task.ptr] = <<>>
      BY <2>4, <3>1
    <3>2. CASE fifo[task.ptr] # <<>>
      BY <2>4, <3>2, PoppedFifo, SizeAssumption
    <3> QED BY <3>1, <3>2
  <2>6. fifo' = [fifo EXCEPT ![task.ptr] = s] /\ UNCHANGED <<table, live, number, receiver, receiverObj, txMore>>
    BY <1>9 DEF TaskFill, Quiet
  <2> HIDE DEF s
  <2>7. ObjectTypes'
    BY <2>1, <2>5, <2>6, FifoUpdateTypes
  <2> QED BY <1>9, <2>3, <2>7, <1>a, <1>c DEF TaskFill
<1>10. CASE TaskLeave
  <2>1. 0 \in 0 .. Room
    BY <1>0
  <2>2. TaskType'
    BY <1>0, <1>10, <2>1 DEF TaskLeave, TaskType, TaskPlaces
  <2> QED BY <1>10, <2>2, <1>o, <1>a, <1>c DEF TaskLeave
<1> QED BY <1>1, <1>2, <1>3, <1>4, <1>5, <1>6, <1>7, <1>8, <1>9, <1>10, <1>11 DEF TaskInside

LEMMA TypePreserved ==
  ASSUME TypeOK, Exclusion, ReceiverCalls, TaskHolds, [Next]_vars
  PROVE  TypeOK'
<1>0. ObjectTypes /\ TaskType /\ AppTypes /\ call \in [Proc -> CallState]
  BY TypeParts
<1>m. /\ owner' \in Proc \cup {None} /\ depth' \in 0 .. 2 /\ (owner' = None <=> depth' = 0)
  BY ExclusionPreserved, Processes DEF Exclusion, Proc
<1>t. /\ TypeOK' <=> /\ ObjectTypes' /\ TaskType' /\ AppTypes' /\ call' \in [Proc -> CallState]
                     /\ owner' \in Proc \cup {None} /\ depth' \in 0 .. 2 /\ (owner' = None <=> depth' = 0)
  BY DEF TypeOK, ObjectTypes, TaskType, AppTypes, TaskPlaces, Proc, CallState, Byte, Fn, Idle
<1>1. CASE TaskEnter \/ TaskInside
  BY <1>1, <1>m, <1>t, TaskStepTypes
<1>2. CASE Destroy
  <2>1. table' \in [Channel -> Object \cup {None}] /\ live' \subseteq Object
    BY <1>0, <1>2 DEF Destroy, ObjectTypes
  <2>2. ObjectTypes' /\ TaskType' /\ AppTypes' /\ call' \in [Proc -> CallState]
    BY <1>0, <1>2, <2>1 DEF Destroy, ObjectTypes, TaskType, AppTypes, app
  <2> QED BY <2>2, <1>m, <1>t
<1>3. ASSUME NEW p \in Proc, BeginCall(p) PROVE TypeOK'
  <2>1. call' \in [Proc -> CallState] /\ sends' \in 0 .. MaxSends /\ Begun(p)
    BY <1>3, CallBegins
  <2>2. ObjectTypes' /\ TaskType' /\ AppTypes'
    BY <1>0, <2>1 DEF Begun, ObjectTypes, objects, TaskType, AppTypes
  <2> QED BY <2>1, <2>2, <1>m, <1>t
<1>4. ASSUME NEW p \in Proc, CallStep(p) PROVE TypeOK'
  BY <1>4, <1>m, <1>t, CallStepTypes
<1>5. CASE UNCHANGED vars
  <2>1. ObjectTypes' /\ TaskType' /\ AppTypes' /\ call' \in [Proc -> CallState]
    BY <1>0, <1>5 DEF vars, objects, app, ObjectTypes, TaskType, AppTypes
  <2> QED BY <2>1, <1>m, <1>t
<1> QED BY <1>1, <1>2, <1>3, <1>4, <1>5 DEF Next

-----------------------------------------------------------------------------
\* Who can be inside with whom.

LEMMA CallStepShape ==
  ASSUME TypeOK, NEW p \in Proc, CallStep(p)
  PROVE  /\ Others(p) /\ call[p] # Idle /\ UNCHANGED <<task, sends, frames, destroyed>>
         /\ \/ call'[p] = Idle
            \/ /\ call'[p] # Idle /\ call'[p].name = call[p].name /\ call'[p].at # "enter"
               /\ call[p].name # "open" => SameCall(p)
<1> DEFINE Shape == \/ call'[p] = Idle
                    \/ /\ call'[p] # Idle /\ call'[p].name = call[p].name /\ call'[p].at # "enter"
                       /\ call[p].name # "open" => SameCall(p)
<1>r. ASSUME NEW name \in Calls, NEW at, In(p, name, at), Return(p)
      PROVE  Others(p) /\ call[p] # Idle /\ Shape
  BY <1>r, RunsAt, ReturnEndsCall
<1>m. ASSUME Others(p), SameCall(p), call'[p].at # "enter", call[p] # Idle, call'[p] # Idle
      PROVE  Others(p) /\ call[p] # Idle /\ Shape
  BY <1>m DEF SameCall
<1>o. ASSUME NEW o \in Object, In(p, "open", "run"), call' = [call EXCEPT ![p].at = "store", ![p].obj = o]
      PROVE  Others(p) /\ call[p] # Idle /\ Shape
  <2>1. /\ Others(p) /\ call'[p].name = "open" /\ call'[p].at = "store" /\ call[p] # Idle /\ call'[p] # Idle
    BY <1>o, OpenMovesCall
  <2> QED BY <1>o, <2>1 DEF In
<1> HIDE DEF Shape
<1>1. CASE Enter(p)
  BY <1>1, <1>m, EnterMovesCall DEF Enter, app, Shape
<1>2. CASE OpenCheck(p)
  <2>1. In(p, "open", "run") /\ UNCHANGED <<task, sends, frames, destroyed>>
    BY <1>2 DEF OpenCheck
  <2>2. Return(p) \/ \E o \in Object : call' = [call EXCEPT ![p].at = "store", ![p].obj = o]
    BY <1>2 DEF OpenCheck
  <2> QED BY <2>1, <2>2, <1>r, <1>o DEF Shape, Calls
<1>3. CASE OpenStore(p)
  BY <1>3, <1>r DEF OpenStore, Calls, Shape
<1>4. CASE CloseUnlink(p)
  BY <1>4, <1>m, UnlinkMovesCall DEF CloseUnlink, app, Shape
<1>5. CASE CloseDelete(p)
  BY <1>5, <1>r DEF CloseDelete, Calls, Shape
<1>6. CASE SetFunction(p)
  BY <1>6, <1>m, SetMovesCall DEF SetFunction, app, Shape
<1>7. CASE SetObject(p)
  BY <1>7, <1>r DEF SetObject, Calls, app, Shape
<1>8. CASE SendPush(p)
  BY <1>8, <1>m, PushMovesCall DEF SendPush, Shape
<1>9. CASE SendReturn(p)
  BY <1>9, <1>r DEF SendReturn, Calls, app, Shape
<1>10. CASE Flush(p)
  BY <1>10, <1>r DEF Flush, Calls, app, Shape
<1>11. CASE Space(p)
  BY <1>11, <1>r DEF Space, Calls, Shape
<1> QED BY <1>1, <1>2, <1>3, <1>4, <1>5, <1>6, <1>7, <1>8, <1>9, <1>10, <1>11 DEF CallStep, Shape

LEMMA OneInside ==
  ASSUME Exclusion, NEW p \in Thread, Inside(p)
  PROVE  /\ task.at = "out" /\ owner = p
         /\ \A q \in Thread : Inside(q) => q = p
BY Processes DEF Exclusion

\* With the calls bracketed every statement but those of getTxBufferSpace runs inside.
LEMMA StatementsInside ==
  ASSUME Bracketed, TypeOK, NEW p \in Proc, NEW name \in Calls, name # "space", NEW at, at # "enter", In(p, name, at)
  PROVE  Inside(p)
<1>1. call[p] # Idle /\ call[p].name = name /\ call[p].at = at
  BY RunsAt
<1>2. Enters(name)
  BY DEF Bracketed, Enters, Calls
<1> QED BY <1>1, <1>2 DEF Inside

\* A receiver is in a send or a flush, so a thread makes every other step of a call.
LEMMA ThreadSteps ==
  ASSUME TypeOK, ReceiverCalls, NEW p \in Proc, NEW name \in Calls \ {"send", "flush"}, NEW at, In(p, name, at)
  PROVE  p \in Thread
<1>1. call[p] # Idle /\ call[p].name = name
  BY RunsAt
<1> QED BY <1>1 DEF ReceiverCalls, Proc

LEMMA ReceiverCallsPreserved ==
  ASSUME TypeOK, ReceiverCalls, [Next]_vars
  PROVE  ReceiverCalls'
<1>0. "task" \in Proc /\ Idle' = Idle
  BY Processes DEF Idle
<1>s. ASSUME UNCHANGED call, task.at = "callback" => UNCHANGED task
      PROVE  ReceiverCalls'
  BY <1>s DEF ReceiverCalls, Idle
<1>1. CASE TaskEnter
  BY <1>1, <1>s DEF TaskEnter, Quiet
<1>2. CASE TaskInside
  <2>1. CASE TaskReceiverReturns
    <3>1. call["task"] = Idle /\ call' = call
      BY <2>1 DEF TaskReceiverReturns, Quiet
    <3> QED BY <3>1 DEF ReceiverCalls, Idle
  <2>2. CASE ~TaskReceiverReturns
    <3>1. UNCHANGED call /\ task.at # "callback"
      BY <1>2, <2>2 DEF TaskInside, TaskFrame, TaskGetReceiver, TaskCallReceiver, TaskScan, TaskGetChannel,
                        TaskCount, TaskMore, TaskFill, TaskLeave, Quiet
    <3> QED BY <3>1, <1>s
  <2> QED BY <2>1, <2>2
<1>3. CASE Destroy
  BY <1>3, <1>s DEF Destroy
<1>4. ASSUME NEW p \in Proc, BeginCall(p) PROVE ReceiverCalls'
  <2>1. Begun(p)
    BY <1>4, CallBegins
  <2>2. CASE p \in Thread
    <3>1. call'["task"] = call["task"] /\ task' = task
      BY <2>1, <2>2, Processes DEF Begun, Others
    <3> QED BY <3>1 DEF ReceiverCalls, Idle
  <2>3. CASE p = "task"
    <3>1. /\ call'["task"].name \in {"send", "flush"} /\ call'["task"].obj \in Usable("task") \ {None}
          /\ task' = task
      BY <2>1, <2>3, Processes DEF Begun
    <3>2. task.at = "callback" /\ call'["task"].obj = task.arg
      BY <3>1 DEF Usable
    <3> QED BY <3>1, <3>2 DEF ReceiverCalls
  <2> QED BY <2>2, <2>3 DEF Proc
<1>5. ASSUME NEW p \in Proc, CallStep(p) PROVE ReceiverCalls'
  <2>1. CASE p \in Thread
    <3>1. call'["task"] = call["task"] /\ task' = task
      BY <1>5, <2>1, CallStepShape, Processes DEF Others
    <3> QED BY <3>1 DEF ReceiverCalls, Idle
  <2>2. CASE p = "task"
    <3>1. call["task"].name \in {"send", "flush"} /\ task.at = "callback" /\ call["task"].obj = task.arg /\ task' = task
      BY <1>5, <2>2, CallStepShape DEF ReceiverCalls
    <3>2. call'["task"] = Idle \/ (call'["task"].name = call["task"].name /\ SameCall("task"))
      BY <1>5, <2>2, <3>1, CallStepShape
    <3> QED BY <3>1, <3>2 DEF ReceiverCalls, SameCall, Idle
  <2> QED BY <2>1, <2>2 DEF Proc
<1>6. CASE UNCHANGED vars
  BY <1>6, <1>s DEF vars
<1> QED BY <1>1, <1>2, <1>3, <1>4, <1>5, <1>6 DEF Next

-----------------------------------------------------------------------------
\* What task() has in hand.

\* While task() is inside, a step of another process is none of a guarded call.
LEMMA NobodyElseInside ==
  ASSUME Exclusion, task.at # "out", NEW p \in Thread
  PROVE  ~Inside(p)
BY Processes DEF Exclusion

LEMMA TaskHoldsPreserved ==
  ASSUME Bracketed, TypeOK, Exclusion, ReceiverCalls, TaskHolds, TableHoldsLive, ReceiversMatch, [Next]_vars
  PROVE  TaskHolds'
<1>0. /\ TaskType /\ table \in [Channel -> Object \cup {None}] /\ receiverObj \in [Object -> Object \cup {None}]
      /\ None \notin Object
  BY TypeParts, NullAssumption DEF ObjectTypes
<1>s. ASSUME UNCHANGED <<task, live, receiver>>
      PROVE  TaskHolds'
  BY <1>s DEF TaskHolds
<1>e. ASSUME task.at = "out", UNCHANGED task
      PROVE  TaskHolds'
  BY <1>e DEF TaskHolds
<1>1. CASE TaskEnter
  <2>1. task' = [task EXCEPT !.at = "rx"] /\ task.at = "out"
    BY <1>1 DEF TaskEnter, Goto
  <2>2. task'.at = "rx" /\ task'.ptr = None
    BY <1>0, <2>1 DEF TaskHolds, TaskType
  <2> QED BY <2>2 DEF TaskHolds
<1>2. CASE TaskInside
  <2>q. Quiet => UNCHANGED <<live, receiver>>
    BY DEF Quiet
  <2>1. ASSUME NEW ch \in Channel, TaskFrame(ch) PROVE TaskHolds'
    <3>1. task'.ptr = table[ch] /\ task'.at = IF table[ch] # None THEN "found" ELSE "rx"
      BY <1>0, <2>1 DEF TaskFrame, TaskType
    <3>2. table[ch] # None => table[ch] \in live
      BY DEF TableHoldsLive
    <3> QED BY <2>1, <2>q, <3>1, <3>2 DEF TaskHolds, TaskFrame
  <2>2. CASE TaskGetReceiver
    <3>1. task'.ptr = task.ptr /\ task'.at = IF receiver[task.ptr] # None THEN "known" ELSE "rx"
      BY <1>0, <2>2 DEF TaskGetReceiver, Goto, TaskType
    <3> QED BY <2>2, <2>q, <3>1 DEF TaskHolds, TaskGetReceiver
  <2>3. CASE TaskCallReceiver
    <3>1. task'.ptr = task.ptr /\ task'.at = "callback" /\ task'.arg = receiverObj[task.ptr] /\ task.at = "known"
      BY <1>0, <2>3 DEF TaskCallReceiver, TaskType
    <3>2. task.ptr # None /\ task.ptr \in live /\ receiver[task.ptr] # None
      BY <3>1 DEF TaskHolds
    <3>3. ASSUME NEW p \in Thread, Setting(p) PROVE FALSE
      <4>1. Inside(p)
        BY <3>3, StatementsInside, Processes DEF Setting, Calls
      <4> QED BY <3>1, <4>1, NobodyElseInside
    <3>4. receiverObj[task.ptr] = task.ptr
      BY <3>2, <3>3 DEF ReceiversMatch
    <3> QED BY <2>3, <2>q, <3>1, <3>2, <3>4 DEF TaskHolds, TaskCallReceiver
  <2>4. CASE TaskReceiverReturns
    <3>1. task'.ptr = None /\ task'.at = "rx"
      BY <1>0, <2>4 DEF TaskReceiverReturns, TaskType
    <3> QED BY <3>1 DEF TaskHolds
  <2>5. CASE TaskScan
    <3>1. task'.ptr = None /\ task'.at = "scan"
      BY <1>0, <2>5 DEF TaskScan, TaskType
    <3> QED BY <3>1 DEF TaskHolds
  <2>6. CASE TaskGetChannel
    <3>1. CASE task.ch \in Channel /\ table[task.ch] # None
      <4>1. task'.ptr = table[task.ch] /\ task'.at = "look"
        BY <1>0, <2>6, <3>1 DEF TaskGetChannel, TaskType
      <4> QED BY <2>6, <2>q, <3>1, <4>1 DEF TaskHolds, TableHoldsLive, TaskGetChannel
    <3>2. CASE ~(task.ch \in Channel /\ table[task.ch] # None)
      <4>1. task'.ptr = task.ptr /\ task'.at = "scan"
        BY <1>0, <2>6, <3>2 DEF TaskGetChannel, TaskType
      <4> QED BY <2>6, <2>q, <4>1 DEF TaskHolds, TaskGetChannel
    <3> QED BY <3>1, <3>2
  <2>7. CASE TaskCount
    <3>1. task'.ptr = task.ptr /\ task'.at = "count" /\ task.at = "look"
      BY <1>0, <2>7 DEF TaskCount, TaskType
    <3> QED BY <2>7, <2>q, <3>1 DEF TaskHolds, TaskCount
  <2>10. CASE TaskMore
    <3>1. CASE task'.ptr = task.ptr /\ task'.at = "fill"
      BY <2>10, <2>q, <3>1 DEF TaskHolds, TaskMore
    <3>2. CASE task'.ptr = None /\ task'.at = "scan"
      BY <3>2 DEF TaskHolds
    <3>3. \/ task' = [task EXCEPT !.at = "scan", !.ch = @ + 1, !.ptr = None, !.left = 0]
          \/ \E left : task' = [task EXCEPT !.at = "fill", !.left = left]
      BY <2>10 DEF TaskMore
    <3> QED BY <1>0, <3>1, <3>2, <3>3 DEF TaskType
  <2>8. CASE TaskFill
    <3>1. task'.ptr = task.ptr /\ task'.at = "fill" /\ task.at = "fill"
      BY <1>0, <2>8 DEF TaskFill, TaskType
    <3> QED BY <2>8, <2>q, <3>1 DEF TaskHolds, TaskFill
  <2>9. CASE TaskLeave
    <3>1. task'.ptr = None /\ task'.at = "out"
      BY <1>0, <2>9 DEF TaskLeave, TaskType
    <3> QED BY <3>1 DEF TaskHolds
  <2> QED BY <1>2, <2>1, <2>2, <2>3, <2>4, <2>5, <2>6, <2>7, <2>8, <2>9, <2>10 DEF TaskInside
<1>3. CASE Destroy
  BY <1>3, <1>e DEF Destroy
<1>4. ASSUME NEW p \in Proc, BeginCall(p) PROVE TaskHolds'
  <2>1. Begun(p)
    BY <1>4, CallBegins
  <2> QED BY <2>1, <1>s DEF Begun, objects
<1>5. ASSUME NEW p \in Proc, CallStep(p) PROVE TaskHolds'
  <2>t. task' = task
    BY <1>5, CallStepShape
  <2>g. ASSUME NEW name \in {"open", "close", "setReceiver"}, NEW at, at # "enter", In(p, name, at)
        PROVE  task.at = "out"
    <3>1. p \in Thread /\ Inside(p)
      BY <2>g, ThreadSteps, StatementsInside DEF Calls
    <3> QED BY <3>1, NobodyElseInside
  <2>1. CASE UNCHANGED <<live, receiver>>
    BY <2>1, <2>t, <1>s
  <2>2. CASE task.at = "out"
    BY <2>2, <2>t, <1>e
  <2>3. UNCHANGED <<live, receiver>> \/ OpenCheck(p) \/ CloseDelete(p) \/ SetFunction(p)
    BY <1>5 DEF CallStep, Enter, OpenStore, CloseUnlink, SetObject, SendPush, SendReturn, Flush, Space, objects
  <2> QED BY <2>1, <2>2, <2>3, <2>g DEF OpenCheck, CloseDelete, SetFunction
<1>6. CASE UNCHANGED vars
  BY <1>6, <1>s DEF vars, objects
<1> QED BY <1>1, <1>2, <1>3, <1>4, <1>5, <1>6 DEF Next

-----------------------------------------------------------------------------
\* The table, the handles and the objects that live.

\* Whoever is in a call is on an object that lives.
LEMMA CallsUseLive ==
  ASSUME TypeOK, ReceiverCalls, TaskHolds, HandlesHoldLive, Gone, NEW p \in Proc, call[p] # Idle, call[p].name # "open"
  PROVE  call[p].obj \in live /\ call[p].obj # None
<1>0. call[p].obj \in Object /\ call[p].obj # None /\ number \in [Object -> Channel]
  BY CallObject, NullAssumption DEF TypeOK
<1>1. CASE p \in Thread
  <2>1. handle[p][number[call[p].obj]] = call[p].obj /\ number[call[p].obj] \in Channel
    BY <1>0, <1>1 DEF HandlesHoldLive
  <2>2. ~destroyed
    BY DEF Gone
  <2> QED BY <1>0, <1>1, <2>1, <2>2 DEF HandlesHoldLive
<1>2. CASE p = "task"
  BY <1>0, <1>2 DEF ReceiverCalls, TaskHolds
<1> QED BY <1>1, <1>2 DEF Proc

LEMMA LinksOfOthers ==
  ASSUME NEW p, Others(p), NEW q \in Thread, q # p
  PROVE  /\ Storing(q)' <=> Storing(q)
         /\ Deleting(q)' <=> Deleting(q)
         /\ call'[q] = call[q]
BY Processes DEF Others, Storing, Deleting, In

\* A step that neither links nor unlinks.
LEMMA TableKept ==
  ASSUME TableHoldsLive, HandlesHoldLive, UNCHANGED <<table, live, number, handle, destroyed>>,
         NEW p \in Proc, Others(p), ~Storing(p), ~Storing(p)', ~Deleting(p), ~Deleting(p)',
         p \in Thread /\ call'[p] # Idle /\ call'[p].name # "open" =>
           handle[p][number[call'[p].obj]] = call'[p].obj
  PROVE  TableHoldsLive' /\ HandlesHoldLive'
<1>1. \A q \in Thread : /\ Storing(q)' <=> Storing(q)
                        /\ Deleting(q)' <=> Deleting(q)
                        /\ Storing(q) \/ Deleting(q) => call'[q] = call[q]
  BY LinksOfOthers
<1>2. TableHoldsLive'
  BY <1>1 DEF TableHoldsLive
<1>3. ~destroyed' => \A q \in Thread, ch \in Channel : handle'[q][ch] # None =>
       /\ handle'[q][ch] \in live' /\ number'[handle'[q][ch]] = ch
       /\ table'[ch] = handle'[q][ch] \/ (Deleting(q)' /\ call'[q].obj = handle'[q][ch])
       /\ \A r \in Thread : handle'[r][ch] = handle'[q][ch] => r = q
  BY <1>1 DEF HandlesHoldLive
<1>4. \A q \in Thread : call'[q] # Idle /\ call'[q].name # "open" =>
        handle'[q][number'[call'[q].obj]] = call'[q].obj
  BY LinksOfOthers DEF HandlesHoldLive
<1> QED BY <1>2, <1>3, <1>4 DEF HandlesHoldLive, Idle

LEMMA TableUntouched ==
  ASSUME TableHoldsLive, HandlesHoldLive, UNCHANGED <<table, live, number, handle, destroyed, call>>
  PROVE  TableHoldsLive' /\ HandlesHoldLive'
BY DEF TableHoldsLive, HandlesHoldLive, Storing, Deleting, In, Idle

\* While p makes a step of a guarded call nobody else opens or closes.
LEMMA LinksAlone ==
  ASSUME Bracketed, TypeOK, Exclusion, NEW p \in Thread, Inside(p), NEW q \in Thread, q # p
  PROVE  ~Storing(q) /\ ~Deleting(q)
<1>1. ~Inside(q)
  BY OneInside
<1> QED BY <1>1, StatementsInside, Processes DEF Storing, Deleting, Calls

LEMMA LinksAloneAfter ==
  ASSUME Bracketed, TypeOK, Exclusion, NEW p \in Thread, Inside(p), Others(p)
  PROVE  \A q \in Thread : q # p =>
           ~Storing(q)' /\ ~Deleting(q)' /\ ~Storing(q) /\ ~Deleting(q) /\ call'[q] = call[q]
<1> SUFFICES ASSUME NEW q \in Thread, q # p
             PROVE  ~Storing(q)' /\ ~Deleting(q)' /\ ~Storing(q) /\ ~Deleting(q) /\ call'[q] = call[q]
  OBVIOUS
<1>1. ~Storing(q) /\ ~Deleting(q)
  BY LinksAlone
<1>2. (Storing(q)' <=> Storing(q)) /\ (Deleting(q)' <=> Deleting(q)) /\ call'[q] = call[q]
  BY Processes DEF Others, Storing, Deleting, In
<1> QED BY <1>1, <1>2

LEMMA OpenMakes ==
  ASSUME Bracketed, TypeOK, Exclusion, ReceiverCalls, TaskHolds, TableHoldsLive, HandlesHoldLive, Gone,
         NEW p \in Thread, In(p, "open", "run"), NEW o \in Object \ live,
         table[call[p].ch] = None, live' = live \cup {o}, number' = [number EXCEPT ![o] = call[p].ch],
         call' = [call EXCEPT ![p].at = "store", ![p].obj = o],
         UNCHANGED <<table, handle, destroyed>>
  PROVE  TableHoldsLive' /\ HandlesHoldLive'
<1>0. /\ p \in Proc /\ None \notin Object /\ number \in [Object -> Channel] /\ live \subseteq Object
      /\ table \in [Channel -> Object \cup {None}]
  BY Processes, NullAssumption DEF TypeOK
<1>1. /\ Others(p) /\ call'[p].name = "open" /\ call'[p].at = "store" /\ call'[p].obj = o
      /\ call'[p].ch = call[p].ch /\ call[p].ch \in Channel /\ call[p] # Idle
  BY <1>0, OpenMovesCall
<1>2. /\ number'[o] = call[p].ch /\ \A x \in Object : x # o => number'[x] = number[x]
  BY <1>0
<1>3. Inside(p) /\ ~destroyed
  BY <1>0, <1>1, StatementsInside DEF Calls, Gone
<1>4. \A q \in Thread : q # p => ~Storing(q)' /\ ~Deleting(q)' /\ ~Storing(q) /\ ~Deleting(q) /\ call'[q] = call[q]
  BY <1>1, <1>3, LinksAloneAfter
<1>5. Storing(p)' /\ ~Deleting(p)' /\ ~Storing(p) /\ ~Deleting(p)
  BY <1>1 DEF Storing, Deleting, In
<1>6. \A q \in Thread, ch \in Channel : handle[q][ch] # None => handle[q][ch] \in live /\ handle[q][ch] # o
  BY <1>3 DEF HandlesHoldLive
<1>7. TableHoldsLive'
  <2>1. ASSUME NEW ch \in Channel, table'[ch] # None PROVE table'[ch] \in live' /\ number'[table'[ch]] = ch
    BY <2>1, <1>0, <1>2 DEF TableHoldsLive
  <2>2. ASSUME NEW x \in live'
        PROVE  table'[number'[x]] = x \/ \E q \in Thread : (Storing(q)' \/ Deleting(q)') /\ call'[q].obj = x
    <3>1. CASE x = o
      BY <3>1, <1>1, <1>5
    <3>2. CASE x # o
      <4>1. table[number[x]] = x
        BY <2>2, <3>2, <1>4, <1>5 DEF TableHoldsLive
      <4> QED BY <4>1, <3>2, <2>2, <1>0, <1>2
    <3> QED BY <3>1, <3>2
  <2>3. ASSUME NEW q \in Thread, Storing(q)'
        PROVE  /\ call'[q].obj \in live' /\ number'[call'[q].obj] = call'[q].ch /\ table'[call'[q].ch] = None
               /\ \A r \in Thread, ch \in Channel : handle'[r][ch] # call'[q].obj
    <3>1. q = p
      BY <2>3, <1>4
    <3>2. \A r \in Thread, ch \in Channel : handle[r][ch] # o
      BY <1>0, <1>6
    <3>3. call'[q].obj = o /\ call'[q].ch = call[p].ch /\ o \in live' /\ handle' = handle /\ table' = table
      BY <3>1, <1>1
    <3>4. number'[o] = call[p].ch
      BY <1>2
    <3> QED BY <3>2, <3>3, <3>4
  <2>4. ASSUME NEW q \in Thread, Deleting(q)' PROVE FALSE
    BY <2>4, <1>4, <1>5
  <2> QED BY <2>1, <2>2, <2>3, <2>4 DEF TableHoldsLive
<1>8. \A q \in Thread, ch \in Channel : handle'[q][ch] # None =>
       /\ handle'[q][ch] \in live' /\ number'[handle'[q][ch]] = ch
       /\ table'[ch] = handle'[q][ch] \/ (Deleting(q)' /\ call'[q].obj = handle'[q][ch])
       /\ \A r \in Thread : handle'[r][ch] = handle'[q][ch] => r = q
  BY <1>0, <1>2, <1>3, <1>4, <1>5, <1>6 DEF HandlesHoldLive
<1>9. ASSUME NEW q \in Thread, call'[q] # Idle, call'[q].name # "open"
      PROVE  handle'[q][number'[call'[q].obj]] = call'[q].obj
  <2>1. q # p /\ call'[q] = call[q]
    BY <1>9, <1>1, <1>4
  <2>2. call[q].obj \in live /\ q \in Proc
    BY <2>1, <1>9, CallsUseLive, Processes
  <2>3. handle[q][number[call[q].obj]] = call[q].obj
    BY <2>1, <1>9 DEF HandlesHoldLive
  <2> QED BY <2>1, <2>2, <2>3, <1>0, <1>2
<1> QED BY <1>7, <1>8, <1>9 DEF HandlesHoldLive, Idle

LEMMA OpenLinks ==
  ASSUME Bracketed, TypeOK, Exclusion, ReceiverCalls, TableHoldsLive, HandlesHoldLive, Gone,
         NEW p \in Thread, OpenStore(p)
  PROVE  TableHoldsLive' /\ HandlesHoldLive'
<1> DEFINE o == call[p].obj
           c == call[p].ch
<1>0. /\ p \in Proc /\ None \notin Object /\ number \in [Object -> Channel] /\ live \subseteq Object
      /\ table \in [Channel -> Object \cup {None}] /\ handle \in [Thread -> [Channel -> Object \cup {None}]]
  BY Processes, NullAssumption DEF TypeOK
<1>1. In(p, "open", "store") /\ call[p] # Idle /\ c \in Channel
  BY <1>0, RunsAt, CallObject DEF OpenStore, Calls, In
<1>2. /\ table' = [table EXCEPT ![c] = o] /\ handle' = [handle EXCEPT ![p][c] = o]
      /\ live' = live /\ number' = number /\ destroyed' = destroyed
  BY DEF OpenStore, objects
<1>3. Others(p) /\ call'[p] = Idle
  BY <1>0, ReturnEndsCall DEF OpenStore
<1>4. Inside(p) /\ ~destroyed /\ Storing(p) /\ ~Deleting(p) /\ ~Storing(p)' /\ ~Deleting(p)'
  BY <1>0, <1>1, <1>3, StatementsInside DEF Calls, Gone, Storing, Deleting, In, Idle
<1>5. \A q \in Thread : q # p => ~Storing(q)' /\ ~Deleting(q)' /\ ~Storing(q) /\ ~Deleting(q) /\ call'[q] = call[q]
  BY <1>3, <1>4, LinksAloneAfter
<1>6. /\ o \in live /\ o \in Object /\ number[o] = c /\ table[c] = None
      /\ \A q \in Thread, ch \in Channel : handle[q][ch] # o
  BY <1>0, <1>4 DEF TableHoldsLive
<1> HIDE DEF o, c
<1>7. /\ table'[c] = o /\ \A ch \in Channel : ch # c => table'[ch] = table[ch]
      /\ handle'[p][c] = o
      /\ \A q \in Thread, ch \in Channel : q # p \/ ch # c => handle'[q][ch] = handle[q][ch]
  BY <1>0, <1>1, <1>2
<1>8. TableHoldsLive'
  <2>1. ASSUME NEW ch \in Channel, table'[ch] # None PROVE table'[ch] \in live' /\ number'[table'[ch]] = ch
    BY <2>1, <1>2, <1>6, <1>7 DEF TableHoldsLive
  <2>2. ASSUME NEW x \in live' PROVE table'[number'[x]] = x
    <3>1. CASE x = o
      BY <3>1, <1>2, <1>6, <1>7
    <3>2. CASE x # o
      <4>1. x \in Object /\ x # None /\ number[x] \in Channel
        BY <2>2, <1>0, <1>2
      <4>2. table[number[x]] = x
        BY <2>2, <3>2, <1>2, <1>4, <1>5 DEF TableHoldsLive, o
      <4> QED BY <4>1, <4>2, <1>2, <1>6, <1>7
    <3> QED BY <3>1, <3>2
  <2>3. \A q \in Thread : ~Storing(q)' /\ ~Deleting(q)'
    BY <1>4, <1>5
  <2> QED BY <2>1, <2>2, <2>3 DEF TableHoldsLive
<1>9. ASSUME NEW q \in Thread, NEW ch \in Channel, handle'[q][ch] # None
      PROVE  /\ handle'[q][ch] \in live' /\ number'[handle'[q][ch]] = ch
             /\ table'[ch] = handle'[q][ch] \/ (Deleting(q)' /\ call'[q].obj = handle'[q][ch])
             /\ \A r \in Thread : handle'[r][ch] = handle'[q][ch] => r = q
  <2>1. CASE q = p /\ ch = c
    BY <2>1, <1>2, <1>6, <1>7
  <2>2. CASE q # p \/ ch # c
    <3>1. handle'[q][ch] = handle[q][ch] /\ handle[q][ch] # None
      BY <2>2, <1>7, <1>9
    <3>2. /\ handle[q][ch] \in live /\ number[handle[q][ch]] = ch /\ table[ch] = handle[q][ch]
          /\ \A r \in Thread : handle[r][ch] = handle[q][ch] => r = q
      BY <3>1, <1>4, <1>5 DEF HandlesHoldLive
    <3>3. ch # c
      BY <3>1, <3>2, <1>6
    <3> QED BY <3>1, <3>2, <3>3, <1>2, <1>7
  <2> QED BY <2>1, <2>2
<1>10. ASSUME NEW q \in Thread, call'[q] # Idle, call'[q].name # "open"
       PROVE  handle'[q][number'[call'[q].obj]] = call'[q].obj
  <2>1. q # p /\ call'[q] = call[q]
    BY <1>3, <1>5, <1>10
  <2>2. handle[q][number[call[q].obj]] = call[q].obj
    BY <2>1, <1>10 DEF HandlesHoldLive
  <2>3. number[call[q].obj] \in Channel
    <3>1. q \in Proc
      BY Processes
    <3> QED BY <3>1, <1>0, <1>10, <2>1, CallObject
  <2> QED BY <2>1, <2>2, <2>3, <1>2, <1>7
<1> QED BY <1>8, <1>9, <1>10 DEF HandlesHoldLive, Idle

LEMMA CloseUnlinks ==
  ASSUME Bracketed, TypeOK, Exclusion, ReceiverCalls, TableHoldsLive, HandlesHoldLive, Gone,
         NEW p \in Thread, CloseUnlink(p)
  PROVE  TableHoldsLive' /\ HandlesHoldLive'
<1> DEFINE o == call[p].obj
           n == number[o]
<1>0. /\ p \in Proc /\ None \notin Object /\ number \in [Object -> Channel] /\ live \subseteq Object
      /\ table \in [Channel -> Object \cup {None}]
  BY Processes, NullAssumption DEF TypeOK
<1>1. /\ Others(p) /\ SameCall(p) /\ call[p].name = "close" /\ call[p].at = "run" /\ call'[p].at = "delete"
      /\ call[p] # Idle /\ call'[p] # Idle
  BY <1>0, UnlinkMovesCall
<1>2. table' = [table EXCEPT ![n] = None] /\ UNCHANGED <<live, number, handle, destroyed>>
  BY DEF CloseUnlink, objects, app
<1>3. o \in Object /\ n \in Channel /\ o # None /\ call'[p].obj = o /\ call'[p].name = "close"
  BY <1>0, <1>1, CallObject DEF SameCall
<1>4. In(p, "close", "run") /\ ~destroyed
  BY <1>0, <1>1 DEF In, Gone
<1>5. Inside(p)
  BY <1>0, <1>4, StatementsInside DEF Calls
<1>6. \A q \in Thread : q # p => ~Storing(q)' /\ ~Deleting(q)' /\ ~Storing(q) /\ ~Deleting(q) /\ call'[q] = call[q]
  BY <1>1, <1>5, LinksAloneAfter
<1>7. ~Storing(p) /\ ~Deleting(p) /\ ~Storing(p)' /\ Deleting(p)'
  BY <1>1, <1>3 DEF Storing, Deleting, In
<1>8. handle[p][n] = o
  BY <1>1 DEF HandlesHoldLive
<1>9. o \in live /\ table[n] = o /\ \A q \in Thread : handle[q][n] = o => q = p
  BY <1>3, <1>4, <1>7, <1>8 DEF HandlesHoldLive
<1> HIDE DEF n, o
<1>10. table'[n] = None /\ \A ch \in Channel : ch # n => table'[ch] = table[ch]
  BY <1>0, <1>2, <1>3
<1>11. TableHoldsLive'
  <2>1. ASSUME NEW ch \in Channel, table'[ch] # None PROVE table'[ch] \in live' /\ number'[table'[ch]] = ch
    BY <2>1, <1>2, <1>10 DEF TableHoldsLive
  <2>2. ASSUME NEW x \in live'
        PROVE  table'[number'[x]] = x \/ \E q \in Thread : (Storing(q)' \/ Deleting(q)') /\ call'[q].obj = x
    <3>1. CASE x = o
      BY <3>1, <1>3, <1>7
    <3>2. CASE x # o
      <4>1. table[number[x]] = x /\ number[x] \in Channel
        BY <2>2, <1>0, <1>2, <1>6, <1>7 DEF TableHoldsLive
      <4> QED BY <4>1, <3>2, <1>2, <1>9, <1>10
    <3> QED BY <3>1, <3>2
  <2>3. \A q \in Thread : ~Storing(q)'
    BY <1>6, <1>7
  <2>4. ASSUME NEW q \in Thread, Deleting(q)' PROVE table'[number'[call'[q].obj]] = None
    <3>1. q = p
      BY <2>4, <1>6
    <3> QED BY <3>1, <1>2, <1>3, <1>10 DEF n
  <2> QED BY <2>1, <2>2, <2>3, <2>4 DEF TableHoldsLive
<1>12. ASSUME NEW q \in Thread, NEW ch \in Channel, handle'[q][ch] # None
       PROVE  /\ handle'[q][ch] \in live' /\ number'[handle'[q][ch]] = ch
              /\ table'[ch] = handle'[q][ch] \/ (Deleting(q)' /\ call'[q].obj = handle'[q][ch])
              /\ \A r \in Thread : handle'[r][ch] = handle'[q][ch] => r = q
  <2>1. /\ handle[q][ch] \in live /\ number[handle[q][ch]] = ch /\ table[ch] = handle[q][ch]
        /\ \A r \in Thread : handle[r][ch] = handle[q][ch] => r = q
    BY <1>12, <1>2, <1>4, <1>6, <1>7 DEF HandlesHoldLive
  <2>2. CASE ch = n
    <3>1. handle[q][ch] = o /\ q = p
      BY <2>1, <2>2, <1>9
    <3> QED BY <3>1, <2>1, <1>2, <1>3, <1>7
  <2>3. CASE ch # n
    BY <2>1, <2>3, <1>2, <1>10
  <2> QED BY <2>2, <2>3
<1>13. ASSUME NEW q \in Thread, call'[q] # Idle, call'[q].name # "open"
       PROVE  handle'[q][number'[call'[q].obj]] = call'[q].obj
  <2>1. CASE q = p
    BY <2>1, <1>2, <1>3, <1>8 DEF n
  <2>2. CASE q # p
    BY <2>2, <1>2, <1>6, <1>13 DEF HandlesHoldLive
  <2> QED BY <2>1, <2>2
<1> QED BY <1>11, <1>12, <1>13 DEF HandlesHoldLive, Idle

LEMMA CloseDeletes ==
  ASSUME Bracketed, TypeOK, Exclusion, ReceiverCalls, TableHoldsLive, HandlesHoldLive, Gone,
         NEW p \in Thread, CloseDelete(p)
  PROVE  TableHoldsLive' /\ HandlesHoldLive'
<1> DEFINE o == call[p].obj
           n == number[o]
<1>0. /\ p \in Proc /\ None \notin Object /\ number \in [Object -> Channel] /\ live \subseteq Object
      /\ handle \in [Thread -> [Channel -> Object \cup {None}]]
  BY Processes, NullAssumption DEF TypeOK
<1>1. In(p, "close", "delete") /\ call[p] # Idle /\ o \in Object /\ n \in Channel /\ o # None /\ call[p].name = "close"
  BY <1>0, RunsAt, CallObject DEF CloseDelete, Calls, In
<1>2. /\ live' = live \ {o} /\ handle' = [handle EXCEPT ![p][n] = None]
      /\ UNCHANGED <<table, number, destroyed>>
  BY DEF CloseDelete
<1>3. Others(p) /\ call'[p] = Idle
  BY <1>0, ReturnEndsCall DEF CloseDelete
<1>4. Inside(p) /\ ~destroyed /\ ~Storing(p) /\ Deleting(p) /\ ~Storing(p)' /\ ~Deleting(p)'
  BY <1>0, <1>1, <1>3, StatementsInside DEF Calls, Gone, Storing, Deleting, In, Idle
<1>5. \A q \in Thread : q # p => ~Storing(q)' /\ ~Deleting(q)' /\ ~Storing(q) /\ ~Deleting(q) /\ call'[q] = call[q]
  BY <1>3, <1>4, LinksAloneAfter
<1>6. table[n] = None
  BY <1>4 DEF TableHoldsLive
<1>7. handle[p][n] = o
  BY <1>1 DEF HandlesHoldLive
<1>8. \A q \in Thread : handle[q][n] = o => q = p
  BY <1>1, <1>4, <1>7 DEF HandlesHoldLive
<1>9. /\ handle'[p][n] = None
      /\ \A q \in Thread, ch \in Channel : q # p \/ ch # n => handle'[q][ch] = handle[q][ch]
  BY <1>0, <1>1, <1>2
<1> HIDE DEF n
<1>10. \A q \in Thread : ~Storing(q)' /\ ~Deleting(q)'
  BY <1>4, <1>5
<1>11. TableHoldsLive'
  <2>1. ASSUME NEW ch \in Channel, table'[ch] # None PROVE table'[ch] \in live' /\ number'[table'[ch]] = ch
    <3>1. table[ch] \in live /\ number[table[ch]] = ch
      BY <2>1, <1>2 DEF TableHoldsLive
    <3>2. table[ch] # o
      BY <3>1, <2>1, <1>2, <1>6 DEF n
    <3> QED BY <3>1, <3>2, <1>2
  <2>2. ASSUME NEW x \in live' PROVE table'[number'[x]] = x
    <3>1. x # o /\ x \in live
      BY <2>2, <1>2
    <3> QED BY <3>1, <1>2, <1>5 DEF TableHoldsLive
  <2> QED BY <2>1, <2>2, <1>10 DEF TableHoldsLive
<1>12. ASSUME NEW q \in Thread, NEW ch \in Channel, handle'[q][ch] # None
       PROVE  /\ handle'[q][ch] \in live' /\ number'[handle'[q][ch]] = ch
              /\ table'[ch] = handle'[q][ch] \/ (Deleting(q)' /\ call'[q].obj = handle'[q][ch])
              /\ \A r \in Thread : handle'[r][ch] = handle'[q][ch] => r = q
  <2>1. (q # p \/ ch # n) /\ handle'[q][ch] = handle[q][ch] /\ handle[q][ch] # None
    BY <1>9, <1>12
  <2>2. /\ handle[q][ch] \in live /\ number[handle[q][ch]] = ch
        /\ table[ch] = handle[q][ch] \/ (Deleting(q) /\ o = handle[q][ch])
        /\ \A r \in Thread : handle[r][ch] = handle[q][ch] => r = q
    BY <2>1, <1>4, <1>5 DEF HandlesHoldLive
  <2>3. handle[q][ch] # o
    BY <2>1, <2>2, <1>8 DEF n
  <2>4. table[ch] = handle[q][ch] /\ handle[q][ch] \in live'
    BY <2>2, <2>3, <1>2
  <2>5. ASSUME NEW r \in Thread, handle'[r][ch] = handle'[q][ch] PROVE r = q
    <3>1. handle'[r][ch] = handle[r][ch]
      BY <2>1, <2>5, <1>9
    <3> QED BY <3>1, <2>1, <2>2, <2>5
  <2> QED BY <2>1, <2>2, <2>4, <2>5, <1>2
<1>13. ASSUME NEW q \in Thread, call'[q] # Idle, call'[q].name # "open"
       PROVE  handle'[q][number'[call'[q].obj]] = call'[q].obj
  <2>1. q # p /\ call'[q] = call[q] /\ q \in Proc
    BY <1>3, <1>5, <1>13, Processes
  <2>2. handle[q][number[call[q].obj]] = call[q].obj /\ number[call[q].obj] \in Channel
    BY <2>1, <1>0, <1>13, CallObject DEF HandlesHoldLive
  <2> QED BY <2>1, <2>2, <1>2, <1>9
<1> QED BY <1>11, <1>12, <1>13 DEF HandlesHoldLive, Idle

LEMMA GonePreserved ==
  ASSUME TypeOK, TaskHolds, TableHoldsLive, HandlesHoldLive, Gone, ReceiverCalls, [Next]_vars
  PROVE  Gone'
<1>1. CASE destroyed
  <2>1. task.at = "out" /\ (\A p \in Proc : call[p] = Idle) /\ live = {}
    BY <1>1 DEF Gone
  <2>2. ~TaskEnter /\ ~TaskInside /\ ~Destroy
    BY <1>1, <2>1 DEF TaskEnter, TaskInside, TaskFrame, TaskGetReceiver, TaskCallReceiver, TaskReceiverReturns,
                      TaskScan, TaskGetChannel, TaskCount, TaskMore, TaskFill, TaskLeave, Destroy
  <2>3. \A p \in Proc : ~BeginCall(p)
    BY <1>1, CallBegins DEF Begun
  <2>4. \A p \in Proc : ~CallStep(p)
    BY <2>1, CallStepShape
  <2>5. UNCHANGED vars
    BY <2>2, <2>3, <2>4 DEF Next
  <2> QED BY <1>1, <2>5 DEF Gone, vars, objects, Idle
<1>2. CASE Destroy
  <2>1. \A p \in Thread : ~Storing(p) /\ ~Deleting(p)
    BY <1>2, Processes DEF Destroy, Storing, Deleting, In, Idle
  <2>2. ASSUME NEW o \in live PROVE o \in {table[ch] : ch \in Channel}
    <3>1. table[number[o]] = o /\ number[o] \in Channel
      BY <2>1, <2>2 DEF TableHoldsLive, TypeOK
    <3> QED BY <3>1
  <2>3. live' = {} /\ UNCHANGED <<task, call>>
    BY <1>2, <2>2 DEF Destroy
  <2> QED BY <1>2, <2>3 DEF Destroy, Gone, Idle
<1>3. CASE ~destroyed /\ ~Destroy
  <2>1. ASSUME NEW p \in Proc, BeginCall(p) PROVE destroyed' = destroyed
    BY <2>1, CallBegins DEF Begun
  <2>2. ASSUME NEW p \in Proc, CallStep(p) PROVE destroyed' = destroyed
    BY <2>2, CallStepShape
  <2>3. TaskEnter \/ TaskInside => destroyed' = destroyed
    BY DEF TaskEnter, TaskInside, TaskFrame, TaskGetReceiver, TaskCallReceiver, TaskReceiverReturns,
           TaskScan, TaskGetChannel, TaskCount, TaskMore, TaskFill, TaskLeave, Quiet
  <2>4. destroyed' = destroyed
    BY <1>3, <2>1, <2>2, <2>3 DEF Next, vars
  <2> QED BY <1>3, <2>4 DEF Gone
<1> QED BY <1>1, <1>2, <1>3

LEMMA TablePreserved ==
  ASSUME Bracketed, TypeOK, Exclusion, ReceiverCalls, TaskHolds, TableHoldsLive, HandlesHoldLive, Gone, [Next]_vars
  PROVE  TableHoldsLive' /\ HandlesHoldLive'
<1>1. CASE TaskEnter \/ TaskInside
  <2>1. UNCHANGED <<table, live, number, handle, destroyed, call>>
    BY <1>1 DEF TaskEnter, TaskInside, TaskFrame, TaskGetReceiver, TaskCallReceiver, TaskReceiverReturns,
                TaskScan, TaskGetChannel, TaskCount, TaskMore, TaskFill, TaskLeave, Quiet, app
  <2> QED BY <2>1, TableUntouched
<1>2. CASE Destroy
  <2>1. \A p \in Proc : call'[p] = Idle
    BY <1>2 DEF Destroy
  <2>2. \A p \in Thread : ~Storing(p)' /\ ~Deleting(p)'
    BY <2>1, Processes DEF Storing, Deleting, In, Idle
  <2>3. live' = {}
    BY <1>2, GonePreserved DEF Gone, Destroy
  <2>4. table' = [ch \in Channel |-> None] /\ destroyed'
    BY <1>2 DEF Destroy
  <2>5. TableHoldsLive'
    BY <2>2, <2>3, <2>4 DEF TableHoldsLive
  <2>6. \A q \in Thread : call'[q] = Idle
    BY <2>1, Processes
  <2> QED BY <2>4, <2>5, <2>6 DEF HandlesHoldLive, Idle
<1>3. ASSUME NEW p \in Proc, BeginCall(p) PROVE TableHoldsLive' /\ HandlesHoldLive'
  <2>1. Begun(p)
    BY <1>3, CallBegins
  <2>2. Others(p) /\ UNCHANGED <<table, live, number, handle, destroyed>> /\ ~destroyed /\ call[p] = Idle
    BY <2>1 DEF Begun, objects
  <2>3. ~Storing(p) /\ ~Deleting(p) /\ ~Storing(p)' /\ ~Deleting(p)'
    BY <2>1, FirstStepType DEF Begun, Storing, Deleting, In, Idle
  <2>4. ASSUME p \in Thread, call'[p] # Idle, call'[p].name # "open"
        PROVE  handle[p][number[call'[p].obj]] = call'[p].obj
    <3>1. call'[p].obj \in Usable(p) \ {None}
      BY <2>1, <2>4 DEF Begun
    <3>2. PICK ch \in Channel : call'[p].obj = handle[p][ch] /\ handle[p][ch] # None
      BY <2>4, <3>1, Processes DEF Usable
    <3>3. number[handle[p][ch]] = ch
      BY <2>2, <2>4, <3>2 DEF HandlesHoldLive
    <3> QED BY <3>2, <3>3
  <2> QED BY <2>2, <2>3, <2>4, TableKept
<1>4. ASSUME NEW p \in Proc, CallStep(p) PROVE TableHoldsLive' /\ HandlesHoldLive'
  <2>0. /\ Others(p) /\ call[p] # Idle /\ destroyed' = destroyed
        /\ \/ call'[p] = Idle
           \/ /\ call'[p] # Idle /\ call'[p].name = call[p].name /\ call'[p].at # "enter"
              /\ call[p].name # "open" => SameCall(p)
    BY <1>4, CallStepShape
  <2>k. ASSUME UNCHANGED <<table, live, number, handle>>, ~Storing(p), ~Deleting(p), ~Storing(p)', ~Deleting(p)'
        PROVE  TableHoldsLive' /\ HandlesHoldLive'
    <3>1. p \in Thread /\ call'[p] # Idle /\ call'[p].name # "open" =>
            handle[p][number[call'[p].obj]] = call'[p].obj
      BY <2>0 DEF HandlesHoldLive, SameCall
    <3> QED BY <2>0, <2>k, <3>1, TableKept
  <2>n. ASSUME call[p].at \in {"enter", "run", "object"}, call'[p] = Idle \/ call'[p].at \in {"run", "object"}
        PROVE  ~Storing(p) /\ ~Deleting(p) /\ ~Storing(p)' /\ ~Deleting(p)'
    BY <2>n DEF Storing, Deleting, In, Idle
  <2>r. ASSUME NEW name \in Calls, NEW at, In(p, name, at), Return(p)
        PROVE  call'[p] = Idle /\ call[p].at = at
    BY <2>r, ReturnEndsCall DEF In
  <2>1. CASE Enter(p)
    BY <2>1, <2>k, <2>n, EnterMovesCall DEF Enter, objects, app
  <2>2. CASE OpenCheck(p)
    <3>1. In(p, "open", "run") /\ p \in Thread /\ UNCHANGED <<table, handle, destroyed>>
      BY <2>2, ThreadSteps DEF OpenCheck, Calls
    <3>2. CASE Return(p) /\ UNCHANGED <<objects, space>>
      BY <3>1, <3>2, <2>k, <2>n, <2>r DEF objects, Calls
    <3>3. CASE ~(Return(p) /\ UNCHANGED <<objects, space>>)
      <4>1. PICK o \in Object \ live :
              /\ table[call[p].ch] = None /\ live' = live \cup {o} /\ number' = [number EXCEPT ![o] = call[p].ch]
              /\ call' = [call EXCEPT ![p].at = "store", ![p].obj = o]
        BY <2>2, <3>3 DEF OpenCheck
      <4> QED BY <3>1, <4>1, OpenMakes
    <3> QED BY <3>2, <3>3
  <2>3. CASE OpenStore(p)
    <3>1. p \in Thread
      BY <2>3, ThreadSteps DEF OpenStore, Calls
    <3> QED BY <2>3, <3>1, OpenLinks
  <2>4. CASE CloseUnlink(p)
    <3>1. p \in Thread
      BY <2>4, ThreadSteps DEF CloseUnlink, Calls
    <3> QED BY <2>4, <3>1, CloseUnlinks
  <2>5. CASE CloseDelete(p)
    <3>1. p \in Thread
      BY <2>5, ThreadSteps DEF CloseDelete, Calls
    <3> QED BY <2>5, <3>1, CloseDeletes
  <2>6. CASE SetFunction(p)
    BY <2>6, <2>k, <2>n, SetMovesCall DEF SetFunction, app
  <2>7. CASE SetObject(p)
    BY <2>7, <2>k, <2>n, <2>r DEF SetObject, app, Calls
  <2>8. CASE SendPush(p)
    BY <2>8, <2>k, <2>n, PushMovesCall DEF SendPush
  <2>9. CASE SendReturn(p)
    BY <2>9, <2>k, <2>n, <2>r DEF SendReturn, app, Calls
  <2>10. CASE Flush(p)
    BY <2>10, <2>k, <2>n, <2>r DEF Flush, app, Calls
  <2>11. CASE Space(p)
    BY <2>11, <2>k, <2>n, <2>r DEF Space, objects, Calls
  <2> QED BY <1>4, <2>1, <2>2, <2>3, <2>4, <2>5, <2>6, <2>7, <2>8, <2>9, <2>10, <2>11 DEF CallStep
<1>5. CASE UNCHANGED vars
  BY <1>5, TableUntouched DEF vars, objects, app
<1> QED BY <1>1, <1>2, <1>3, <1>4, <1>5 DEF Next

-----------------------------------------------------------------------------
\* Receivers.

LEMMA ReceiversPreserved ==
  ASSUME Bracketed, TypeOK, Exclusion, ReceiverCalls, TaskHolds, TableHoldsLive, HandlesHoldLive, Gone,
         ReceiversMatch, [Next]_vars
  PROVE  ReceiversMatch'
<1>0. /\ receiver \in [Object -> Fn] /\ receiverObj \in [Object -> Object \cup {None}] /\ live \subseteq Object
      /\ None \notin Object
  BY NullAssumption DEF TypeOK
<1>s. ASSUME live' \subseteq live, UNCHANGED <<receiver, receiverObj>>, NEW p \in Proc, Others(p), ~Setting(p), ~Setting(p)'
      PROVE  ReceiversMatch'
  <2>1. \A q \in Thread : /\ Setting(q)' <=> Setting(q)
                          /\ Setting(q) => call'[q] = call[q]
    BY <1>s, Processes DEF Setting, In, Others
  <2> QED BY <1>s, <2>1 DEF ReceiversMatch
<1>u. ASSUME live' \subseteq live, UNCHANGED <<receiver, receiverObj, call>>
      PROVE  ReceiversMatch'
  BY <1>u DEF ReceiversMatch, Setting, In
<1>1. CASE TaskEnter \/ TaskInside
  <2>1. UNCHANGED <<live, receiver, receiverObj, call>>
    BY <1>1 DEF TaskEnter, TaskInside, TaskFrame, TaskGetReceiver, TaskCallReceiver, TaskReceiverReturns,
                TaskScan, TaskGetChannel, TaskCount, TaskMore, TaskFill, TaskLeave, Quiet
  <2> QED BY <2>1, <1>u
<1>2. CASE Destroy
  BY <1>2, <1>u DEF Destroy
<1>3. ASSUME NEW p \in Proc, BeginCall(p) PROVE ReceiversMatch'
  <2>1. Begun(p)
    BY <1>3, CallBegins
  <2>2. ~Setting(p) /\ ~Setting(p)'
    BY <2>1, FirstStepType DEF Begun, Setting, In, Idle
  <2> QED BY <2>1, <2>2, <1>s DEF Begun, objects
<1>4. ASSUME NEW p \in Proc, CallStep(p) PROVE ReceiversMatch'
  <2>0. Others(p) /\ call[p] # Idle
    BY <1>4, CallStepShape
  <2>n. ASSUME call[p].at \in {"enter", "run", "store", "delete"},
               call'[p] = Idle \/ call'[p].at \in {"run", "store", "delete"}
        PROVE  ~Setting(p) /\ ~Setting(p)'
    BY <2>n DEF Setting, In, Idle
  <2>r. ASSUME NEW name \in Calls, NEW at, In(p, name, at), Return(p)
        PROVE  call'[p] = Idle /\ call[p].at = at
    BY <2>r, ReturnEndsCall DEF In
  <2>g. ASSUME p \in Thread, Inside(p) PROVE \A q \in Thread : q # p => ~Setting(q) /\ ~Setting(q)'
    <3> SUFFICES ASSUME NEW q \in Thread, q # p PROVE ~Setting(q) /\ ~Setting(q)'
      OBVIOUS
    <3>1. ~Setting(q)
      <4>1. ~Inside(q)
        BY <2>g, OneInside
      <4> QED BY <4>1, StatementsInside, Processes DEF Setting, Calls
    <3>2. call'[q] = call[q]
      BY <2>0, Processes DEF Others
    <3> QED BY <3>1, <3>2 DEF Setting, In
  <2>1. CASE Enter(p)
    BY <2>0, <2>1, <2>n, <1>s, EnterMovesCall DEF Enter, objects
  <2>2. CASE OpenCheck(p)
    <3>1. In(p, "open", "run") /\ p \in Thread
      BY <2>2, ThreadSteps DEF OpenCheck, Calls
    <3>2. CASE Return(p) /\ UNCHANGED <<objects, space>>
      BY <2>0, <3>1, <3>2, <2>n, <2>r, <1>s DEF objects, Calls
    <3>3. CASE ~(Return(p) /\ UNCHANGED <<objects, space>>)
      <4>1. PICK o \in Object \ live :
              /\ live' = live \cup {o} /\ receiver' = [receiver EXCEPT ![o] = None]
              /\ receiverObj' = [receiverObj EXCEPT ![o] = None]
              /\ call' = [call EXCEPT ![p].at = "store", ![p].obj = o]
        BY <2>2, <3>3 DEF OpenCheck
      <4>2. receiver'[o] = None /\ \A x \in live : receiver'[x] = receiver[x] /\ receiverObj'[x] = receiverObj[x]
        BY <1>0, <4>1
      <4>3. call'[p].at = "store" /\ call[p].at = "run"
        BY <3>1, <4>1, OpenMovesCall, Processes DEF In
      <4>4. ~Setting(p) /\ ~Setting(p)'
        BY <2>n, <4>3
      <4>5. Inside(p)
        BY <3>1, StatementsInside, Processes DEF Calls
      <4>6. \A q \in Thread : ~Setting(q) /\ ~Setting(q)'
        BY <2>g, <3>1, <4>4, <4>5
      <4> QED BY <4>1, <4>2, <4>6 DEF ReceiversMatch
    <3> QED BY <3>2, <3>3
  <2>3. CASE OpenStore(p)
    BY <2>0, <2>3, <2>n, <2>r, <1>s DEF OpenStore, objects, Calls
  <2>4. CASE CloseUnlink(p)
    BY <2>0, <2>4, <2>n, <1>s, UnlinkMovesCall DEF CloseUnlink, objects
  <2>5. CASE CloseDelete(p)
    BY <2>0, <2>5, <2>n, <2>r, <1>s DEF CloseDelete, Calls
  <2>6. CASE SetFunction(p)
    <3>1. In(p, "setReceiver", "run") /\ p \in Thread /\ p \in Proc /\ Inside(p)
      BY <2>6, ThreadSteps, StatementsInside, Processes DEF SetFunction, Calls
    <3>2. /\ SameCall(p) /\ call'[p].at = "object" /\ call[p].name = "setReceiver" /\ call[p].at = "run"
          /\ call[p].obj \in Object
      BY <2>6, SetMovesCall, CallObject
    <3>3. Setting(p)' /\ ~Setting(p) /\ call'[p].obj = call[p].obj /\ call'[p].fn = call[p].fn
      BY <3>2 DEF Setting, In, SameCall
    <3>4. \A q \in Thread : q # p => ~Setting(q) /\ ~Setting(q)'
      BY <2>g, <3>1
    <3>5. /\ receiver' = [receiver EXCEPT ![call[p].obj] = call[p].fn] /\ live' = live
          /\ receiverObj' = receiverObj
      BY <2>6 DEF SetFunction
    <3>6. ASSUME NEW o \in live' PROVE receiver'[o] = None \/ receiverObj'[o] = o
                                         \/ \E q \in Thread : Setting(q)' /\ call'[q].obj = o
      <4>1. CASE o = call[p].obj
        BY <4>1, <3>1, <3>3
      <4>2. CASE o # call[p].obj
        <5>1. receiver[o] = None \/ receiverObj[o] = o
          BY <3>3, <3>4, <3>5, <3>6 DEF ReceiversMatch
        <5> QED BY <5>1, <4>2, <3>5, <3>6, <1>0
      <4> QED BY <4>1, <4>2
    <3>7. receiver'[call'[p].obj] = call'[p].fn
      BY <1>0, <3>2, <3>3, <3>5
    <3> QED BY <3>4, <3>6, <3>7 DEF ReceiversMatch
  <2>7. CASE SetObject(p)
    <3>1. In(p, "setReceiver", "object") /\ p \in Thread /\ p \in Proc /\ Inside(p) /\ Setting(p)
      BY <2>7, ThreadSteps, StatementsInside, Processes DEF SetObject, Calls, Setting
    <3>2. call[p].obj \in Object /\ call[p].obj # None /\ receiver[call[p].obj] = call[p].fn
      <4>1. call[p] # Idle /\ call[p].name = "setReceiver"
        BY <3>1, RunsAt DEF Calls
      <4>2. call[p].obj \in Object
        BY <3>1, <4>1, CallObject
      <4> QED BY <1>0, <3>1, <4>2 DEF ReceiversMatch
    <3>3. call'[p] = Idle
      BY <2>7, ReturnEndsCall DEF SetObject
    <3>4. \A q \in Thread : q # p => ~Setting(q) /\ ~Setting(q)'
      BY <2>g, <3>1
    <3>5. \A q \in Thread : ~Setting(q)'
      BY <3>3, <3>4 DEF Setting, In, Idle
    <3>6. /\ receiverObj' = [receiverObj EXCEPT ![call[p].obj] = IF call[p].fn = None THEN None ELSE call[p].obj]
          /\ live' = live /\ receiver' = receiver
      BY <2>7 DEF SetObject
    <3>7. ASSUME NEW o \in live' PROVE receiver'[o] = None \/ receiverObj'[o] = o
      <4>1. CASE o = call[p].obj
        BY <4>1, <1>0, <3>2, <3>6
      <4>2. CASE o # call[p].obj
        <5>1. receiver[o] = None \/ receiverObj[o] = o
          BY <3>4, <3>6, <3>7, <4>2 DEF ReceiversMatch
        <5> QED BY <5>1, <4>2, <3>6, <3>7, <1>0
      <4> QED BY <4>1, <4>2
    <3> QED BY <3>5, <3>7 DEF ReceiversMatch
  <2>8. CASE SendPush(p)
    BY <2>0, <2>8, <2>n, <1>s, PushMovesCall DEF SendPush
  <2>9. CASE SendReturn(p)
    BY <2>0, <2>9, <2>n, <2>r, <1>s DEF SendReturn, Calls
  <2>10. CASE Flush(p)
    BY <2>0, <2>10, <2>n, <2>r, <1>s DEF Flush, Calls
  <2>11. CASE Space(p)
    BY <2>0, <2>11, <2>n, <2>r, <1>s DEF Space, objects, Calls
  <2> QED BY <1>4, <2>1, <2>2, <2>3, <2>4, <2>5, <2>6, <2>7, <2>8, <2>9, <2>10, <2>11 DEF CallStep
<1>5. CASE UNCHANGED vars
  BY <1>5, <1>u DEF vars, objects
<1> QED BY <1>1, <1>2, <1>3, <1>4, <1>5 DEF Next

-----------------------------------------------------------------------------
\* The bytes of a send stay together.

LEMMA ContiguousEmpty == Contiguous(<<>>) /\ \A b : ~Has(<<>>, b)
BY DEF Contiguous, Has

LEMMA ContiguousAppend ==
  ASSUME NEW s \in Seq(Byte), NEW b \in Byte, Contiguous(s), ~Has(s, b) \/ EndsWith(s, b)
  PROVE  Contiguous(Append(s, b)) /\ EndsWith(Append(s, b), b)
<1> DEFINE t == Append(s, b)
           n == Len(s)
<1>1. n \in Nat /\ Len(t) = n + 1 /\ t[n + 1] = b /\ \A i \in 1 .. n : t[i] = s[i]
  BY PushedFifo
<1> HIDE DEF t, n
<1>2. ASSUME NEW k \in 1 .. n + 1, NEW i \in 1 .. k - 1, NEW j \in i .. k, t[i] = t[k] PROVE t[j] = t[k]
  <2>1. CASE k <= n
    <3>1. k \in 1 .. n /\ i \in 1 .. n /\ j \in 1 .. n
      BY <1>1, <2>1
    <3>2. s[i] = s[k]
      BY <1>1, <1>2, <3>1
    <3>3. s[j] = s[k]
      BY <3>1, <3>2 DEF Contiguous, n
    <3> QED BY <1>1, <3>1, <3>3
  <2>2. CASE k = n + 1
    <3>1. i \in 1 .. n /\ s[i] = b
      BY <1>1, <1>2, <2>2
    <3>2. n > 0 /\ s[n] = b
      BY <3>1 DEF Has, EndsWith, n
    <3>3. CASE j = n + 1
      BY <2>2, <3>3
    <3>4. CASE j # n + 1
      <4>1. j \in 1 .. n /\ j \in i .. n /\ n \in 1 .. n
        BY <1>1, <2>2, <3>1, <3>4
      <4>2. s[j] = s[n]
        <5>1. CASE i = n
          <6>1. j = n
            BY <1>1, <4>1, <5>1
          <6> QED BY <6>1
        <5>2. CASE i # n
          <6>1. i \in 1 .. n - 1
            BY <1>1, <3>1, <5>2
          <6> QED BY <3>1, <3>2, <4>1, <6>1 DEF Contiguous, n
        <5> QED BY <5>1, <5>2
      <4> QED BY <1>1, <2>2, <3>2, <4>1, <4>2
    <3> QED BY <3>3, <3>4
  <2>3. k <= n \/ k = n + 1
    BY <1>1
  <2> QED BY <2>1, <2>2, <2>3
<1>3. Contiguous(t)
  BY <1>1, <1>2 DEF Contiguous
<1>4. EndsWith(t, b)
  BY <1>1 DEF EndsWith
<1> QED BY <1>3, <1>4 DEF t

LEMMA HasAfterAppend ==
  ASSUME NEW s \in Seq(Byte), NEW b \in Byte, NEW c, c # b, ~Has(s, c)
  PROVE  ~Has(Append(s, b), c)
<1> DEFINE t == Append(s, b)
           n == Len(s)
<1>1. n \in Nat /\ Len(t) = n + 1 /\ t[n + 1] = b /\ \A i \in 1 .. n : t[i] = s[i]
  BY PushedFifo
<1>2. \A i \in 1 .. n : s[i] # c
  BY DEF Has
<1> HIDE DEF t, n
<1>3. \A i \in 1 .. n + 1 : t[i] # c
  BY <1>1, <1>2
<1>4. ~Has(t, c)
  BY <1>1, <1>3 DEF Has
<1> QED BY <1>4 DEF t

\* Taking out the oldest byte, or all of them, disturbs no send.
LEMMA ThinnerFifo ==
  ASSUME NEW s \in Seq(Byte), NEW t, t = s \/ t = <<>> \/ (s # <<>> /\ t = Tail(s)), Contiguous(s)
  PROVE  /\ Contiguous(t)
         /\ \A b : Has(t, b) => Has(s, b)
         /\ \A b : EndsWith(s, b) /\ Has(t, b) => EndsWith(t, b)
         /\ \A i \in 1 .. Len(t) : \E j \in 1 .. Len(s) : t[i] = s[j]
<1>1. CASE t = s
  BY <1>1
<1>2. CASE t = <<>>
  BY <1>2, ContiguousEmpty, EmptyFifo
<1>3. CASE s # <<>> /\ t = Tail(s)
  <2> DEFINE n == Len(s)
  <2>1. n \in Nat \ {0} /\ Len(t) = n - 1 /\ \A i \in 1 .. n - 1 : t[i] = s[i + 1]
    BY <1>3, PoppedFifo
  <2>2. \A i \in 1 .. n - 1 : i + 1 \in 1 .. n
    BY <2>1
  <2>3. \A i \in 1 .. Len(t) : \E j \in 1 .. Len(s) : t[i] = s[j]
    BY <2>1, <2>2
  <2>4. \A b : Has(t, b) => Has(s, b)
    BY <2>3 DEF Has
  <2>5. ASSUME NEW b, EndsWith(s, b), Has(t, b) PROVE EndsWith(t, b)
    <3>1. n - 1 > 0
      BY <2>1, <2>5 DEF Has
    <3>2. t[n - 1] = s[n] /\ s[n] = b
      BY <2>1, <2>5, <3>1 DEF EndsWith
    <3> QED BY <2>1, <3>1, <3>2 DEF EndsWith
  <2>6. ASSUME NEW k \in 1 .. n - 1, NEW i \in 1 .. k - 1, NEW j \in i .. k, t[i] = t[k] PROVE t[j] = t[k]
    <3>1. k + 1 \in 1 .. n /\ i + 1 \in 1 .. (k + 1) - 1 /\ j + 1 \in i + 1 .. k + 1
      BY <2>1
    <3>2. t[i] = s[i + 1] /\ t[k] = s[k + 1] /\ t[j] = s[j + 1]
      BY <2>1
    <3> QED BY <2>6, <3>1, <3>2 DEF Contiguous
  <2>7. Contiguous(t)
    BY <2>1, <2>6 DEF Contiguous
  <2> QED BY <2>3, <2>4, <2>5, <2>7
<1> QED BY <1>1, <1>2, <1>3

Thinner(s, t) == t = s \/ t = <<>> \/ (s # <<>> /\ t = Tail(s))
Sending(p) == call[p] # Idle /\ call[p].name = "send"

\* A step that neither begins a send nor pushes a byte.
LEMMA SendsKept ==
  ASSUME TypeOK, SendsInOrder, UNCHANGED sends, \A o \in Object : Thinner(fifo[o], fifo'[o]),
         \A p \in Proc : Sending(p)' => /\ Sending(p) /\ call'[p].id = call[p].id /\ call'[p].obj = call[p].obj
                                        /\ call[p].at = "run" => call'[p].at = "run"
  PROVE  SendsInOrder'
<1>0. \A o \in Object : fifo[o] \in Seq(Byte)
  BY DEF TypeOK
<1>1. \A o \in Object : Contiguous(fifo[o])
  BY DEF SendsInOrder
<1>2. ASSUME NEW o \in Object
      PROVE  /\ Contiguous(fifo'[o])
             /\ \A b : Has(fifo'[o], b) => Has(fifo[o], b)
             /\ \A b : EndsWith(fifo[o], b) /\ Has(fifo'[o], b) => EndsWith(fifo'[o], b)
             /\ \A i \in 1 .. Len(fifo'[o]) : \E j \in 1 .. Len(fifo[o]) : fifo'[o][i] = fifo[o][j]
  <2> DEFINE s == fifo[o]
             t == fifo'[o]
  <2>1. s \in Seq(Byte) /\ Contiguous(s) /\ (t = s \/ t = <<>> \/ (s # <<>> /\ t = Tail(s)))
    BY <1>0, <1>1 DEF Thinner
  <2> HIDE DEF s, t
  <2>2. /\ Contiguous(t)
        /\ \A b : Has(t, b) => Has(s, b)
        /\ \A b : EndsWith(s, b) /\ Has(t, b) => EndsWith(t, b)
        /\ \A i \in 1 .. Len(t) : \E j \in 1 .. Len(s) : t[i] = s[j]
    BY <2>1, ThinnerFifo
  <2> QED BY <2>2 DEF s, t
<1>3. \A o \in Object : \A i \in 1 .. Len(fifo'[o]) : fifo'[o][i][2] <= sends'
  BY <1>2 DEF SendsInOrder
<1>4. \A p \in Proc : Sending(p)' => call'[p].id <= sends'
  BY DEF SendsInOrder, Sending
<1>5. ASSUME NEW p \in Proc, NEW o \in Object, Sending(p)'
      PROVE  \/ ~Has(fifo'[o], <<p, call'[p].id>>)
             \/ call'[p].at = "run" /\ o = call'[p].obj /\ EndsWith(fifo'[o], <<p, call'[p].id>>)
  <2>1. /\ Sending(p) /\ call'[p].id = call[p].id /\ call'[p].obj = call[p].obj
        /\ call[p].at = "run" => call'[p].at = "run"
    BY <1>5
  <2>2. \/ ~Has(fifo[o], <<p, call[p].id>>)
        \/ call[p].at = "run" /\ o = call[p].obj /\ EndsWith(fifo[o], <<p, call[p].id>>)
    BY <2>1 DEF SendsInOrder, Sending
  <2> QED BY <1>2, <2>1, <2>2
<1> QED BY <1>2, <1>3, <1>4, <1>5 DEF SendsInOrder, Sending, Idle, Contiguous, Has, EndsWith

LEMMA NotBothInside ==
  ASSUME Exclusion, ReceiverCalls, NEW p \in Proc, NEW q \in Proc, Inside(p), Inside(q)
  PROVE  p = q
<1>1. ASSUME NEW r \in Proc, Inside(r) PROVE owner = r
  <2>1. CASE r \in Thread
    BY <1>1, <2>1 DEF Exclusion
  <2>2. CASE r = "task"
    BY <1>1, <2>2 DEF Exclusion, ReceiverCalls, Inside
  <2> QED BY <2>1, <2>2 DEF Proc
<1> QED BY <1>1

LEMMA PushInOrder ==
  ASSUME Bracketed, TypeOK, Exclusion, ReceiverCalls, SendsInOrder, NEW p \in Proc, SendPush(p)
  PROVE  SendsInOrder'
<1> DEFINE o == call[p].obj
           b == <<p, call[p].id>>
<1>1. /\ Others(p) /\ SameCall(p) /\ call[p].name = "send" /\ call[p].at = "run" /\ call'[p].at = "run"
      /\ call[p] # Idle /\ call'[p] # Idle
  BY PushMovesCall
<1>2. o \in Object /\ call[p].id \in 1 .. MaxSends /\ call'[p].obj = o /\ call'[p].id = call[p].id
      /\ call'[p].name = "send"
  BY <1>1, CallObject DEF SameCall
<1>3. b \in Byte /\ b[2] = call[p].id
  BY <1>2 DEF Byte
<1>4. fifo \in [Object -> Seq(Byte)] /\ sends' = sends /\ fifo' = [fifo EXCEPT ![o] = Append(fifo[o], b)]
  BY DEF TypeOK, SendPush
<1> HIDE DEF o
<1>5. fifo'[o] = Append(fifo[o], b) /\ fifo[o] \in Seq(Byte) /\ \A x \in Object : x # o => fifo'[x] = fifo[x]
  BY <1>2, <1>4
<1>6. ~Has(fifo[o], b) \/ EndsWith(fifo[o], b)
  BY <1>1, <1>2 DEF SendsInOrder
<1>7. Contiguous(fifo[o])
  BY <1>2 DEF SendsInOrder
<1>8. call[p].id <= sends
  BY <1>1 DEF SendsInOrder
<1> HIDE DEF b
<1>9. Contiguous(fifo'[o]) /\ EndsWith(fifo'[o], b)
  BY <1>3, <1>5, <1>6, <1>7, ContiguousAppend
<1>10. \A x \in Object : Contiguous(fifo'[x])
  BY <1>5, <1>9 DEF SendsInOrder
<1>11. ASSUME NEW x \in Object, NEW i \in 1 .. Len(fifo'[x]) PROVE fifo'[x][i][2] <= sends'
  <2>1. CASE x # o
    BY <1>4, <1>5, <1>11, <2>1 DEF SendsInOrder
  <2>2. CASE x = o
    <3>1. /\ Len(fifo[o]) \in Nat /\ Len(fifo'[o]) = Len(fifo[o]) + 1 /\ fifo'[o][Len(fifo[o]) + 1] = b
          /\ \A j \in 1 .. Len(fifo[o]) : fifo'[o][j] = fifo[o][j]
      BY <1>3, <1>5, PushedFifo
    <3>2. i \in 1 .. Len(fifo[o]) \/ i = Len(fifo[o]) + 1
      BY <1>11, <2>2, <3>1
    <3>3. \A j \in 1 .. Len(fifo[o]) : fifo[o][j][2] <= sends
      BY <1>2 DEF SendsInOrder
    <3> QED BY <2>2, <3>1, <3>2, <3>3, <1>3, <1>4, <1>8
  <2> QED BY <2>1, <2>2
<1>12. ASSUME NEW q \in Proc, call'[q] # Idle, call'[q].name = "send" PROVE call'[q].id <= sends'
  <2>1. CASE q = p
    BY <2>1, <1>2, <1>4, <1>8
  <2>2. CASE q # p
    BY <2>2, <1>1, <1>4, <1>12 DEF Others, SendsInOrder
  <2> QED BY <2>1, <2>2
<1>13. ASSUME NEW q \in Proc, NEW x \in Object, call'[q] # Idle, call'[q].name = "send"
       PROVE  \/ ~Has(fifo'[x], <<q, call'[q].id>>)
              \/ call'[q].at = "run" /\ x = call'[q].obj /\ EndsWith(fifo'[x], <<q, call'[q].id>>)
  <2>1. CASE q = p
    <3>1. <<q, call'[q].id>> = b
      BY <2>1, <1>2 DEF b
    <3>2. CASE x = o
      BY <2>1, <3>1, <3>2, <1>1, <1>2, <1>9
    <3>3. CASE x # o
      <4>1. ~Has(fifo[x], b)
        BY <3>3, <1>1 DEF SendsInOrder, o, b
      <4> QED BY <3>1, <3>3, <4>1, <1>5
    <3> QED BY <3>2, <3>3
  <2>2. CASE q # p
    <3>1. call'[q] = call[q]
      BY <2>2, <1>1 DEF Others
    <3>2. ~(call[q].at = "run")
      <4>1. SUFFICES ASSUME call[q].at = "run" PROVE FALSE
        OBVIOUS
      <4>2. In(p, "send", "run") /\ In(q, "send", "run")
        BY <1>1, <1>13, <3>1, <4>1 DEF In
      <4>3. Inside(p) /\ Inside(q)
        BY <4>2, StatementsInside DEF Calls
      <4> QED BY <2>2, <4>3, NotBothInside
    <3>3. ~Has(fifo[x], <<q, call[q].id>>)
      BY <1>13, <3>1, <3>2 DEF SendsInOrder
    <3>4. CASE x = o
      <4>1. <<q, call[q].id>> # b
        BY <2>2 DEF b
      <4>2. ~Has(Append(fifo[o], b), <<q, call[q].id>>)
        BY <1>3, <1>5, <3>3, <3>4, <4>1, HasAfterAppend
      <4> QED BY <1>5, <3>1, <3>4, <4>2
    <3>5. CASE x # o
      BY <1>5, <3>1, <3>3, <3>5
    <3> QED BY <3>4, <3>5
  <2> QED BY <2>1, <2>2
<1> QED BY <1>10, <1>11, <1>12, <1>13 DEF SendsInOrder, Idle, Contiguous, Has, EndsWith

LEMMA BeginInOrder ==
  ASSUME TypeOK, SendsInOrder, NEW p \in Proc, Begun(p)
  PROVE  SendsInOrder'
<1>0. Others(p) /\ call'[p] # Idle /\ fifo' = fifo /\ sends \in Nat /\ \A o \in Object : fifo[o] \in Seq(Byte)
  BY NumberAssumption DEF Begun, objects, TypeOK
<1>1. CASE call'[p].name # "send"
  <2>1. sends' = sends
    BY <1>1 DEF Begun
  <2>2. \A q \in Proc : Sending(q)' => /\ Sending(q) /\ call'[q].id = call[q].id /\ call'[q].obj = call[q].obj
                                       /\ call[q].at = "run" => call'[q].at = "run"
    BY <1>0, <1>1 DEF Sending, Others, Idle
  <2>3. \A o \in Object : Thinner(fifo[o], fifo'[o])
    BY <1>0 DEF Thinner
  <2> QED BY <2>1, <2>2, <2>3, SendsKept
<1>2. CASE call'[p].name = "send"
  <2>1. sends' = sends + 1 /\ call'[p].id = sends + 1
    BY <1>2 DEF Begun
  <2>2. ASSUME NEW o \in Object, NEW i \in 1 .. Len(fifo[o])
        PROVE  fifo[o][i][2] <= sends /\ fifo[o][i][2] \in Nat
    <3>1. fifo[o][i] \in Byte
      BY <1>0, <2>2
    <3>2. fifo[o][i][2] \in Nat
      BY <3>1, NumberAssumption DEF Byte
    <3> QED BY <2>2, <3>2 DEF SendsInOrder
  <2>3. \A o \in Object : \A i \in 1 .. Len(fifo'[o]) : fifo'[o][i][2] <= sends'
    BY <1>0, <2>1, <2>2
  <2>4. \A o \in Object : ~Has(fifo'[o], <<p, call'[p].id>>)
    <3> SUFFICES ASSUME NEW o \in Object, NEW i \in 1 .. Len(fifo[o]), fifo[o][i] = <<p, sends + 1>> PROVE FALSE
      BY <1>0, <2>1 DEF Has
    <3>1. fifo[o][i][2] = sends + 1
      OBVIOUS
    <3> QED BY <1>0, <2>2, <3>1
  <2>5. \A q \in Proc : q # p => call'[q] = call[q]
    BY <1>0 DEF Others
  <2>6. ASSUME NEW q \in Proc, call'[q] # Idle, call'[q].name = "send" PROVE call'[q].id <= sends'
    <3>1. CASE q = p
      BY <1>0, <2>1, <3>1
    <3>2. CASE q # p
      <4>1. call[q].id <= sends /\ call[q].id \in 1 .. MaxSends
        BY <2>5, <2>6, <3>2, CallObject DEF SendsInOrder
      <4> QED BY <1>0, <2>1, <2>5, <3>2, <4>1, NumberAssumption
    <3> QED BY <3>1, <3>2
  <2>7. ASSUME NEW q \in Proc, NEW x \in Object, call'[q] # Idle, call'[q].name = "send"
        PROVE  \/ ~Has(fifo'[x], <<q, call'[q].id>>)
               \/ call'[q].at = "run" /\ x = call'[q].obj /\ EndsWith(fifo'[x], <<q, call'[q].id>>)
    <3>1. CASE q = p
      BY <2>4, <3>1
    <3>2. CASE q # p
      BY <1>0, <2>5, <2>7, <3>2 DEF SendsInOrder
    <3> QED BY <3>1, <3>2
  <2>8. \A o \in Object : Contiguous(fifo'[o])
    BY <1>0 DEF SendsInOrder
  <2> QED BY <2>3, <2>6, <2>7, <2>8 DEF SendsInOrder, Idle, Contiguous, Has, EndsWith
<1> QED BY <1>1, <1>2

LEMMA CallStepInOrder ==
  ASSUME Bracketed, TypeOK, Exclusion, ReceiverCalls, SendsInOrder, NEW p \in Proc, CallStep(p), ~SendPush(p)
  PROVE  SendsInOrder'
<1>1. /\ Others(p) /\ sends' = sends /\ call[p] # Idle
      /\ \/ call'[p] = Idle
         \/ /\ call'[p] # Idle /\ call'[p].name = call[p].name /\ call'[p].at # "enter"
            /\ call[p].name # "open" => SameCall(p)
  BY CallStepShape
<1>2. Sending(p)' => call[p].at = "enter" /\ call'[p].at = "run"
  <2> SUFFICES ASSUME Sending(p)' PROVE call[p].at = "enter" /\ call'[p].at = "run"
    OBVIOUS
  <2>1. call'[p] # Idle /\ call[p].name = "send"
    BY <1>1 DEF Sending, Idle
  <2>2. ~Return(p)
    BY <2>1, ReturnEndsCall
  <2>3. Enter(p)
    BY <2>1, <2>2 DEF CallStep, OpenCheck, OpenStore, CloseUnlink, CloseDelete, SetFunction, SetObject, SendReturn,
                      Flush, Space, In
  <2> QED BY <2>3, EnterMovesCall
<1>3. ASSUME NEW q \in Proc, Sending(q)'
      PROVE  /\ Sending(q) /\ call'[q].id = call[q].id /\ call'[q].obj = call[q].obj
             /\ call[q].at = "run" => call'[q].at = "run"
  <2>1. CASE q = p
    BY <1>1, <1>2, <1>3, <2>1 DEF Sending, SameCall, Idle
  <2>2. CASE q # p
    BY <1>1, <1>3, <2>2 DEF Sending, Others, Idle
  <2> QED BY <2>1, <2>2
<1>4. \A o \in Object : Thinner(fifo[o], fifo'[o])
  <2>0. fifo \in [Object -> Seq(Byte)]
    BY DEF TypeOK
  <2>1. CASE fifo' = fifo
    BY <2>1 DEF Thinner
  <2>2. CASE \E o : fifo' = [fifo EXCEPT ![o] = <<>>]
    BY <2>0, <2>2 DEF Thinner
  <2>3. fifo' = fifo \/ \E o : fifo' = [fifo EXCEPT ![o] = <<>>]
    BY DEF CallStep, Enter, OpenCheck, OpenStore, CloseUnlink, CloseDelete, SetFunction, SetObject, SendReturn,
           Flush, Space, objects
  <2> QED BY <2>1, <2>2, <2>3
<1> QED BY <1>1, <1>3, <1>4, SendsKept

LEMMA SendsPreserved ==
  ASSUME Bracketed, TypeOK, Exclusion, ReceiverCalls, SendsInOrder, [Next]_vars
  PROVE  SendsInOrder'
<1>s. ASSUME UNCHANGED <<call, sends>>, \A o \in Object : Thinner(fifo[o], fifo'[o]) PROVE SendsInOrder'
  BY <1>s, SendsKept DEF Sending, Idle
<1>1. CASE TaskEnter \/ TaskInside \/ Destroy
  <2>1. UNCHANGED <<call, sends>>
    BY <1>1 DEF TaskEnter, TaskInside, TaskFrame, TaskGetReceiver, TaskCallReceiver, TaskReceiverReturns,
                TaskScan, TaskGetChannel, TaskCount, TaskMore, TaskFill, TaskLeave, Quiet, app, Destroy
  <2>2. fifo \in [Object -> Seq(Byte)]
    BY DEF TypeOK
  <2>3. CASE fifo' = fifo
    BY <2>1, <2>3, <1>s DEF Thinner
  <2>4. CASE fifo' = [fifo EXCEPT ![task.ptr] = IF @ = <<>> THEN @ ELSE Tail(@)]
    <3>1. \A o \in Object : Thinner(fifo[o], fifo'[o])
      BY <2>2, <2>4 DEF Thinner
    <3> QED BY <2>1, <3>1, <1>s
  <2>5. fifo' = fifo \/ fifo' = [fifo EXCEPT ![task.ptr] = IF @ = <<>> THEN @ ELSE Tail(@)]
    BY <1>1 DEF TaskEnter, TaskInside, TaskFrame, TaskGetReceiver, TaskCallReceiver, TaskReceiverReturns,
                TaskScan, TaskGetChannel, TaskCount, TaskMore, TaskFill, TaskLeave, Destroy
  <2> QED BY <2>3, <2>4, <2>5
<1>2. ASSUME NEW p \in Proc, BeginCall(p) PROVE SendsInOrder'
  BY <1>2, CallBegins, BeginInOrder
<1>3. ASSUME NEW p \in Proc, CallStep(p) PROVE SendsInOrder'
  BY <1>3, PushInOrder, CallStepInOrder
<1>4. CASE UNCHANGED vars
  BY <1>4, <1>s DEF vars, objects, app, Thinner
<1> QED BY <1>1, <1>2, <1>3, <1>4 DEF Next

-----------------------------------------------------------------------------
\* Space that was promised, and bytes for the frame that is being filled.

LEMMA RoomPreserved ==
  ASSUME TypeOK, TaskHolds, RoomPromised, [Next]_vars
  PROVE  RoomPromised'
<1>0. /\ fifo \in [Object -> Seq(Byte)] /\ space \in [Object -> 0 .. Room] /\ Room \in Nat
      /\ \A o \in Object : Len(fifo[o]) \in Nat /\ space[o] \in Nat /\ space[o] <= Room - Len(fifo[o])
  BY SizeAssumption DEF TypeOK, RoomPromised, GetSpace
<1>s. ASSUME UNCHANGED <<fifo, space>> PROVE RoomPromised'
  BY <1>s DEF RoomPromised, GetSpace
<1>e. ASSUME space' = space, \E o : fifo' = [fifo EXCEPT ![o] = <<>>] PROVE RoomPromised'
  BY <1>0, <1>e, EmptyFifo DEF RoomPromised, GetSpace
<1>1. CASE TaskFill
  <2>1. UNCHANGED space /\ fifo' = [fifo EXCEPT ![task.ptr] = IF @ = <<>> THEN @ ELSE Tail(@)]
    BY <1>1 DEF TaskFill, Quiet, app
  <2>2. ASSUME NEW o \in Object PROVE Len(fifo'[o]) \in Nat /\ Len(fifo'[o]) <= Len(fifo[o])
    <3>1. CASE fifo'[o] = fifo[o]
      BY <1>0, <3>1
    <3>2. CASE fifo[o] # <<>> /\ fifo'[o] = Tail(fifo[o])
      <4>1. Len(fifo[o]) \in Nat \ {0} /\ Len(Tail(fifo[o])) = Len(fifo[o]) - 1
        BY <1>0, <3>2, PoppedFifo
      <4> QED BY <3>2, <4>1
    <3> QED BY <1>0, <2>1, <3>1, <3>2
  <2> QED BY <1>0, <2>1, <2>2 DEF RoomPromised, GetSpace
<1>2. ASSUME NEW p \in Proc, SendPush(p) PROVE RoomPromised'
  <2> DEFINE o == call[p].obj
             b == <<p, call[p].id>>
  <2>1. call[p] # Idle /\ call[p].name = "send"
    BY <1>2, RunsAt DEF SendPush, Calls
  <2>2. o \in Object /\ b \in Byte
    BY <2>1, CallObject DEF Byte
  <2>3. /\ Room - Len(fifo[o]) > 0 /\ fifo' = [fifo EXCEPT ![o] = Append(fifo[o], b)]
        /\ space' = [space EXCEPT ![o] = IF p = "task" THEN 0 ELSE Before(space[o])]
    BY <1>2 DEF SendPush, GetSpace
  <2> HIDE DEF o, b
  <2>4. /\ fifo'[o] = Append(fifo[o], b) /\ space'[o] = (IF p = "task" THEN 0 ELSE Before(space[o]))
        /\ \A x \in Object : x # o => fifo'[x] = fifo[x] /\ space'[x] = space[x]
    BY <1>0, <2>2, <2>3
  <2>5. Len(fifo'[o]) = Len(fifo[o]) + 1
    BY <1>0, <2>2, <2>4, PushedFifo
  <2>6. Len(fifo[o]) \in Nat /\ space[o] \in Nat /\ space[o] <= Room - Len(fifo[o])
    BY <1>0, <2>2
  <2>7. Before(space[o]) <= Room - (Len(fifo[o]) + 1) /\ 0 <= Room - (Len(fifo[o]) + 1)
    BY <1>0, <2>3, <2>6 DEF Before
  <2>8. space'[o] <= Room - Len(fifo'[o])
    BY <2>4, <2>5, <2>7
  <2>9. ASSUME NEW x \in Object PROVE space'[x] <= Room - Len(fifo'[x])
    <3>1. CASE x = o
      BY <2>8, <3>1
    <3>2. CASE x # o
      BY <1>0, <2>4, <3>2
    <3> QED BY <3>1, <3>2
  <2> QED BY <2>9 DEF RoomPromised, GetSpace
<1>3. ASSUME NEW p \in Proc, Space(p) PROVE RoomPromised'
  <2>1. fifo' = fifo /\ space' = [space EXCEPT ![call[p].obj] = Room - Len(fifo[call[p].obj])]
    BY <1>3 DEF Space, objects, TxBufferSpace, GetSpace
  <2>2. ASSUME NEW x \in Object PROVE space'[x] <= Room - Len(fifo'[x])
    <3>1. space'[x] = space[x] \/ space'[x] = Room - Len(fifo[x])
      BY <1>0, <2>1
    <3> QED BY <1>0, <2>1, <3>1
  <2> QED BY <2>2 DEF RoomPromised, GetSpace
<1>4. ASSUME NEW p \in Proc, OpenCheck(p) PROVE RoomPromised'
  <2>1. CASE UNCHANGED <<objects, space>>
    BY <2>1, <1>s DEF objects
  <2>2. CASE \E o \in Object : fifo' = [fifo EXCEPT ![o] = <<>>] /\ space' = [space EXCEPT ![o] = 0]
    <3>1. ASSUME NEW x \in Object PROVE space'[x] <= Room - Len(fifo'[x])
      <4>1. (space'[x] = space[x] /\ fifo'[x] = fifo[x]) \/ (space'[x] = 0 /\ fifo'[x] = <<>>)
        BY <1>0, <2>2
      <4> QED BY <1>0, <4>1, EmptyFifo
    <3> QED BY <3>1 DEF RoomPromised, GetSpace
  <2> QED BY <1>4, <2>1, <2>2 DEF OpenCheck
<1>5. ASSUME NEW p \in Proc, Flush(p) PROVE RoomPromised'
  BY <1>5, <1>e DEF Flush, app
<1>6. ASSUME NEW p \in Proc, CallStep(p) PROVE RoomPromised'
  BY <1>2, <1>3, <1>4, <1>5, <1>6, <1>s
     DEF CallStep, Enter, OpenStore, CloseUnlink, CloseDelete, SetFunction, SetObject, SendReturn, objects, app
<1>7. ASSUME NEW p \in Proc, BeginCall(p) PROVE RoomPromised'
  BY <1>7, <1>s, CallBegins DEF Begun, objects
<1>8. CASE TaskEnter \/ TaskInside \/ Destroy
  BY <1>1, <1>8, <1>s
     DEF TaskEnter, TaskInside, TaskFrame, TaskGetReceiver, TaskCallReceiver, TaskReceiverReturns,
         TaskScan, TaskGetChannel, TaskCount, TaskMore, TaskLeave, Quiet, app, Destroy
<1> QED BY <1>6, <1>7, <1>8, <1>s DEF Next, vars, objects, app

LEMMA FillPreserved ==
  ASSUME Bracketed, TypeOK, Exclusion, ReceiverCalls, TaskHolds, FramesHoldSentBytes, [Next]_vars
  PROVE  FramesHoldSentBytes'
<1>0. TaskType /\ fifo \in [Object -> Seq(Byte)] /\ FRAME_PAYLOAD \in Nat \ {0} /\ Room \in Nat
  BY TypeParts, SizeAssumption DEF ObjectTypes
<1>s. ASSUME UNCHANGED <<task, fifo>> PROVE FramesHoldSentBytes'
  BY <1>s DEF FramesHoldSentBytes
<1>a. ASSUME task'.at \notin {"count", "fill"} PROVE FramesHoldSentBytes'
  BY <1>a DEF FramesHoldSentBytes
<1>1. CASE TaskMore
  <2>1. fifo' = fifo /\ task.left \in 0 .. Room /\ task.left <= Len(fifo[task.ptr])
    BY <1>0, <1>1 DEF TaskMore, TaskType, FramesHoldSentBytes
  <2>2. Limited(task.left) <= task.left /\ Limited(task.left) \in Int
    BY <1>0, <2>1 DEF Limited
  <2>3. task.ptr \in Object
    BY <1>0, <1>1 DEF TaskMore, TaskHolds, TaskType
  <2>4. CASE task' = [task EXCEPT !.at = "fill", !.left = Limited(task.left)]
    <3>1. task'.ptr = task.ptr /\ task'.left = Limited(task.left)
      BY <1>0, <2>4 DEF TaskType
    <3>2. Len(fifo[task.ptr]) \in Nat
      BY <1>0, <2>3
    <3> QED BY <2>1, <2>2, <3>1, <3>2 DEF FramesHoldSentBytes
  <2>5. CASE task' = [task EXCEPT !.at = "scan", !.ch = @ + 1, !.ptr = None, !.left = 0]
    <3>1. task'.at = "scan"
      BY <1>0, <2>5 DEF TaskType
    <3> QED BY <3>1, <1>a
  <2> QED BY <1>1, <2>4, <2>5 DEF TaskMore
<1>8. CASE TaskCount
  <2>1. fifo' = fifo /\ task'.ptr = task.ptr /\ task'.left = Len(fifo[task.ptr])
    BY <1>0, <1>8 DEF TaskCount, TaskType
  <2>2. Len(fifo[task.ptr]) \in Nat
    <3>1. task.ptr \in Object
      BY <1>0, <1>8 DEF TaskCount, TaskHolds, TaskType
    <3> QED BY <1>0, <3>1
  <2> QED BY <2>1, <2>2 DEF FramesHoldSentBytes
<1>2. CASE TaskFill
  <2>1. task.ptr \in Object /\ task.left \in 0 .. Room /\ task.left > 0 /\ task.left <= Len(fifo[task.ptr])
    BY <1>0, <1>2 DEF TaskFill, TaskHolds, TaskType, FramesHoldSentBytes
  <2>2. fifo[task.ptr] \in Seq(Byte) /\ fifo[task.ptr] # <<>>
    BY <1>0, <2>1, EmptyFifo
  <2>3. Len(fifo[task.ptr]) \in Nat /\ Len(Tail(fifo[task.ptr])) = Len(fifo[task.ptr]) - 1
    BY <2>2, PoppedFifo
  <2>4. fifo'[task.ptr] = Tail(fifo[task.ptr])
    BY <1>0, <1>2, <2>1, <2>2 DEF TaskFill
  <2>5. task'.ptr = task.ptr /\ task'.left = task.left - 1
    BY <1>0, <1>2 DEF TaskFill, TaskType
  <2>6. task'.left <= Len(fifo'[task'.ptr])
    <3>1. Len(fifo'[task'.ptr]) = Len(fifo[task.ptr]) - 1
      BY <2>3, <2>4, <2>5
    <3>2. task.left \in Int
      BY <1>0, <2>1
    <3> QED BY <2>1, <2>3, <2>5, <3>1, <3>2
  <2> QED BY <2>6 DEF FramesHoldSentBytes
<1>3. CASE TaskEnter
  <2>1. task'.at = "rx"
    BY <1>0, <1>3 DEF TaskEnter, Goto, TaskType
  <2> QED BY <2>1, <1>a
<1>4. CASE TaskInside
  <2>1. ASSUME ~TaskCount, ~TaskMore, ~TaskFill PROVE task'.at \notin {"count", "fill"}
    <3>1. CASE TaskGetChannel
      <4>1. \/ task' = [task EXCEPT !.at = "look", !.ptr = table[task.ch]]
            \/ task' = [task EXCEPT !.ch = @ + 1] /\ task.at = "scan"
        BY <3>1 DEF TaskGetChannel
      <4> QED BY <1>0, <4>1 DEF TaskType
    <3>2. CASE TaskGetReceiver
      BY <1>0, <3>2 DEF TaskGetReceiver, Goto, TaskType
    <3>3. CASE ~TaskGetChannel /\ ~TaskGetReceiver
      BY <1>0, <1>4, <2>1, <3>3 DEF TaskInside, TaskFrame, TaskCallReceiver, TaskReceiverReturns, TaskScan,
                                    TaskLeave, TaskType
    <3> QED BY <3>1, <3>2, <3>3
  <2> QED BY <2>1, <1>1, <1>2, <1>8, <1>a
<1>5. CASE Destroy
  BY <1>5, <1>s DEF Destroy
<1>6. ASSUME NEW p \in Proc, BeginCall(p) PROVE FramesHoldSentBytes'
  BY <1>6, <1>s, CallBegins DEF Begun, objects
<1>7. ASSUME NEW p \in Proc, CallStep(p) PROVE FramesHoldSentBytes'
  <2>1. task' = task
    BY <1>7, CallStepShape
  <2>2. CASE task.at \notin {"count", "fill"}
    BY <2>1, <2>2, <1>a
  <2>3. CASE task.at \in {"count", "fill"}
    <3>1. p \in Thread /\ ~Inside(p)
      <4>1. p # "task"
        BY <1>7, <2>3, CallStepShape DEF ReceiverCalls
      <4> QED BY <2>3, <4>1, NobodyElseInside DEF Proc
    <3>2. ASSUME NEW name \in Calls, name # "space", NEW at, at # "enter", In(p, name, at) PROVE FALSE
      BY <3>1, <3>2, StatementsInside
    <3>3. ~OpenCheck(p) /\ ~SendPush(p) /\ ~Flush(p)
      BY <3>2 DEF OpenCheck, SendPush, Flush, Calls
    <3>4. fifo' = fifo
      BY <1>7, <3>3 DEF CallStep, Enter, OpenStore, CloseUnlink, CloseDelete, SetFunction, SetObject, SendReturn,
                        Space, objects
    <3> QED BY <2>1, <3>4, <1>s
  <2> QED BY <2>2, <2>3
<1> QED BY <1>3, <1>4, <1>5, <1>6, <1>7, <1>s DEF Next, vars, objects

-----------------------------------------------------------------------------

LEMMA ChannelsInvInit == Init => ChannelsInv
<1> SUFFICES ASSUME Init PROVE ChannelsInv
  OBVIOUS
<1>0. /\ \A p \in Proc : call[p] = Idle /\ ~Inside(p)
      /\ owner = None /\ depth = 0 /\ task.at = "out" /\ task.ptr = None /\ live = {} /\ destroyed = FALSE
      /\ sends = 0 /\ task.left = 0
      /\ \A o \in Object : fifo[o] = <<>> /\ space[o] = 0
  BY DEF Init, Inside
<1>1. TypeOK
  <2>1. ObjectTypes
    <3>1. number \in [Object -> Channel]
      BY DEF Init
    <3>2. fifo \in [Object -> Seq(Byte)] /\ \A o \in Object : Len(fifo[o]) <= Room
      BY EmptyFifo, SizeAssumption DEF Init
    <3> QED BY <3>1, <3>2 DEF Init, ObjectTypes, Fn
  <2>2. TaskType
    <3>1. 0 \in 0 .. Room
      BY SizeAssumption
    <3> QED BY <3>1 DEF Init, TaskType, TaskPlaces
  <2>6. AppTypes
    <3>1. 0 \in 0 .. Room /\ 0 \in 0 .. MaxSends /\ 0 \in 0 .. MaxFrames
      BY SizeAssumption, NumberAssumption
    <3>2. handle \in [Thread -> [Channel -> Object \cup {None}]]
      BY DEF Init
    <3> QED BY <3>1, <3>2 DEF Init, AppTypes
  <2>3. call \in [Proc -> CallState]
    BY FormsAreCalls DEF Init
  <2>4. owner \in Proc \cup {None} /\ depth \in 0 .. 2 /\ (owner = None <=> depth = 0)
    BY <1>0
  <2> QED BY <2>1, <2>2, <2>3, <2>4, <2>6, TypeParts
<1>2. Exclusion
  BY <1>0, Processes, NullAssumption DEF Exclusion
<1>3. ReceiverCalls /\ TaskHolds
  BY <1>0, Processes DEF ReceiverCalls, TaskHolds
<1>4. \A p \in Thread : ~Storing(p) /\ ~Deleting(p) /\ ~Setting(p)
  BY <1>0, Processes DEF Storing, Deleting, Setting, In, Idle
<1>5. TableHoldsLive /\ HandlesHoldLive
  <2>1. (\A ch \in Channel : table[ch] = None) /\ \A p \in Thread, ch \in Channel : handle[p][ch] = None
    BY DEF Init
  <2>2. \A p \in Thread : call[p] = Idle
    BY <1>0, Processes
  <2> QED BY <1>0, <1>4, <2>1, <2>2 DEF TableHoldsLive, HandlesHoldLive
<1>6. Gone /\ ReceiversMatch
  BY <1>0, <1>4 DEF Gone, ReceiversMatch
<1>7. SendsInOrder
  <2>1. \A o \in Object : Contiguous(fifo[o]) /\ (\A b : ~Has(fifo[o], b)) /\ Len(fifo[o]) = 0
    BY <1>0, ContiguousEmpty, EmptyFifo
  <2> QED BY <1>0, <2>1 DEF SendsInOrder
<1>8. RoomPromised /\ FramesHoldSentBytes
  BY <1>0, EmptyFifo, SizeAssumption DEF RoomPromised, GetSpace, FramesHoldSentBytes
<1> QED BY <1>1, <1>2, <1>3, <1>5, <1>6, <1>7, <1>8 DEF ChannelsInv

LEMMA ChannelsInvPreserved == Bracketed /\ ChannelsInv /\ [Next]_vars => ChannelsInv'
BY ExclusionPreserved, ReceiverCallsPreserved, TypePreserved, TaskHoldsPreserved, TablePreserved, GonePreserved,
   ReceiversPreserved, SendsPreserved, RoomPreserved, FillPreserved
   DEF ChannelsInv

\* Who is inside the critical section, which objects live and where they are held, what
\* task() has in hand and what the fifos hold, when open, close and setReceiver are
\* called inside the critical section.
THEOREM ChannelsInvariant == Bracketed => (Spec => []ChannelsInv)
<1> SUFFICES ASSUME Bracketed PROVE Spec => []ChannelsInv
  OBVIOUS
<1>1. ChannelsInv /\ [Next]_vars => ChannelsInv'
  BY ChannelsInvPreserved
<1> QED BY <1>1, ChannelsInvInit, PTL DEF Spec

\* The types of the channel table, the channels, the mutex and the calls; the mutex is
\* taken at most twice.
THEOREM ChannelsTypeOK == Bracketed => (Spec => []TypeOK)
<1>1. ChannelsInv => TypeOK
  BY DEF ChannelsInv
<1> QED BY <1>1, ChannelsInvariant, PTL

\* Neither task() nor a receiver nor a call follows a pointer to a channel that close or
\* the destructor has deleted.
THEOREM ChannelsOutliveTheirUse == Bracketed => (Spec => []NoUseAfterDelete)
<1>1. ChannelsInv => NoUseAfterDelete
  <2> SUFFICES ASSUME ChannelsInv PROVE NoUseAfterDelete
    OBVIOUS
  <2>1. TypeOK /\ ReceiverCalls /\ TaskHolds /\ TableHoldsLive /\ HandlesHoldLive /\ Gone
    BY DEF ChannelsInv
  <2>2. \A p \in Proc : call[p] # Idle /\ call[p].name # "open" => call[p].obj \in live
    BY <2>1, CallsUseLive
  <2>3. (task.ptr # None => task.ptr \in live) /\ (task.at = "callback" /\ task.arg # None => task.arg \in live)
    BY <2>1 DEF TaskHolds
  <2>4. \A ch \in Channel : table[ch] # None => table[ch] \in live
    BY <2>1 DEF TableHoldsLive
  <2> QED BY <2>2, <2>3, <2>4 DEF NoUseAfterDelete
<1> QED BY <1>1, ChannelsInvariant, PTL

\* A receiver set together with its channel as its object is called with that object.
THEOREM ReceiversGetTheirObjects == Bracketed => (Spec => []ReceiverGetsItsObject)
<1>1. ChannelsInv => ReceiverGetsItsObject
  BY DEF ChannelsInv, TaskHolds, ReceiverGetsItsObject
<1> QED BY <1>1, ChannelsInvariant, PTL

\* The destructor finds every channel object there is.
THEOREM DestructorFindsAll == Bracketed => (Spec => []NothingLeaks)
<1>1. ChannelsInv => NothingLeaks
  BY DEF ChannelsInv, Gone, NothingLeaks
<1> QED BY <1>1, ChannelsInvariant, PTL

\* What getTxBufferSpace has said can be sent, whoever else uses other channels.
THEOREM PromisedSpaceIsThere == Bracketed => (Spec => []SpaceCanBeSent)
<1>1. ChannelsInv => SpaceCanBeSent
  BY DEF ChannelsInv, RoomPromised, SpaceCanBeSent, TypeOK
<1> QED BY <1>1, ChannelsInvariant, PTL

\* The bytes of one send stay together in the fifo.
THEOREM SendsStayTogether == Bracketed => (Spec => []SendsDoNotMix)
<1>1. ChannelsInv => SendsDoNotMix
  BY DEF ChannelsInv, SendsInOrder, Contiguous, SendsDoNotMix, TypeOK
<1> QED BY <1>1, ChannelsInvariant, PTL

\* While a frame is filled the fifo has the bytes that were counted.
THEOREM FillingFindsItsBytes == Bracketed => (Spec => []FramesHoldSentBytes)
<1>1. ChannelsInv => FramesHoldSentBytes
  BY DEF ChannelsInv
<1> QED BY <1>1, ChannelsInvariant, PTL
-----------------------------------------------------------------------------
\* Whoever is inside can go on.  The guards of the steps stand for ENABLED.

\* A guard for each step of a call, in the order of CallStep.
CallMayGoOn(p) ==
  \/ call[p] # Idle /\ call[p].at = "enter" /\ MayEnter(p)
  \/ In(p, "open", "run") /\ (table[call[p].ch] # None \/ Object \ live # {})
  \/ In(p, "open", "store")
  \/ In(p, "close", "run") \/ In(p, "close", "delete")
  \/ In(p, "setReceiver", "run") \/ In(p, "setReceiver", "object")
  \/ In(p, "send", "run") /\ call[p].left > 0 /\ GetSpace(call[p].obj) > 0
  \/ In(p, "send", "run") /\ (call[p].left = 0 \/ GetSpace(call[p].obj) = 0)
  \/ In(p, "flush", "run") \/ In(p, "space", "run")

\* A guard for the steps of task(), from TaskScan on.
TaskMayGoOn ==
  \/ task.at \in {"rx", "found", "known", "scan", "look", "count"}
  \/ task.at = "fill" /\ (task.left > 0 \/ task.left = 0)
  \/ task.at = "callback" /\ call["task"] = Idle

\* HolderGoesOn, with the guards.
HolderMayGoOn ==
  /\ owner \in Thread => CallMayGoOn(owner)
  /\ owner = "task" => TaskMayGoOn \/ CallMayGoOn("task")

\* There is memory for an object for each channel number.
MemoryForAll ==
  IsFiniteSet(Object) /\ IsFiniteSet(Channel) /\ Cardinality(Channel) <= Cardinality(Object)

\* While a thread is in open and has found its place in the table empty, the objects that
\* live are in the other places, so there is memory for one more.
LEMMA RoomForOneMore ==
  ASSUME TypeOK, Exclusion, TableHoldsLive, MemoryForAll, Bracketed,
         NEW p \in Thread, In(p, "open", "run"), table[call[p].ch] = None
  PROVE  Object \ live # {}
<1>1. SUFFICES ASSUME Object \subseteq live PROVE FALSE
  OBVIOUS
<1>2. call[p] \in OpenCall /\ call[p].ch \in Channel
  <2>1. call[p] \in CallState /\ call[p].name = "open"
    BY Processes DEF TypeOK, In
  <2>2. call[p] \in OpenCall
    BY <2>1, CallForms
  <2> QED BY <2>2 DEF OpenCall
<1>3. Inside(p) /\ owner = p
  <2>1. Inside(p)
    BY Processes, StatementsInside DEF Calls
  <2> QED BY <2>1 DEF Exclusion
<1>4. \A q \in Thread : ~Storing(q) /\ ~Deleting(q)
  <2> SUFFICES ASSUME NEW q \in Thread, Storing(q) \/ Deleting(q) PROVE FALSE
    OBVIOUS
  <2>1. Inside(q)
    BY Processes, StatementsInside DEF Calls, Storing, Deleting
  <2>2. q = p
    BY <1>3, <2>1 DEF Exclusion
  <2> QED BY <2>2 DEF Storing, Deleting, In
<1>5. \A o \in Object : number[o] \in Channel \ {call[p].ch} /\ table[number[o]] = o
  <2> SUFFICES ASSUME NEW o \in Object PROVE number[o] \in Channel \ {call[p].ch} /\ table[number[o]] = o
    OBVIOUS
  <2>1. table[number[o]] = o
    BY <1>1, <1>4 DEF TableHoldsLive
  <2>2. number[o] \in Channel
    BY DEF TypeOK
  <2> QED BY <2>1, <2>2, NullAssumption
<1>6. number \in [Object -> Channel \ {call[p].ch}]
  BY <1>5 DEF TypeOK
<1>7. /\ IsFiniteSet(Channel \ {call[p].ch}) /\ Cardinality(Channel \ {call[p].ch}) = Cardinality(Channel) - 1
      /\ Cardinality(Channel) \in Nat /\ Cardinality(Object) \in Nat
  BY <1>2, FS_RemoveElement, FS_CardinalityType DEF MemoryForAll
<1>8. Cardinality(Channel \ {call[p].ch}) < Cardinality(Object)
  BY <1>7 DEF MemoryForAll
<1>9. \E x, y \in Object : x # y /\ number[x] = number[y]
  BY <1>6, <1>7, <1>8, FS_PigeonHole DEF MemoryForAll
<1> QED BY <1>5, <1>9

\* Past its entrance a call has a next statement: its names and places are those of steps.
LEMMA CallsGoOn ==
  ASSUME TypeOK, Exclusion, TableHoldsLive, MemoryForAll, Bracketed, ReceiverCalls,
         NEW p \in Proc, call[p] # Idle, call[p].at = "enter" => MayEnter(p)
  PROVE  CallMayGoOn(p)
<1>0. call[p] \in CallState
  BY DEF TypeOK
<1>1. call[p] \in OpenCall \/ call[p] \in CloseCall \/ call[p] \in SetCall \/ call[p] \in SendCall \/ call[p] \in ShortCall
  BY <1>0, CallForms
<1>2. CASE call[p].at = "enter"
  BY <1>2 DEF CallMayGoOn
<1>3. CASE call[p] \in OpenCall /\ call[p].at # "enter"
  <2>1. CASE call[p].at = "store"
    BY <1>3, <2>1 DEF OpenCall, CallMayGoOn, In
  <2>2. CASE call[p].at = "run"
    <3>1. In(p, "open", "run")
      BY <1>3, <2>2 DEF OpenCall, In
    <3>2. p \in Thread
      BY <3>1, ThreadSteps DEF Calls
    <3>3. table[call[p].ch] # None \/ Object \ live # {}
      BY <3>1, <3>2, RoomForOneMore
    <3> QED BY <3>1, <3>3 DEF CallMayGoOn
  <2> QED BY <1>3, <2>1, <2>2 DEF OpenCall
<1>4. CASE call[p] \in CloseCall /\ call[p].at # "enter"
  BY <1>4 DEF CloseCall, CallMayGoOn, In
<1>5. CASE call[p] \in SetCall /\ call[p].at # "enter"
  BY <1>5 DEF SetCall, CallMayGoOn, In
<1>6. CASE call[p] \in SendCall /\ call[p].at # "enter"
  <2>1. In(p, "send", "run") /\ call[p].left \in Nat /\ call[p].obj \in Object
    BY <1>6 DEF SendCall, In
  <2>2. GetSpace(call[p].obj) \in Nat
    <3>1. Len(fifo[call[p].obj]) <= Room /\ fifo[call[p].obj] \in Seq(Byte)
      BY <2>1 DEF TypeOK
    <3>2. Len(fifo[call[p].obj]) \in Nat
      BY <3>1, LenProperties
    <3> QED BY <3>1, <3>2, SizeAssumption DEF GetSpace
  <2>3. \/ call[p].left > 0 /\ GetSpace(call[p].obj) > 0
        \/ (call[p].left = 0 \/ GetSpace(call[p].obj) = 0)
    BY <2>1, <2>2
  <2> QED BY <2>1, <2>3 DEF CallMayGoOn
<1>7. CASE call[p] \in ShortCall /\ call[p].at # "enter"
  BY <1>7 DEF ShortCall, CallMayGoOn, In
<1> QED BY <1>1, <1>2, <1>3, <1>4, <1>5, <1>6, <1>7

\* Whoever is inside the critical section finds the guard of a next step true: a receiver
\* that sends does not wait for the mutex its own thread holds, no call stops between its
\* statements, and open finds memory when there is as much as channel numbers.  This is
\* HolderGoesOn with the guards of the steps in place of ENABLED.
THEOREM HolderNeverStuck == Bracketed /\ MemoryForAll => (Spec => []HolderMayGoOn)
<1> SUFFICES ASSUME Bracketed, MemoryForAll PROVE Spec => []HolderMayGoOn
  OBVIOUS
<1>1. ChannelsInv => HolderMayGoOn
  <2> SUFFICES ASSUME ChannelsInv PROVE HolderMayGoOn
    OBVIOUS
  <2>0. TypeOK /\ Exclusion /\ ReceiverCalls /\ TableHoldsLive
    BY DEF ChannelsInv
  <2>1. ASSUME owner \in Thread PROVE CallMayGoOn(owner)
    <3>1. Inside(owner)
      BY <2>0, <2>1 DEF Exclusion
    <3>2. owner \in Proc /\ call[owner] # Idle /\ call[owner].at # "enter"
      BY <2>1, <3>1, Processes DEF Inside
    <3> QED BY <2>0, <3>2, CallsGoOn
  <2>2. ASSUME owner = "task" PROVE TaskMayGoOn \/ CallMayGoOn("task")
    <3>1. task.at # "out" /\ TaskType
      BY <2>0, <2>2, TypeParts DEF Exclusion
    <3>2. CASE call["task"] = Idle
      BY <3>1, <3>2, SizeAssumption DEF TaskType, TaskPlaces, TaskMayGoOn
    <3>3. CASE call["task"] # Idle
      <4>1. MayEnter("task")
        BY <2>2 DEF MayEnter
      <4> QED BY <2>0, <3>3, <4>1, CallsGoOn, Processes
    <3> QED BY <3>2, <3>3
  <2> QED BY <2>1, <2>2 DEF HolderMayGoOn
<1> QED BY <1>1, ChannelsInvariant, PTL
=============================================================================

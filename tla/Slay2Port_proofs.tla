-------------------------- MODULE Slay2Port_proofs --------------------------
(***************************************************************************)
(* The port under task(), when the application calls init and shutdown     *)
(* inside the critical section: for every set of file numbers, both        *)
(* targets, and any number of inits and characters.                        *)
(***************************************************************************)
EXTENDS Slay2Port, TLAPS

Bracketed == Guarded = {"init", "shutdown"}

\* The mutex is held by whoever is inside.
Exclusion == (owner = "task" <=> task.at # "out") /\ (owner = "app" <=> app # "idle")

\* The number the driver keeps is that of its port, but between the two steps of
\* shutdown.
Kept ==
  /\ app = "open" => fileDesc = NoPort
  /\ app \in {"configure", "close", "mark"} => fileDesc # NoPort
  /\ fileDesc # NoPort /\ app # "mark" => file[fileDesc] = "port"

\* What waits in an open port has arrived since the last init began.
Fresh ==
  target = "Linux" /\ fileDesc # NoPort /\ app \notin {"open", "configure"} =>
    \A i \in 1 .. Len(input) : input[i] >= inits

PortInv == TypeOK /\ Exclusion /\ Kept /\ OnlyThePort /\ Fresh /\ NoStaleInput

-----------------------------------------------------------------------------

LEMMA NoPortIsNoNumber == NoPort \notin Number
BY NumberAssumption DEF NoPort

LEMMA NoInput == <<>> \in Seq(0 .. MaxInits) /\ Len(<<>>) = 0
OBVIOUS

LEMMA TailType ==
  ASSUME NEW S, NEW s \in Seq(S), s # <<>>
  PROVE  /\ Tail(s) \in Seq(S) /\ Len(s) \in Nat \ {0} /\ Len(Tail(s)) = Len(s) - 1
         /\ Head(s) = s[1] /\ Head(s) \in S
         /\ \A i \in 1 .. Len(s) - 1 : Tail(s)[i] = s[i + 1]
OBVIOUS

LEMMA InitHolds == Init => PortInv
<1> SUFFICES ASSUME Init PROVE PortInv
  OBVIOUS
<1>1. input \in Seq(0 .. MaxInits) /\ Len(input) <= MaxInput
  BY NoInput, BoundAssumption DEF Init
<1>2. file \in [Number -> {"nothing", "port", "other"}]
  BY DEF Init
<1>3. inits \in 0 .. MaxInits
  BY BoundAssumption DEF Init
<1>4. TypeOK
  BY <1>1, <1>2, <1>3 DEF Init, TypeOK
<1>5. Fresh /\ Kept /\ Exclusion /\ OnlyThePort /\ NoStaleInput
  BY DEF Init, Fresh, Kept, Exclusion, OnlyThePort, NoStaleInput
<1> QED BY <1>4, <1>5 DEF PortInv

LEMMA TypePreserved == TypeOK /\ [Next]_vars => TypeOK'
<1> SUFFICES ASSUME TypeOK, [Next]_vars PROVE TypeOK'
  OBVIOUS
<1> USE DEF TypeOK
<1>1. CASE InitBegin
  BY <1>1, BoundAssumption DEF InitBegin, Begin
<1>2. CASE InitFails
  BY <1>2 DEF InitFails, Return, OpenFailure
<1>3. CASE InitConfigures
  <2>1. input' \in Seq(0 .. MaxInits) /\ Len(input') <= MaxInput
    <3>1. CASE target = "Linux"
      BY <1>3, <3>1, NoInput, BoundAssumption DEF InitConfigures, LinuxConfigure
    <3>2. CASE target # "Linux"
      BY <1>3, <3>2 DEF InitConfigures, Win32Configure
    <3> QED BY <3>1, <3>2
  <2> QED BY <1>3, <2>1 DEF InitConfigures, Return
<1>4. CASE ShutdownBegin
  BY <1>4 DEF ShutdownBegin, Begin
<1>5. CASE ShutdownCloses
  BY <1>5 DEF ShutdownCloses, ClosePort
<1>6. CASE ShutdownMarks
  BY <1>6 DEF ShutdownMarks, Return
<1>7. CASE Destroy
  BY <1>7 DEF Destroy, ClosePort
<1>8. CASE TaskEnter
  BY <1>8 DEF TaskEnter, TaskLocks
<1>9. CASE TaskUses
  <2>1. input' \in Seq(0 .. MaxInits) /\ Len(input') <= MaxInput
    <3>1. CASE input' = Tail(input) /\ input # <<>>
      <4>1. Tail(input) \in Seq(0 .. MaxInits) /\ Len(Tail(input)) = Len(input) - 1 /\ Len(input) \in Nat
        BY <3>1, TailType
      <4>2. Len(Tail(input)) <= MaxInput
        BY <4>1, BoundAssumption
      <4> QED BY <3>1, <4>1, <4>2
    <3>2. CASE input' = input
      BY <3>2
    <3> QED BY <1>9, <3>1, <3>2 DEF TaskUses
  <2>2. stale' \in BOOLEAN
    BY <1>9 DEF TaskUses
  <2>3. reached' \in {"nothing", "port", "other"}
    BY <1>9 DEF TaskUses, OpenFile
  <2> QED BY <1>9, <2>1, <2>2, <2>3 DEF TaskUses
<1>10. CASE TaskLeave
  BY <1>10 DEF TaskLeave
<1>11. CASE Arrives
  <2>1. input' \in Seq(0 .. MaxInits) /\ Len(input') <= MaxInput
    BY <1>11, BoundAssumption DEF Arrives
  <2> QED BY <1>11, <2>1 DEF Arrives
<1>12. ASSUME NEW op \in Operation, TaskCalls(op) PROVE TypeOK'
  BY <1>12 DEF TaskCalls
<1>13. ASSUME NEW n \in Number, InitOpens(n) PROVE TypeOK'
  BY <1>13 DEF InitOpens
<1>14. ASSUME NEW n \in Number, OtherOpens(n) PROVE TypeOK'
  BY <1>14 DEF OtherOpens
<1>15. ASSUME NEW n \in Number, OtherCloses(n) PROVE TypeOK'
  BY <1>15 DEF OtherCloses
<1>16. CASE UNCHANGED vars
  BY <1>16 DEF vars
<1> QED BY <1>1, <1>2, <1>3, <1>4, <1>5, <1>6, <1>7, <1>8, <1>9, <1>10, <1>11, <1>12,
           <1>13, <1>14, <1>15, <1>16 DEF Next

LEMMA PlacesPreserved ==
  ASSUME Bracketed, TypeOK, Exclusion, Kept, [Next]_vars
  PROVE  Exclusion' /\ Kept'
<1> USE DEF Exclusion, Kept
<1>0. /\ NoPort \notin Number /\ file \in [Number -> {"nothing", "port", "other"}]
      /\ fileDesc \in Number \cup {NoPort}
  BY NoPortIsNoNumber DEF TypeOK
<1>e. Enters("init") /\ Enters("shutdown")
  BY DEF Bracketed, Enters
<1>1. CASE InitBegin
  BY <1>1, <1>e DEF InitBegin, Begin
<1>2. CASE InitFails
  BY <1>2 DEF InitFails, Return, OpenFailure
<1>3. CASE InitConfigures
  BY <1>3 DEF InitConfigures, Return
<1>4. CASE ShutdownBegin
  BY <1>4, <1>e DEF ShutdownBegin, Begin
<1>5. CASE ShutdownCloses
  BY <1>5 DEF ShutdownCloses
<1>6. CASE ShutdownMarks
  BY <1>6 DEF ShutdownMarks, Return
<1>7. CASE Destroy
  BY <1>7 DEF Destroy
<1>8. CASE TaskEnter
  BY <1>8 DEF TaskEnter, TaskLocks
<1>9. CASE TaskUses
  BY <1>9 DEF TaskUses
<1>10. CASE TaskLeave
  BY <1>10 DEF TaskLeave
<1>11. CASE Arrives
  BY <1>11 DEF Arrives
<1>12. ASSUME NEW op \in Operation, TaskCalls(op) PROVE Exclusion' /\ Kept'
  BY <1>12 DEF TaskCalls
<1>13. ASSUME NEW n \in Number, InitOpens(n) PROVE Exclusion' /\ Kept'
  BY <1>13, <1>0 DEF InitOpens
<1>14. ASSUME NEW n \in Number, OtherOpens(n) PROVE Exclusion' /\ Kept'
  BY <1>14, <1>0 DEF OtherOpens, Lowest, Free
<1>15. ASSUME NEW n \in Number, OtherCloses(n) PROVE Exclusion' /\ Kept'
  BY <1>15, <1>0 DEF OtherCloses
<1>16. CASE UNCHANGED vars
  BY <1>16 DEF vars
<1> QED BY <1>1, <1>2, <1>3, <1>4, <1>5, <1>6, <1>7, <1>8, <1>9, <1>10, <1>11, <1>12,
           <1>13, <1>14, <1>15, <1>16 DEF Next

\* While task() is inside, nobody is between the two steps of shutdown, or in init.
LEMMA TaskReachesPort ==
  ASSUME TypeOK, Exclusion, Kept, TaskUses
  PROVE  app = "idle" /\ OpenFile # "other" /\ (OpenFile = "port" => fileDesc # NoPort)
BY DEF Exclusion, Kept, TaskUses, OpenFile

LEMMA FreshPreserved ==
  ASSUME TypeOK, Exclusion, Kept, Fresh, NoStaleInput, [Next]_vars
  PROVE  Fresh' /\ NoStaleInput'
<1>0. input \in Seq(0 .. MaxInits) /\ inits \in Int /\ Len(input) \in Nat
  BY BoundAssumption DEF TypeOK
<1>1. CASE TaskUses
  <2>1. app = "idle" /\ (OpenFile = "port" => fileDesc # NoPort)
    BY <1>1, TaskReachesPort
  <2>2. UNCHANGED <<target, fileDesc, app, inits>>
    BY <1>1 DEF TaskUses
  <2>3. CASE input' = input /\ stale' = stale
    BY <2>2, <2>3 DEF Fresh, NoStaleInput
  <2>4. CASE /\ OpenFile = "port" /\ input # <<>>
             /\ input' = Tail(input) /\ stale' = (stale \/ Head(input) < inits)
    <3>1. /\ Len(input) \in Nat \ {0} /\ Len(input') = Len(input) - 1 /\ Head(input) = input[1]
          /\ \A i \in 1 .. Len(input) - 1 : input'[i] = input[i + 1]
      BY <1>0, <2>4, TailType
    <3>2. CASE target = "Linux"
      <4>1. \A i \in 1 .. Len(input) : input[i] >= inits
        BY <2>1, <2>4, <3>2 DEF Fresh
      <4>2. \A i \in 1 .. Len(input') : input'[i] >= inits
        BY <3>1, <4>1
      <4>3. ~(Head(input) < inits)
        <5>0. 1 \in 1 .. Len(input)
          BY <3>1
        <5>1. input[1] >= inits
          BY <5>0, <4>1
        <5>2. Head(input) \in 0 .. MaxInits
          BY <1>0, <2>4, TailType
        <5>3. Head(input) \in Int
          BY <5>2, BoundAssumption
        <5> QED BY <5>1, <5>3, <3>1, <1>0
      <4> QED BY <2>2, <2>4, <3>2, <4>2, <4>3 DEF Fresh, NoStaleInput
    <3>3. CASE target # "Linux"
      BY <2>2, <3>3 DEF Fresh, NoStaleInput
    <3> QED BY <3>2, <3>3
  <2> QED BY <1>1, <2>3, <2>4 DEF TaskUses
<1>2. CASE Arrives
  <2>1. input' = Append(input, inits) /\ UNCHANGED <<target, fileDesc, app, inits, stale>>
    BY <1>2 DEF Arrives
  <2>2. ASSUME \A i \in 1 .. Len(input) : input[i] >= inits
        PROVE  \A i \in 1 .. Len(input') : input'[i] >= inits'
    BY <1>0, <2>1, <2>2
  <2> QED BY <2>1, <2>2 DEF Fresh, NoStaleInput
<1>3. CASE InitConfigures
  <2>1. target' = target /\ stale' = stale
    BY <1>3 DEF InitConfigures
  <2>2. target = "Linux" => input' = <<>>
    BY <1>3 DEF InitConfigures, LinuxConfigure
  <2> QED BY <2>1, <2>2 DEF Fresh, NoStaleInput
<1>4. CASE InitBegin
  BY <1>4 DEF InitBegin, Begin, Fresh, NoStaleInput
<1>5. CASE InitFails
  BY <1>5 DEF InitFails, OpenFailure, Fresh, NoStaleInput
<1>6. CASE ShutdownBegin
  BY <1>6 DEF ShutdownBegin, Begin, Fresh, NoStaleInput
<1>7. CASE ShutdownCloses
  BY <1>7 DEF ShutdownCloses, Fresh, NoStaleInput
<1>8. CASE ShutdownMarks
  BY <1>8 DEF ShutdownMarks, Fresh, NoStaleInput
<1>9. CASE Destroy
  BY <1>9 DEF Destroy, Fresh, NoStaleInput
<1>10. ASSUME NEW n \in Number, InitOpens(n) PROVE Fresh' /\ NoStaleInput'
  BY <1>10 DEF InitOpens, Fresh, NoStaleInput
<1>11. ASSUME UNCHANGED <<target, fileDesc, app, inits, input, stale>>
       PROVE  Fresh' /\ NoStaleInput'
  BY <1>11 DEF Fresh, NoStaleInput
<1> QED BY <1>1, <1>2, <1>3, <1>4, <1>5, <1>6, <1>7, <1>8, <1>9, <1>10, <1>11
        DEF Next, TaskEnter, TaskLeave, TaskCalls, OtherOpens, OtherCloses, vars

LEMMA PortReached ==
  ASSUME TypeOK, Exclusion, Kept, OnlyThePort, [Next]_vars
  PROVE  OnlyThePort'
<1>1. CASE TaskUses
  BY <1>1, TaskReachesPort DEF TaskUses, OnlyThePort
<1>2. CASE TaskLeave
  BY <1>2 DEF TaskLeave, OnlyThePort
<1>3. CASE UNCHANGED reached
  BY <1>3 DEF OnlyThePort
<1> QED BY <1>1, <1>2, <1>3
        DEF Next, InitBegin, InitFails, InitConfigures, ShutdownBegin, ShutdownCloses,
            ShutdownMarks, Destroy, TaskEnter, Arrives, TaskCalls, InitOpens, OtherOpens,
            OtherCloses, vars

\* Who is inside, what the driver's number stands for and what waits in the port.
THEOREM PortInvariant == Bracketed => (Spec => []PortInv)
<1> SUFFICES ASSUME Bracketed PROVE Spec => []PortInv
  OBVIOUS
<1>1. PortInv /\ [Next]_vars => PortInv'
  BY TypePreserved, PlacesPreserved, PortReached, FreshPreserved DEF PortInv
<1> QED BY <1>1, InitHolds, PTL DEF Spec

\* With init and shutdown inside the critical section no call of task() reaches another
\* file of the process, however the system gives out its numbers.
THEOREM TaskReachesOnlyThePort == Bracketed => (Spec => []OnlyThePort)
<1>1. PortInv => OnlyThePort
  BY DEF PortInv
<1> QED BY <1>1, PortInvariant, PTL

\* What init drops on Linux is never received, however often the port is opened.
THEOREM DroppedInputStaysDropped == Bracketed => (Spec => []NoStaleInput)
<1>1. PortInv => NoStaleInput
  BY DEF PortInv
<1> QED BY <1>1, PortInvariant, PTL
=============================================================================

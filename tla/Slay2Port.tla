------------------------------ MODULE Slay2Port ------------------------------
(***************************************************************************)
(* The serial port under the driver: init, shutdown and the three calls    *)
(* of task() that use it, with the thread of task() and an application     *)
(* thread.  The driver keeps the number that the system has given to the   *)
(* port; when the port is closed the system gives that number to whatever  *)
(* the process opens next.  init and shutdown do not enter the critical    *)
(* section; Guarded names those that the application makes inside it.      *)
(***************************************************************************)
EXTENDS Integers, Sequences

CONSTANTS
  Targets,     \* "Linux" and "Win32"
  Number,      \* numbers the system gives to open files (bound)
  Guarded,     \* calls the application makes inside the critical section
  MaxInits,    \* calls of init (bound)
  MaxInput     \* characters waiting to be read (bound)

ASSUME TargetAssumption == Targets \subseteq {"Linux", "Win32"}
ASSUME NumberAssumption == Number \subseteq Nat
ASSUME GuardedAssumption == Guarded \subseteq {"init", "shutdown"}
ASSUME BoundAssumption == MaxInits \in Nat /\ MaxInput \in Nat

VARIABLES
  target,      \* the class in use
  fileDesc,    \* fileDesc, fileHandle
  file,        \* file[n]: what the system has open under number n
  owner,       \* of the mutex
  task,        \* where the thread of task() is, and the call it makes
  app,         \* where the application's thread is
  inits,       \* calls of init so far
  input,       \* characters that have arrived: the number of inits begun by then
  reached,     \* what the last system call of task() was made on
  stale,       \* a character was read that had arrived before the last init began
  destroyed

vars == <<target, fileDesc, file, owner, task, app, inits, input, reached, stale, destroyed>>

NoPort == -1      \* also INVALID_HANDLE_VALUE
Operation == {"getTxCount", "transmit", "receive"}

TypeOK ==
  /\ target \in Targets
  /\ fileDesc \in Number \cup {NoPort}
  /\ file \in [Number -> {"nothing", "port", "other"}]
  /\ owner \in {"none", "task", "app"}
  /\ task \in [at : {"out", "in"}, call : {"none"}] \cup [at : {"use"}, call : Operation]
  /\ app \in {"idle", "open", "configure", "close", "mark"}
  /\ inits \in 0 .. MaxInits
  /\ input \in Seq(0 .. MaxInits) /\ Len(input) <= MaxInput
  /\ reached \in {"nothing", "port", "other"}
  /\ stale \in BOOLEAN /\ destroyed \in BOOLEAN

Init ==
  /\ target \in Targets
  /\ fileDesc = NoPort /\ file = [n \in Number |-> "nothing"]
  /\ owner = "none" /\ task = [at |-> "out", call |-> "none"] /\ app = "idle"
  /\ inits = 0 /\ input = <<>> /\ reached = "nothing" /\ stale = FALSE /\ destroyed = FALSE

-----------------------------------------------------------------------------
\* The system.

Free == {n \in Number : file[n] = "nothing"}
Lowest(n) == n \in Free /\ \A k \in Free : n <= k

\* Other files of the process.
OtherOpens(n) ==
  /\ Lowest(n) /\ file' = [file EXCEPT ![n] = "other"]
  /\ UNCHANGED <<target, fileDesc, owner, task, app, inits, input, reached, stale, destroyed>>

OtherCloses(n) ==
  /\ file[n] = "other" /\ file' = [file EXCEPT ![n] = "nothing"]
  /\ UNCHANGED <<target, fileDesc, owner, task, app, inits, input, reached, stale, destroyed>>

\* The system may keep what arrives while the driver is closed.
Arrives ==
  /\ Len(input) < MaxInput /\ input' = Append(input, inits)
  /\ UNCHANGED <<target, fileDesc, file, owner, task, app, inits, reached, stale, destroyed>>

-----------------------------------------------------------------------------
\* init() and shutdown(), by the application.

\* Plausible slips, for mutation of the model: calls outside the critical section.
ShutdownUnguarded(name) == name \in Guarded \ {"shutdown"}
InitUnguarded(name) == name \in Guarded \ {"init"}
Enters(name) == name \in Guarded

Begin(name, at) ==
  /\ app = "idle" /\ ~destroyed
  /\ IF Enters(name) THEN owner = "none" /\ owner' = "app" ELSE UNCHANGED owner
  /\ app' = at
Return == app' = "idle" /\ owner' = IF owner = "app" THEN "none" ELSE owner

\* The application calls init on a closed driver only: init does not close what it has.
InitBegin ==
  /\ fileDesc = NoPort /\ inits < MaxInits /\ inits' = inits + 1
  /\ Begin("init", "open")
  /\ UNCHANGED <<target, fileDesc, file, task, input, reached, stale, destroyed>>

\* There is a port of this name that can be opened, or there is none.
InitOpens(n) ==
  /\ app = "open" /\ Lowest(n)
  /\ file' = [file EXCEPT ![n] = "port"] /\ fileDesc' = n
  /\ app' = "configure"
  /\ UNCHANGED <<target, owner, task, inits, input, reached, stale, destroyed>>

OpenFailure == NoPort

InitFails ==
  /\ app = "open" /\ Return /\ fileDesc' = OpenFailure
  /\ UNCHANGED <<target, file, task, inits, input, reached, stale, destroyed>>

\* Linux drops what is in the buffers.  The result of the settings is not looked at.
LinuxConfigure == input' = <<>>

\* Windows has the same function, and nothing calls it.
Win32Configure == UNCHANGED input

InitConfigures ==
  /\ app = "configure" /\ Return
  /\ IF target = "Linux" THEN LinuxConfigure ELSE Win32Configure
  /\ UNCHANGED <<target, fileDesc, file, task, inits, reached, stale, destroyed>>

ShutdownBegin ==
  /\ fileDesc # NoPort /\ Begin("shutdown", "close")
  /\ UNCHANGED <<target, fileDesc, file, task, inits, input, reached, stale, destroyed>>

ClosePort(files) == [files EXCEPT ![fileDesc] = "nothing"]

ShutdownCloses ==
  /\ app = "close" /\ app' = "mark"
  /\ file' = ClosePort(file)
  /\ UNCHANGED <<target, fileDesc, owner, task, inits, input, reached, stale, destroyed>>

ShutdownMarks ==
  /\ app = "mark" /\ Return
  /\ fileDesc' = NoPort
  /\ UNCHANGED <<target, file, task, inits, input, reached, stale, destroyed>>

\* The destructor, when both threads are done with the driver.
Destroy ==
  /\ ~destroyed /\ destroyed' = TRUE
  /\ app = "idle" /\ task.at = "out"
  /\ file' = IF fileDesc # NoPort THEN ClosePort(file) ELSE file
  /\ fileDesc' = NoPort
  /\ UNCHANGED <<target, owner, task, app, inits, input, reached, stale>>

-----------------------------------------------------------------------------
\* task(): each call looks whether there is a port, and reads its number again.

TaskLocks == owner = "none" /\ owner' = "task"

TaskEnter ==
  /\ task.at = "out" /\ ~destroyed /\ TaskLocks
  /\ task' = [task EXCEPT !.at = "in"]
  /\ UNCHANGED <<target, fileDesc, file, app, inits, input, reached, stale, destroyed>>

TaskCalls(op) ==
  /\ task.at = "in" /\ fileDesc # NoPort
  /\ task' = [at |-> "use", call |-> op]
  /\ UNCHANGED <<target, fileDesc, file, owner, app, inits, input, reached, stale, destroyed>>

OpenFile == IF fileDesc = NoPort THEN "nothing" ELSE file[fileDesc]

TaskUses ==
  /\ task.at = "use"
  /\ task' = [at |-> "in", call |-> "none"]
  /\ reached' = OpenFile
  /\ IF task.call = "receive" /\ OpenFile = "port" /\ input # <<>>
     THEN input' = Tail(input) /\ stale' = (stale \/ Head(input) < inits)
     ELSE UNCHANGED <<input, stale>>
  /\ UNCHANGED <<target, fileDesc, file, owner, app, inits, destroyed>>

TaskLeave ==
  /\ task.at = "in" /\ task' = [task EXCEPT !.at = "out"]
  /\ owner' = IF owner = "task" THEN "none" ELSE owner
  /\ reached' = "nothing"
  /\ UNCHANGED <<target, fileDesc, file, app, inits, input, stale, destroyed>>

-----------------------------------------------------------------------------

Next ==
  \/ InitBegin \/ InitFails \/ InitConfigures
  \/ ShutdownBegin \/ ShutdownCloses \/ ShutdownMarks \/ Destroy
  \/ TaskEnter \/ TaskUses \/ TaskLeave \/ Arrives
  \/ \E op \in Operation : TaskCalls(op)
  \/ \E n \in Number : InitOpens(n) \/ OtherOpens(n) \/ OtherCloses(n)

Spec == Init /\ [][Next]_vars

-----------------------------------------------------------------------------
\* No frame is written into, and no character read from, another file of the process
\* that got the port's number between the look at fileDesc and its use.
OnlyThePort == reached # "other"

\* What init drops on Linux is never received: a station starts with what arrives
\* afterwards.
NoStaleInput == target = "Linux" => ~stale

=============================================================================

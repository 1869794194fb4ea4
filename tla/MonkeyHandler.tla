--------------------------- MODULE MonkeyHandler ---------------------------
(***************************************************************************)
(* src/server/handler.go: what the goroutine of each request does, on the  *)
(* session of DapSession and on a debuggee that behaves as DebugTarget     *)
(* says.  A handler is a sequence of steps, in the order of the code, and  *)
(* a step is an action: sending a message, taking the lock, starting a     *)
(* command of the driver, and so on.  Goroutines interleave between steps. *)
(*                                                                         *)
(* The client is whoever sends the requests; how careful it is, is a       *)
(* constant.                                                               *)
(***************************************************************************)
EXTENDS DapSession

CONSTANTS
  Kinds,      \* the kinds of request the client sends, and how it may leave
  Care,       \* of what it takes care
  Window,     \* bound: how many requests it leaves unanswered at a time
  MaxDepth    \* bound: the frames of a stack trace

ASSUME HandlerAssumption ==
  /\ Kinds \subseteq {"initialize", "launch", "setBreakpoints", "configurationDone",
                      "continue", "next", "stackTrace", "scopes", "variables",
                      "exceptionInfo", "disconnect", "other", "unknown",
                      "hangup", "garbage"}
  /\ Window \in Nat \ {0}
  /\ Care \in {"careless", "eager", "orderly"}
  /\ MaxDepth \in Nat \ {0}

VARIABLES
  machine, failed, busy,   \* the debuggee, as DebugTarget has it
  source,                  \* whether session.source has been set
  bpSetMux,                \* the goroutine that holds the lock, if any
  terminateOnNextStep,
  driverFrames,            \* len(d.Frames)
  told                     \* the frames the client has last been told of

handlerVars == <<machine, failed, busy, source, bpSetMux, terminateOnNextStep,
                 driverFrames, told>>
vars == <<sessionVars, handlerVars>>

Target == INSTANCE DebugTarget WITH Runners <- Goroutines

Init ==
  /\ SessionInit
  /\ Target!TargetInit
  /\ source = FALSE
  /\ bpSetMux = {}
  /\ terminateOnNextStep = FALSE
  /\ driverFrames = 0 /\ told = 0

-----------------------------------------------------------------------------
(***************************************************************************)
(* The handlers.  A step that is a message sends it.                       *)
(***************************************************************************)
OnInitialize == <<"initialized", "response">>
OnSetBreakpointsLate == <<"response", "setSource">>                   \* fault
OnSetBreakpoints == <<"setSource", "response">>
OnConfigurationDone == <<"thread", "response">>

OnLaunchRunsFirst == <<"readSource", "spawnRun", "startMachine">>     \* fault
OnLaunch == <<"readSource", "startMachine">>
OnLaunchStarted == <<"spawnRun", "response">>
OnLaunchFailed == <<"response", "spawnReport">>
LaunchRun == <<"run", "return", "isOff", "stopEvent">>
LaunchReport == <<"isOff", "stopEvent">>

OnContinueUnlocked == <<"response", "run", "return", "isOff", "stopEvent">>      \* fault
OnContinueHolding == <<"response", "lock", "run", "return", "isOff", "stopEvent">> \* fault
OnContinueLate == <<"lock", "run", "return", "isOff", "stopEvent", "unlock", "response">> \* fault
OnContinue == <<"response", "lock", "run", "return", "isOff", "stopEvent", "unlock">>

\* OnNextRequest, OnStepInRequest and OnStepOutRequest.
OnNextEarly == <<"response", "isOff", "stopEvent", "step", "return">>    \* fault
OnNext == <<"response", "step", "return", "isOff", "stopEvent">>

OnStackTrace == <<"collectFrames", "response">>
OnScopes == <<"pollStopDebug", "response">>
OnVariables == <<"readFrame", "pollStopDebug", "response">>
OnExceptionInfo == <<"readErrors", "response">>
OnDisconnect == <<"signalStopDebug", "response">>

\* OnThreads, OnSetExceptionBreakpoints and what is not supported.
OnOther == <<"response">>

\* A message that dispatchRequest does not know.
OnUnknown == <<"fatal">>

Handler ==
  [initialize |-> OnInitialize, launch |-> OnLaunch, setBreakpoints |-> OnSetBreakpoints,
   configurationDone |-> OnConfigurationDone, continue |-> OnContinue, next |-> OnNext,
   stackTrace |-> OnStackTrace, scopes |-> OnScopes, variables |-> OnVariables,
   exceptionInfo |-> OnExceptionInfo, disconnect |-> OnDisconnect, other |-> OnOther,
   unknown |-> OnUnknown]

-----------------------------------------------------------------------------
(***************************************************************************)
(* The client.  A careless one sends anything in any order.  An eager one  *)
(* sets breakpoints before it launches, and only then commands the         *)
(* debuggee, but does not wait for it to stop.  An orderly one initializes *)
(* first, and commands or examines the debuggee only when it has been told *)
(* of every stop.  With a Window of 1 each waits for the answer to a       *)
(* request before it sends the next.                                       *)
(***************************************************************************)
Asked(kinds) == \E r \in DOMAIN requests : requests[r].kind \in kinds
Answered(r) == \E i \in DOMAIN wire : wire[i] = [from |-> r, type |-> "response"]

Unanswered == {r \in DOMAIN requests : ~Answered(r)}

Announced == {i \in DOMAIN wire : wire[i].type \in {"stopped", "exception", "terminated"}}
Commanded == {r \in DOMAIN requests : requests[r].kind \in {"launch", "continue", "next"}}

\* The client has been told that what it last started has stopped.
ToldStopped ==
  /\ Cardinality(Announced) = Cardinality(Commanded) /\ Announced # {}
  /\ \A i \in Announced : wire[i].type # "terminated"

InOrder(kind) ==
  CASE kind = "initialize" -> requests = << >>
    [] kind \in {"setBreakpoints", "configurationDone"} ->
         Care = "orderly" /\ "initialize" \in Kinds => Asked({"initialize"})
    [] kind = "launch" -> Asked({"setBreakpoints"})
    [] kind \in {"continue", "next", "stackTrace", "scopes", "variables"} ->
         Asked({"launch"}) /\ (Care = "orderly" => ToldStopped)
    [] kind = "exceptionInfo" -> \E i \in Announced : wire[i].type = "exception"
    [] OTHER -> TRUE

\* A client launches once, and asks for variables of frames it may know.
Ask ==
  \E kind \in Kinds \ {"hangup", "garbage"}, frame \in 1 .. MaxDepth :
    /\ Cardinality(Unanswered) < Window
    /\ kind = "launch" => ~Asked({"launch"})
    /\ Care # "careless" => InOrder(kind)
    /\ IF kind = "variables" /\ Care = "orderly" THEN frame <= told
       ELSE kind # "variables" => frame = 1
    /\ HandleRequest([kind |-> kind, frame |-> frame], Handler[kind])
    /\ UNCHANGED handlerVars

\* An orderly client closes the connection when nothing is outstanding but a
\* disconnect.
Hangup ==
  /\ "hangup" \in Kinds
  /\ Care = "orderly" => \A r \in Unanswered : requests[r].kind = "disconnect"
  /\ EndOfInput
  /\ UNCHANGED handlerVars

Garbage == "garbage" \in Kinds /\ Fatal /\ UNCHANGED handlerVars

-----------------------------------------------------------------------------
(***************************************************************************)
(* The steps.                                                              *)
(***************************************************************************)
\* What a step on the handler or the debuggee leaves of the session.
OnlyTodo == UNCHANGED <<requests, active, sendWg, stopDebug, sendQueue, outgoing, wire, reader>>
Breaks(why) == Panics(why) /\ UNCHANGED handlerVars

SetSource(g) ==
  /\ At(g, "setSource")
  /\ source' = TRUE
  /\ Goes(g) /\ OnlyTodo
  /\ UNCHANGED <<panic, machine, failed, busy, bpSetMux, terminateOnNextStep, driverFrames, told>>

\* os.ReadFile fails on the empty path, may fail on any other, and the handler
\* panics.
Unread == IF source THEN "unreadableFile" ELSE "noSourceFile"

ReadSource(g) ==
  /\ At(g, "readSource")
  /\ \/ Breaks(Unread)
     \/ source /\ Goes(g) /\ OnlyTodo /\ UNCHANGED <<panic, handlerVars>>

StartMachine(g) ==
  /\ At(g, "startMachine")
  /\ \E ok \in BOOLEAN :
       /\ Target!Start(ok)
       /\ Instead(g, IF ok THEN OnLaunchStarted ELSE OnLaunchFailed)
  /\ OnlyTodo
  /\ UNCHANGED <<source, bpSetMux, terminateOnNextStep, driverFrames, told>>

\* go func() { time.Sleep(...) ... }(), which no wait group counts.
Spawn(g, step, steps) ==
  /\ At(g, step)
  /\ active' = active \cup {Runner}
  /\ todo' = [todo EXCEPT ![g] = Tail(@), ![Runner] = steps]
  /\ UNCHANGED <<requests, sendWg, stopDebug, sendQueue, outgoing, wire, reader, panic,
                 handlerVars>>

Lock(g) ==
  /\ At(g, "lock") /\ bpSetMux = {}
  /\ bpSetMux' = {g}
  /\ Goes(g) /\ OnlyTodo
  /\ UNCHANGED <<panic, machine, failed, busy, source, terminateOnNextStep, driverFrames, told>>

Unlock(g) ==
  /\ At(g, "unlock")
  /\ bpSetMux' = {}
  /\ Goes(g) /\ OnlyTodo
  /\ UNCHANGED <<panic, machine, failed, busy, source, terminateOnNextStep, driverFrames, told>>

\* A command of the driver begins; without a machine it dereferences nil.
Begin(g, command) ==
  /\ At(g, command)
  /\ \/ machine = "none" /\ Breaks("noMachine")
     \/ /\ Target!Begin(g, command)
        /\ Goes(g) /\ OnlyTodo
        /\ UNCHANGED <<source, bpSetMux, terminateOnNextStep, driverFrames, told>>

\* It goes on, returns, or panics in the program.
Continues(g) ==
  /\ At(g, "return")
  /\ Target!Continues(g)
  /\ OnlyTodo
  /\ UNCHANGED <<todo, source, bpSetMux, terminateOnNextStep, driverFrames, told>>

Return(g) ==
  /\ At(g, "return")
  /\ Target!Ends(g)
  /\ Goes(g) /\ OnlyTodo
  /\ UNCHANGED <<source, bpSetMux, terminateOnNextStep, driverFrames, told>>

Crash(g) ==
  /\ At(g, "return")
  /\ Target!Dies
  /\ OnlyTodo
  /\ UNCHANGED <<todo, source, bpSetMux, terminateOnNextStep, driverFrames, told>>

\* switch State() { case OFF: return ... }: OnContinueRequest keeps the lock.
IsOff(g) ==
  /\ At(g, "isOff")
  /\ IF machine = "OFF" THEN Returns(g) ELSE Goes(g)
  /\ OnlyTodo
  /\ UNCHANGED <<panic, handlerVars>>

\* ProduceStopEvent, which reads the state again.
StopEvent ==
  IF terminateOnNextStep THEN "terminated"
  ELSE CASE Target!DriverState = "STOPPED" -> "stopped"
         [] Target!DriverState \in {"COMPILER_ERROR", "RUNTIME_ERROR"} -> "exception"
         [] Target!DriverState = "DONE" -> "terminated"
         [] Target!DriverState = "OFF" -> "nil"

NeverTerminates == FALSE                                              \* fault
AlwaysTerminates == TRUE                                              \* fault
TerminatesNext == terminateOnNextStep \/ StopEvent = "exception"

ProduceStopEvent(g) ==
  /\ At(g, "stopEvent")
  /\ Instead(g, <<StopEvent>>)
  /\ terminateOnNextStep' = TerminatesNext
  /\ OnlyTodo
  /\ UNCHANGED <<panic, machine, failed, busy, source, bpSetMux, driverFrames, told>>

\* A stack trace of a program that did not compile has one made-up frame.
CollectFrames(g) ==
  /\ At(g, "collectFrames")
  /\ \/ machine = "none" /\ ~failed /\ Breaks("noErrors")
     \/ /\ machine = "none" /\ failed
        /\ told' = 1
        /\ Goes(g) /\ OnlyTodo
        /\ UNCHANGED <<panic, machine, failed, busy, source, bpSetMux, terminateOnNextStep,
                       driverFrames>>
     \/ /\ machine # "none"
        /\ \E depth \in 1 .. MaxDepth : driverFrames' = depth /\ told' = depth
        /\ Goes(g) /\ OnlyTodo
        /\ UNCHANGED <<panic, machine, failed, busy, source, bpSetMux, terminateOnNextStep>>
     \/ machine # "none" /\ Breaks("program")

ReadFrame(g) ==
  /\ At(g, "readFrame")
  /\ IF requests[g].frame <= driverFrames
     THEN Goes(g) /\ OnlyTodo /\ UNCHANGED <<panic, handlerVars>>
     ELSE Breaks("noFrame")

ReadErrors(g) ==
  /\ At(g, "readErrors")
  /\ IF failed
     THEN Goes(g) /\ OnlyTodo /\ UNCHANGED <<panic, handlerVars>>
     ELSE Breaks("noErrors")

(***************************************************************************)
(* stopDebug is unbuffered: OnDisconnect blocks in its send until another  *)
(* goroutine receives, which only OnScopes and OnVariables try, and they   *)
(* do not wait.  One that receives returns without its response.           *)
(***************************************************************************)
Block(g) ==
  /\ At(g, "signalStopDebug") /\ stopDebug = "open"
  /\ Instead(g, <<"blockedOnStopDebug">>) /\ OnlyTodo
  /\ UNCHANGED <<panic, handlerVars>>

SignalClosed(g) ==
  /\ At(g, "signalStopDebug") \/ At(g, "blockedOnStopDebug")
  /\ stopDebug = "closed"
  /\ Breaks("sendOnClosedStopDebug")

Poll(g) ==
  /\ At(g, "pollStopDebug")
  /\ \/ /\ stopDebug = "open" /\ \A h \in Requests : ~At(h, "blockedOnStopDebug")
        /\ Goes(g)
     \/ /\ stopDebug = "closed"
        /\ Returns(g)
     \/ \E h \in Requests :
          /\ stopDebug = "open" /\ At(h, "blockedOnStopDebug")
          /\ todo' = [todo EXCEPT ![g] = << >>, ![h] = Tail(@)]
  /\ OnlyTodo
  /\ UNCHANGED <<panic, handlerVars>>

-----------------------------------------------------------------------------
Goroutine(g) ==
  \/ SetSource(g) \/ ReadSource(g) \/ StartMachine(g)
  \/ Spawn(g, "spawnRun", LaunchRun) \/ Spawn(g, "spawnReport", LaunchReport)
  \/ Lock(g) \/ Unlock(g)
  \/ Begin(g, "run") \/ Begin(g, "step") \/ Continues(g) \/ Return(g) \/ Crash(g)
  \/ IsOff(g) \/ ProduceStopEvent(g)
  \/ CollectFrames(g) \/ ReadFrame(g) \/ ReadErrors(g)
  \/ Block(g) \/ SignalClosed(g) \/ Poll(g)
  \/ (\E m \in Messages : Send(g, m)) /\ UNCHANGED handlerVars
  \/ (Finish(g) \/ FatalRequest(g)) /\ UNCHANGED handlerVars

Writer == SendFromQueue /\ UNCHANGED handlerVars
Shutdown == (CloseQueue \/ Exit) /\ UNCHANGED handlerVars

Next ==
  \/ Ask \/ Hangup \/ Garbage
  \/ \E g \in Goroutines : Goroutine(g)
  \/ Writer
  \/ Shutdown

Spec == Init /\ [][Next]_vars

(***************************************************************************)
(* Fairness: the Go scheduler runs every goroutine that can run.  That a   *)
(* command returns is the program's: it has no loops, and the frames of    *)
(* its calls are bounded.  The client need not do anything.                *)
(***************************************************************************)
Fairness ==
  /\ \A g \in Goroutines : WF_vars(Goroutine(g))
  /\ WF_vars(Writer)
  /\ WF_vars(Shutdown)

FairSpec == Spec /\ Fairness

-----------------------------------------------------------------------------
Steps ==
  Messages \cup {"setSource", "readSource", "startMachine", "spawnRun", "spawnReport",
                 "lock", "unlock", "run", "step", "return", "isOff", "stopEvent",
                 "collectFrames", "readFrame", "readErrors",
                 "signalStopDebug", "blockedOnStopDebug", "pollStopDebug", "fatal"}

\* The types of the session's and the handler's fields.
TypeOK ==
  /\ requests \in Seq([kind : Kinds, frame : 1 .. MaxDepth]) /\ Len(requests) <= MaxRequests
  /\ active \subseteq Goroutines
  /\ todo \in [Goroutines -> Seq(Steps)]
  /\ sendWg \in Nat
  /\ stopDebug \in {"open", "closed"} /\ sendQueue \in {"open", "closed"}
  /\ outgoing \in Seq([from : Goroutines, type : Messages]) /\ Len(outgoing) <= 1
  /\ wire \in Seq([from : Goroutines, type : Messages])
  /\ reader \in {"reading", "waiting", "closing", "exited"}
  /\ machine \in {"none", "OFF", "STOPPED", "DONE"} /\ failed \in BOOLEAN
  /\ busy \in [Goroutines -> {"idle", "step", "run"}]
  /\ source \in BOOLEAN /\ terminateOnNextStep \in BOOLEAN
  /\ bpSetMux \subseteq Goroutines
  /\ driverFrames \in 0 .. MaxDepth /\ told \in 0 .. MaxDepth

(***************************************************************************)
(* The wait group does what it is there for as far as requests go: when    *)
(* the queue is closed no request goroutine is left that could send on it, *)
(* whatever the client does.                                               *)
(***************************************************************************)
TrackedSendersSafe == sendQueue = "closed" => active \subseteq {Runner}

\* The stop that a command leads to is written after the command's response.
StopEvents == {"stopped", "exception", "terminated"}
AcknowledgedFirst ==
  \A i \in DOMAIN wire :
    wire[i].type \in StopEvents /\ wire[i].from # Runner =>
      \E j \in 1 .. i - 1 : wire[j] = [from |-> wire[i].from, type |-> "response"]

\* The lock keeps two Continue requests from running the machine at once.
ContinuesExclusive ==
  \A g, h \in Requests : busy[g] = "run" /\ busy[h] = "run" => g = h

\* "terminated" is only announced of a program that has ended or failed.
TerminatedIsTrue ==
  \A i \in DOMAIN wire : wire[i].type = "terminated" => machine = "DONE" \/ failed

\* While the client believes the debuggee stopped, no goroutine runs it.
QuietWhenTold == ToldStopped => \A g \in Goroutines : busy[g] = "idle"

(***************************************************************************)
(* The rest holds with an orderly client.                                  *)
(***************************************************************************)

\* After an exception the only thing announced is the end of the session.
FailureIsFinal ==
  \A i, j \in DOMAIN wire :
    wire[i].type = "exception" /\ i < j => wire[j].type \notin {"stopped", "exception"}

\* The lock does not outlive its holder.
LockHasHolder == bpSetMux \subseteq active

\* A handler finds no machine only after a program that did not compile, and is
\* never asked for errors that are not there; however the requests overlap.
Dereferences == {"noMachine", "noErrors"}
PanicsExplained == panic \in Dereferences => machine = "none" /\ failed

\* A launch misses the path of the source only when it has overtaken a request
\* that sets it: the client has no answer to a setBreakpoints request.
LaunchKnowsSource ==
  panic = "noSourceFile" => \E r \in Unanswered : requests[r].kind = "setBreakpoints"

\* Once the client has hung up the server ends.
Over == panic # "none" \/ reader = "exited"
ShutsDown == reader = "waiting" ~> Over

\* Again and again every command to go on has led to the event that says where
\* it stopped, until the client hangs up or the server ends.
Stopped(r) == \E i \in DOMAIN wire : wire[i].from = r /\ wire[i].type \in StopEvents

StopsAnnounced ==
  []<>( \/ \A r \in DOMAIN requests : requests[r].kind \in {"continue", "next"} => Stopped(r)
        \/ Over \/ reader # "reading" )

-----------------------------------------------------------------------------
(***************************************************************************)
(* What the comments of session.go and handler.go say and the code does    *)
(* not do.                                                                 *)
(***************************************************************************)

\* The queue is not closed while there is a goroutine left that may send.
QueueClosedLast == sendQueue = "closed" => active = {}

\* Each request is processed and its response sent back.
EveryRequestAnswered ==
  []<>( \/ \A r \in DOMAIN requests : Answered(r)
        \/ Over \/ reader # "reading" )
=============================================================================

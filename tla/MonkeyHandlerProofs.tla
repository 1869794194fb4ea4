------------------------ MODULE MonkeyHandlerProofs ------------------------
(***************************************************************************)
(* Theorems about MonkeyHandler, for every client, every number of         *)
(* requests and every interleaving of their goroutines.                    *)
(***************************************************************************)
EXTENDS MonkeyHandler, FiniteSetTheorems, SequenceTheorems, TLAPS

\* What the wait group and the end of StartSession are about.
countVars == <<requests, active, sendWg, sendQueue, reader>>

Request == [kind : Kinds, frame : 1 .. MaxDepth]

(***************************************************************************)
(* The inductive invariant: the wait group counts the request goroutines   *)
(* that have not finished, whose names are those of the requests read, and *)
(* the queue is closed after the last of them and the last request.        *)
(***************************************************************************)
CountInv ==
  /\ requests \in Seq(Request)
  /\ active \subseteq {Runner} \cup 1 .. Len(requests)
  /\ IsFiniteSet(active)
  /\ sendWg = Cardinality(active \ {Runner})
  /\ sendQueue = "closed" => active \subseteq {Runner} /\ reader \in {"closing", "exited"}

-----------------------------------------------------------------------------
\* One more, and one fewer, member of a finite set other than the runner.
LEMMA CountOneMore ==
  ASSUME NEW S, IsFiniteSet(S), NEW g, g \notin S, g # Runner
  PROVE  /\ IsFiniteSet(S \cup {g})
         /\ Cardinality((S \cup {g}) \ {Runner}) = Cardinality(S \ {Runner}) + 1
<1>1. IsFiniteSet(S \ {Runner}) /\ g \notin S \ {Runner}
  BY FS_Subset
<1>2. (S \cup {g}) \ {Runner} = (S \ {Runner}) \cup {g}
  OBVIOUS
<1>3. QED BY <1>1, <1>2, FS_AddElement

LEMMA CountOneFewer ==
  ASSUME NEW S, IsFiniteSet(S), NEW g \in S, g # Runner
  PROVE  /\ IsFiniteSet(S \ {g})
         /\ Cardinality((S \ {g}) \ {Runner}) = Cardinality(S \ {Runner}) - 1
<1>1. IsFiniteSet(S \ {Runner}) /\ g \in S \ {Runner}
  BY FS_Subset
<1>2. (S \ {g}) \ {Runner} = (S \ {Runner}) \ {g}
  OBVIOUS
<1>3. IsFiniteSet(S \ {g})
  BY FS_Subset
<1>4. Cardinality((S \ {Runner}) \ {g}) = Cardinality(S \ {Runner}) - 1
  BY <1>1, FS_RemoveElement
<1>5. QED BY <1>2, <1>3, <1>4

\* The runner itself does not count.
LEMMA RunnerDoesNotCount ==
  ASSUME NEW S, IsFiniteSet(S)
  PROVE  /\ IsFiniteSet(S \cup {Runner}) /\ IsFiniteSet(S \ {Runner})
         /\ (S \cup {Runner}) \ {Runner} = S \ {Runner}
         /\ (S \ {Runner}) \ {Runner} = S \ {Runner}
BY FS_AddElement, FS_Subset

-----------------------------------------------------------------------------
\* Steps that are not about the count keep the invariant.
LEMMA CountUnchanged == CountInv /\ UNCHANGED countVars => CountInv'
BY DEF CountInv, countVars

LEMMA InitCount == Init => CountInv
<1> SUFFICES ASSUME Init PROVE CountInv
  OBVIOUS
<1>1. /\ requests = << >> /\ active = {} /\ sendWg = 0 /\ sendQueue = "open"
  BY DEF Init, SessionInit
<1>2. requests \in Seq(Request)
  BY <1>1, EmptySeq
<1>3. active \ {Runner} = {} /\ Cardinality({}) = 0 /\ IsFiniteSet({})
  BY <1>1, FS_EmptySet
<1>4. QED BY <1>1, <1>2, <1>3 DEF CountInv

\* Reading a request counts its goroutine before it starts.
LEMMA RequestCounted ==
  ASSUME CountInv, NEW request \in Request, NEW steps, HandleRequest(request, steps)
  PROVE  CountInv'
<1> DEFINE g == Len(requests) + 1
<1>1. /\ reader = "reading"
      /\ requests' = Append(requests, request)
      /\ active' = active \cup {g}
      /\ sendWg' = sendWg + 1
      /\ UNCHANGED <<sendQueue, reader>>
  BY DEF HandleRequest
<1>2. requests \in Seq(Request) /\ Len(requests) \in Nat
  BY LenProperties DEF CountInv
<1>3. requests' \in Seq(Request) /\ Len(requests') = g
  BY <1>1, <1>2, AppendProperties
<1>4. g # Runner /\ g \notin active /\ 1 .. Len(requests) \subseteq 1 .. g /\ g \in 1 .. g
  BY <1>2 DEF CountInv, Runner
<1> HIDE DEF g
<1>5. active' \subseteq {Runner} \cup 1 .. Len(requests')
  BY <1>1, <1>3, <1>4 DEF CountInv
<1>6. IsFiniteSet(active') /\ sendWg' = Cardinality(active' \ {Runner})
  BY <1>1, <1>4, CountOneMore DEF CountInv
<1>7. QED BY <1>1, <1>3, <1>5, <1>6 DEF CountInv

\* A goroutine that finishes is no longer counted, if it was.
LEMMA FinishCounted ==
  ASSUME CountInv, NEW g \in Goroutines, Finish(g)
  PROVE  CountInv'
<1>1. /\ g \in active /\ active' = active \ {g} /\ sendWg' = sendWg - Done(g)
      /\ UNCHANGED <<requests, sendQueue, reader>>
  BY DEF Finish
<1>2. IsFiniteSet(active') /\ sendWg' = Cardinality(active' \ {Runner})
  <2>1. CASE g = Runner
    <3>1. sendWg \in Nat
      BY FS_Subset, FS_CardinalityType DEF CountInv
    <3>2. sendWg' = sendWg
      BY <1>1, <2>1, <3>1 DEF Done
    <3> QED BY <1>1, <2>1, <3>2, RunnerDoesNotCount DEF CountInv
  <2>2. CASE g # Runner
    BY <1>1, <2>2, CountOneFewer DEF CountInv, Done
  <2> QED BY <2>1, <2>2
<1>3. QED BY <1>1, <1>2 DEF CountInv

\* Neither does the count matter once a goroutine has ended the process.
LEMMA FatalCounted ==
  ASSUME CountInv, NEW g, FatalRequest(g)
  PROVE  CountInv'
BY DEF FatalRequest, CountInv

\* The goroutine that a launch leaves behind is not counted.
LEMMA SpawnNotCounted ==
  ASSUME CountInv, NEW g, NEW step, NEW steps, Spawn(g, step, steps)
  PROVE  CountInv'
<1>1. active' = active \cup {Runner} /\ UNCHANGED <<requests, sendWg, sendQueue, reader>>
  BY DEF Spawn
<1>2. QED BY <1>1, RunnerDoesNotCount DEF CountInv

\* The queue is closed when no goroutine is counted.
LEMMA CloseCounted ==
  ASSUME CountInv, CloseQueue
  PROVE  CountInv'
<1>1. /\ sendWg = 0 /\ reader' = "closing" /\ UNCHANGED <<requests, active, sendWg>>
  BY DEF CloseQueue, Drained
<1>2. active \ {Runner} = {}
  <2>1. IsFiniteSet(active \ {Runner})
    BY FS_Subset DEF CountInv
  <2> QED BY <1>1, <2>1, FS_EmptySet DEF CountInv
<1>3. QED BY <1>1, <1>2 DEF CountInv

\* A goroutine's step changes the count only when it spawns or finishes.
LEMMA GoroutineCounted ==
  ASSUME CountInv, NEW g \in Goroutines, Goroutine(g)
  PROVE  CountInv'
<1> DEFINE Other ==
      \/ SetSource(g) \/ ReadSource(g) \/ StartMachine(g) \/ Lock(g) \/ Unlock(g)
      \/ Begin(g, "run") \/ Begin(g, "step") \/ Continues(g) \/ Return(g) \/ Crash(g)
      \/ IsOff(g) \/ ProduceStopEvent(g)
      \/ CollectFrames(g) \/ ReadFrame(g) \/ ReadErrors(g)
      \/ Block(g) \/ SignalClosed(g) \/ Poll(g)
      \/ \E m \in Messages : Send(g, m)
<1>1. ASSUME Other PROVE UNCHANGED countVars
  <2> USE DEF OnlyTodo, Breaks, Panics, countVars
  <2>1. ASSUME SetSource(g) \/ ReadSource(g) \/ StartMachine(g) \/ Lock(g) \/ Unlock(g)
        PROVE  UNCHANGED countVars
    BY <2>1 DEF SetSource, ReadSource, StartMachine, Lock, Unlock
  <2>2. ASSUME Begin(g, "run") \/ Begin(g, "step") \/ Continues(g) \/ Return(g) \/ Crash(g)
        PROVE  UNCHANGED countVars
    BY <2>2 DEF Begin, Continues, Return, Crash
  <2>3. ASSUME \/ IsOff(g) \/ ProduceStopEvent(g)
               \/ CollectFrames(g) \/ ReadFrame(g) \/ ReadErrors(g)
        PROVE  UNCHANGED countVars
    BY <2>3 DEF IsOff, ProduceStopEvent, CollectFrames, ReadFrame, ReadErrors
  <2>4. ASSUME Block(g) \/ SignalClosed(g) \/ Poll(g) \/ \E m \in Messages : Send(g, m)
        PROVE  UNCHANGED countVars
    BY <2>4 DEF Block, SignalClosed, Poll, Send
  <2> QED BY <1>1, <2>1, <2>2, <2>3, <2>4
<1> HIDE DEF Other
<1>2. Other \/ Spawn(g, "spawnRun", LaunchRun) \/ Spawn(g, "spawnReport", LaunchReport)
        \/ Finish(g) \/ FatalRequest(g)
  BY DEF Goroutine, Other
<1>3. QED BY <1>1, <1>2, CountUnchanged, SpawnNotCounted, FinishCounted, FatalCounted

LEMMA NextCount == CountInv /\ [Next]_vars => CountInv'
<1> SUFFICES ASSUME CountInv, [Next]_vars PROVE CountInv'
  OBVIOUS
<1>1. ASSUME Ask PROVE CountInv'
  <2>1. PICK kind \in Kinds \ {"hangup", "garbage"}, frame \in 1 .. MaxDepth :
          HandleRequest([kind |-> kind, frame |-> frame], Handler[kind])
    BY <1>1 DEF Ask
  <2>2. [kind |-> kind, frame |-> frame] \in Request
    BY DEF Request
  <2> QED BY <2>1, <2>2, RequestCounted
<1>2. ASSUME Hangup PROVE CountInv'
  BY <1>2 DEF Hangup, EndOfInput, CountInv
<1>3. ASSUME Garbage PROVE CountInv'
  BY <1>3 DEF Garbage, Fatal, CountInv
<1>4. ASSUME Writer PROVE CountInv'
  BY <1>4, CountUnchanged DEF Writer, SendFromQueue, countVars
<1>5. ASSUME Shutdown PROVE CountInv'
  <2>1. ASSUME Exit PROVE CountInv'
    BY <2>1 DEF Exit, CountInv
  <2> QED BY <1>5, <2>1, CloseCounted DEF Shutdown
<1>6. ASSUME UNCHANGED vars PROVE CountInv'
  BY <1>6, CountUnchanged DEF vars, sessionVars, countVars
<1>7. QED BY <1>1, <1>2, <1>3, <1>4, <1>5, <1>6, GoroutineCounted DEF Next

(***************************************************************************)
(* When sendQueue is closed no request goroutine is left that could send   *)
(* on it: the wait group is sound for every goroutine that it counts.      *)
(***************************************************************************)
THEOREM WaitGroupProtectsQueue == Spec => []TrackedSendersSafe
<1>1. CountInv => TrackedSendersSafe
  BY DEF CountInv, TrackedSendersSafe
<1>2. QED BY <1>1, InitCount, NextCount, PTL DEF Spec

-----------------------------------------------------------------------------
(***************************************************************************)
(* What the goroutines of MonkeyHandler still have to do at any time, and  *)
(* what follows for the order of what they do, whatever the client sends.  *)
(***************************************************************************)

(***************************************************************************)
(* What is left of a handler.  The shapes of OnContinue that hold the lock *)
(* are named Held.                                                         *)
(***************************************************************************)
Stops == {"stopped", "exception", "terminated", "nil"}

Locking    == <<"lock", "run", "return", "isOff", "stopEvent", "unlock">>
HeldRun    == <<"run", "return", "isOff", "stopEvent", "unlock">>
HeldReturn == <<"return", "isOff", "stopEvent", "unlock">>
HeldCheck  == <<"isOff", "stopEvent", "unlock">>
HeldReport == <<"stopEvent", "unlock">>
HeldUnlock == <<"unlock">>
HeldEvent(e) == <<e, "unlock">>

ToStep   == <<"step", "return", "isOff", "stopEvent">>
ToReturn == <<"return", "isOff", "stopEvent">>
ToReport == <<"stopEvent">>
ToSend(e) == <<e>>

ToStart       == <<"startMachine">>
ToRespond     == <<"response">>
ToSpawnReport == <<"spawnReport">>

Held == {HeldRun, HeldReturn, HeldCheck, HeldReport, HeldUnlock}
          \cup {HeldEvent(e) : e \in Stops}
ContinueRest == {OnContinue, Locking, << >>} \cup Held
NextRest == {OnNext, ToStep, ToReturn, LaunchReport, ToReport, << >>}
              \cup {ToSend(e) : e \in Stops}
RunnerRest == {LaunchRun, ToReturn, LaunchReport, ToReport, << >>}
                \cup {ToSend(e) : e \in Stops}
LaunchRest == {OnLaunch, ToStart, OnLaunchStarted, OnLaunchFailed, ToRespond,
               ToSpawnReport, << >>}

\* The steps of the handlers that do not command the debuggee.
AsideSteps ==
  {"initialized", "thread", "response", "setSource", "collectFrames", "readFrame",
   "readErrors", "pollStopDebug", "signalStopDebug", "blockedOnStopDebug", "fatal"}

Rest(kind) ==
  CASE kind = "continue" -> ContinueRest
    [] kind = "next"     -> NextRest
    [] kind = "launch"   -> LaunchRest
    [] kind = "runner"   -> RunnerRest
    [] kind = "none"     -> {<< >>}
    [] OTHER             -> Seq(AsideSteps)

\* Whose goroutine it is: that of a request, the runner's, or none yet.
Kind(g) ==
  IF g = Runner THEN "runner"
  ELSE IF g \in DOMAIN requests THEN requests[g].kind ELSE "none"

-----------------------------------------------------------------------------
(***************************************************************************)
(* The sequences have the steps of the code, and tails that are shapes.    *)
(***************************************************************************)
LEMMA MessagesAreSteps == \A m \in Messages : <<m>> \in Seq(Steps)
BY DEF Steps

LEMMA StopsAreMessages == Stops \subseteq Messages
BY DEF Stops, Messages, Events

LEMMA HandlersAreSteps ==
  \A kind \in Kinds \ {"hangup", "garbage"} : Handler[kind] \in Seq(Steps)
<1>1. OnInitialize \in Seq(Steps)
  BY DEF OnInitialize, Steps, Messages, Events
<1>2. OnSetBreakpoints \in Seq(Steps)
  BY DEF OnSetBreakpoints, Steps, Messages, Events
<1>3. OnConfigurationDone \in Seq(Steps)
  BY DEF OnConfigurationDone, Steps, Messages, Events
<1>4. OnLaunch \in Seq(Steps)
  BY DEF OnLaunch, Steps
<1>5. OnContinue \in Seq(Steps)
  BY DEF OnContinue, Steps, Messages
<1>6. OnNext \in Seq(Steps)
  BY DEF OnNext, Steps, Messages
<1>7. OnStackTrace \in Seq(Steps)
  BY DEF OnStackTrace, Steps, Messages
<1>8. OnScopes \in Seq(Steps)
  BY DEF OnScopes, Steps, Messages
<1>9. OnVariables \in Seq(Steps)
  BY DEF OnVariables, Steps, Messages
<1>10. OnExceptionInfo \in Seq(Steps)
  BY DEF OnExceptionInfo, Steps, Messages
<1>11. OnDisconnect \in Seq(Steps)
  BY DEF OnDisconnect, Steps, Messages
<1>12. OnOther \in Seq(Steps)
  BY DEF OnOther, Steps, Messages
<1>13. OnUnknown \in Seq(Steps)
  BY DEF OnUnknown, Steps
<1>14. QED
  BY <1>1, <1>2, <1>3, <1>4, <1>5, <1>6, <1>7, <1>8, <1>9, <1>10, <1>11, <1>12, <1>13,
     HandlerAssumption DEF Handler

LEMMA LaunchesAreSteps ==
  /\ OnLaunchStarted \in Seq(Steps) /\ OnLaunchFailed \in Seq(Steps)
  /\ LaunchRun \in Seq(Steps) /\ LaunchReport \in Seq(Steps)
<1>1. OnLaunchStarted \in Seq(Steps)
  BY DEF OnLaunchStarted, Steps, Messages
<1>2. OnLaunchFailed \in Seq(Steps)
  BY DEF OnLaunchFailed, Steps, Messages
<1>3. LaunchRun \in Seq(Steps)
  BY DEF LaunchRun, Steps
<1>4. LaunchReport \in Seq(Steps)
  BY DEF LaunchReport, Steps
<1>5. QED BY <1>1, <1>2, <1>3, <1>4

\* A step is taken, or another one takes its place.
LEMMA TailOfSteps ==
  ASSUME NEW S, NEW s \in Seq(S), s # << >>
  PROVE  /\ Tail(s) \in Seq(S) /\ << >> \o Tail(s) = Tail(s)
         /\ \A t \in Seq(S) : t \o Tail(s) \in Seq(S)
<1>1. Tail(s) \in Seq(S)
  BY HeadTailProperties
<1>2. << >> \o Tail(s) = Tail(s)
  BY <1>1, ConcatEmptySeq
<1>3. \A t \in Seq(S) : t \o Tail(s) \in Seq(S)
  BY <1>1, ConcatProperties
<1>4. QED BY <1>1, <1>2, <1>3

\* The handlers begin in a shape of their own.
LEMMA HandlersAreShapes ==
  ASSUME NEW kind \in Kinds \ {"hangup", "garbage"}
  PROVE  Handler[kind] \in Rest(kind)
<1>1. OnInitialize \in Seq(AsideSteps)
  BY DEF OnInitialize, AsideSteps
<1>2. OnSetBreakpoints \in Seq(AsideSteps)
  BY DEF OnSetBreakpoints, AsideSteps
<1>3. OnConfigurationDone \in Seq(AsideSteps)
  BY DEF OnConfigurationDone, AsideSteps
<1>4. OnStackTrace \in Seq(AsideSteps)
  BY DEF OnStackTrace, AsideSteps
<1>5. OnScopes \in Seq(AsideSteps)
  BY DEF OnScopes, AsideSteps
<1>6. OnVariables \in Seq(AsideSteps)
  BY DEF OnVariables, AsideSteps
<1>7. OnExceptionInfo \in Seq(AsideSteps)
  BY DEF OnExceptionInfo, AsideSteps
<1>8. OnDisconnect \in Seq(AsideSteps)
  BY DEF OnDisconnect, AsideSteps
<1>9. OnOther \in Seq(AsideSteps)
  BY DEF OnOther, AsideSteps
<1>10. OnUnknown \in Seq(AsideSteps)
  BY DEF OnUnknown, AsideSteps
<1>11. OnContinue \in ContinueRest /\ OnNext \in NextRest /\ OnLaunch \in LaunchRest
  BY DEF ContinueRest, NextRest, LaunchRest
<1>12. QED
  BY <1>1, <1>2, <1>3, <1>4, <1>5, <1>6, <1>7, <1>8, <1>9, <1>10, <1>11,
     HandlerAssumption DEF Handler, Rest

-----------------------------------------------------------------------------
(***************************************************************************)
(* The heads and tails of the shapes.                                      *)
(***************************************************************************)
LEMMA HeadOfContinue ==
  /\ Head(OnContinue) = "response" /\ Head(Locking) = "lock" /\ Head(HeldRun) = "run"
  /\ Head(HeldReturn) = "return" /\ Head(HeldCheck) = "isOff"
  /\ Head(HeldReport) = "stopEvent" /\ Head(HeldUnlock) = "unlock"
  /\ \A e : Head(HeldEvent(e)) = e
BY DEF OnContinue, Locking, HeldRun, HeldReturn, HeldCheck, HeldReport, HeldUnlock, HeldEvent

LEMMA HeadOfOthers ==
  /\ Head(OnNext) = "response" /\ Head(ToStep) = "step" /\ Head(ToReturn) = "return"
  /\ Head(LaunchReport) = "isOff" /\ Head(ToReport) = "stopEvent" /\ Head(LaunchRun) = "run"
  /\ Head(OnLaunch) = "readSource" /\ Head(ToStart) = "startMachine"
  /\ Head(OnLaunchStarted) = "spawnRun" /\ Head(OnLaunchFailed) = "response"
  /\ Head(ToRespond) = "response" /\ Head(ToSpawnReport) = "spawnReport"
  /\ \A e : Head(ToSend(e)) = e
BY DEF ToSend, OnNext, ToStep, ToReturn, LaunchReport, ToReport, LaunchRun, OnLaunch, ToStart,
   OnLaunchStarted, OnLaunchFailed, ToRespond, ToSpawnReport

LEMMA TailOfContinue ==
  /\ Tail(OnContinue) = Locking /\ Tail(Locking) = HeldRun /\ Tail(HeldRun) = HeldReturn
  /\ Tail(HeldReturn) = HeldCheck /\ Tail(HeldCheck) = HeldReport
  /\ Tail(HeldReport) = HeldUnlock /\ Tail(HeldUnlock) = << >>
  /\ \A e : Tail(HeldEvent(e)) = HeldUnlock
<1>1. Tail(OnContinue) = Locking
  BY DEF OnContinue, Locking
<1>2. Tail(Locking) = HeldRun
  BY DEF Locking, HeldRun
<1>3. Tail(HeldRun) = HeldReturn
  BY DEF HeldRun, HeldReturn
<1>4. Tail(HeldReturn) = HeldCheck
  BY DEF HeldReturn, HeldCheck
<1>5. Tail(HeldCheck) = HeldReport
  BY DEF HeldCheck, HeldReport
<1>6. Tail(HeldReport) = HeldUnlock
  BY DEF HeldReport, HeldUnlock
<1>7. Tail(HeldUnlock) = << >>
  BY DEF HeldUnlock
<1>8. ASSUME NEW e PROVE Tail(HeldEvent(e)) = HeldUnlock
  BY DEF HeldEvent, HeldUnlock
<1>9. QED BY <1>1, <1>2, <1>3, <1>4, <1>5, <1>6, <1>7, <1>8

LEMMA TailOfOthers ==
  /\ Tail(OnNext) = ToStep /\ Tail(ToStep) = ToReturn /\ Tail(ToReturn) = LaunchReport
  /\ Tail(LaunchReport) = ToReport /\ Tail(ToReport) = << >> /\ Tail(LaunchRun) = ToReturn
  /\ Tail(OnLaunch) = ToStart /\ Tail(ToStart) = << >> /\ Tail(OnLaunchStarted) = ToRespond
  /\ Tail(OnLaunchFailed) = ToSpawnReport /\ Tail(ToRespond) = << >>
  /\ Tail(ToSpawnReport) = << >>
  /\ \A e : Tail(ToSend(e)) = << >>
<1>1. Tail(OnNext) = ToStep
  BY DEF OnNext, ToStep
<1>2. Tail(ToStep) = ToReturn
  BY DEF ToStep, ToReturn
<1>3. Tail(ToReturn) = LaunchReport
  BY DEF ToReturn, LaunchReport
<1>4. Tail(LaunchReport) = ToReport /\ Tail(ToReport) = << >>
  BY DEF LaunchReport, ToReport
<1>5. Tail(LaunchRun) = ToReturn
  BY DEF LaunchRun, ToReturn
<1>6. Tail(OnLaunch) = ToStart /\ Tail(ToStart) = << >>
  BY DEF OnLaunch, ToStart
<1>7. Tail(OnLaunchStarted) = ToRespond /\ Tail(ToRespond) = << >>
  BY DEF OnLaunchStarted, ToRespond
<1>8. Tail(OnLaunchFailed) = ToSpawnReport /\ Tail(ToSpawnReport) = << >>
  BY DEF OnLaunchFailed, ToSpawnReport
<1>9. ASSUME NEW e PROVE Tail(ToSend(e)) = << >>
  BY DEF ToSend
<1>10. QED BY <1>1, <1>2, <1>3, <1>4, <1>5, <1>6, <1>7, <1>8, <1>9

-----------------------------------------------------------------------------
(***************************************************************************)
(* The types.                                                              *)
(***************************************************************************)
Message == [from : Goroutines, type : Messages]

\* What an update of one goroutine's steps keeps.
LEMMA StepsOfOne ==
  ASSUME NEW S, todo \in [Goroutines -> S], NEW g \in Goroutines, NEW s \in S,
         todo' = [todo EXCEPT ![g] = s]
  PROVE  /\ todo' \in [Goroutines -> S] /\ todo'[g] = s
         /\ \A h \in Goroutines \ {g} : todo'[h] = todo[h]
OBVIOUS

\* What a step does to todo, wherever it is taken.
LEMMA Taken ==
  ASSUME todo \in [Goroutines -> Seq(Steps)], NEW g \in Goroutines, todo[g] # << >>
  PROVE  /\ Goes(g) => /\ todo' \in [Goroutines -> Seq(Steps)]
                       /\ todo' = [todo EXCEPT ![g] = Tail(todo[g])]
         /\ Returns(g) => todo' \in [Goroutines -> Seq(Steps)]
         /\ \A s \in Seq(Steps) :
              Instead(g, s) => /\ todo' \in [Goroutines -> Seq(Steps)]
                               /\ todo' = [todo EXCEPT ![g] = s \o Tail(todo[g])]
<1>1. /\ Tail(todo[g]) \in Seq(Steps) /\ << >> \o Tail(todo[g]) = Tail(todo[g])
      /\ \A s \in Seq(Steps) : s \o Tail(todo[g]) \in Seq(Steps)
  BY TailOfSteps
<1>2. << >> \in Seq(Steps)
  BY EmptySeq
<1>3. QED BY <1>1, <1>2 DEF Goes, Returns, Instead

\* Where the debuggee may be after a command has moved it.
LEMMA MovedType ==
  ASSUME machine \in {"none", "OFF", "STOPPED", "DONE"}, failed \in BOOLEAN, Target!Moved
  PROVE  /\ machine' \in {"none", "OFF", "STOPPED", "DONE"} /\ failed' \in BOOLEAN
         /\ failed => failed'
         /\ machine' = "none" <=> machine = "none"
         /\ machine = "DONE" => machine' = "DONE"
         /\ machine \in {"STOPPED", "DONE"} => machine' \in {"STOPPED", "DONE"}
<1>1. machine' \in Target!Moves /\ failed' \in {failed, TRUE}
  BY DEF Target!Moved
<1>2. failed' \in BOOLEAN /\ (failed => failed')
  <2>1. failed' = failed \/ failed' = TRUE
    BY <1>1
  <2>2. CASE failed' = failed
    BY <2>2
  <2>3. CASE failed' = TRUE
    BY <2>3
  <2>4. QED BY <2>1, <2>2, <2>3
<1>3. CASE machine = "none"
  BY <1>1, <1>2, <1>3 DEF Target!Moves
<1>4. CASE machine = "OFF"
  BY <1>1, <1>2, <1>4 DEF Target!Moves
<1>5. CASE machine = "STOPPED"
  BY <1>1, <1>2, <1>5 DEF Target!Moves
<1>6. CASE machine = "DONE"
  BY <1>1, <1>2, <1>6 DEF Target!Moves
<1>7. QED BY <1>3, <1>4, <1>5, <1>6

\* The stop event is one of four.
LEMMA StopEventType ==
  ASSUME machine \in {"none", "OFF", "STOPPED", "DONE"}, failed \in BOOLEAN,
         terminateOnNextStep \in BOOLEAN
  PROVE  /\ StopEvent \in Stops
         /\ terminateOnNextStep => StopEvent = "terminated"
         /\ StopEvent = "exception" => machine = "none" \/ failed
         /\ StopEvent = "terminated" => terminateOnNextStep \/ machine = "DONE"
BY DEF StopEvent, Target!DriverState, Stops

LEMMA InitTypes == Init => TypeOK
<1> SUFFICES ASSUME Init PROVE TypeOK
  OBVIOUS
<1>1. << >> \in Seq([kind : Kinds, frame : 1 .. MaxDepth]) /\ << >> \in Seq(Message)
        /\ << >> \in Seq(Steps) /\ Len(<< >>) = 0
  BY EmptySeq
<1>2. todo \in [Goroutines -> Seq(Steps)]
  BY <1>1 DEF Init, SessionInit
<1>3. busy \in [Goroutines -> {"idle", "step", "run"}]
  BY DEF Init, Target!TargetInit
<1>4. 0 \in 0 .. MaxDepth /\ 0 <= MaxRequests
  BY HandlerAssumption, SessionAssumption
<1>5. /\ machine = "none" /\ failed = FALSE /\ source = FALSE /\ bpSetMux = {}
      /\ terminateOnNextStep = FALSE /\ driverFrames = 0 /\ told = 0
  BY DEF Init, Target!TargetInit
<1>6. /\ requests = << >> /\ active = {} /\ sendWg = 0 /\ stopDebug = "open"
      /\ sendQueue = "open" /\ outgoing = << >> /\ wire = << >> /\ reader = "reading"
  BY DEF Init, SessionInit
<1>7. /\ requests \in Seq([kind : Kinds, frame : 1 .. MaxDepth]) /\ Len(requests) <= MaxRequests
      /\ outgoing \in Seq(Message) /\ Len(outgoing) <= 1 /\ wire \in Seq(Message)
  BY <1>1, <1>4, <1>6, SessionAssumption
<1>8. QED BY <1>2, <1>3, <1>4, <1>5, <1>6, <1>7 DEF TypeOK, Message

\* A request that is read.
LEMMA AskTypes ==
  ASSUME TypeOK, CountInv', Ask
  PROVE  TypeOK'
<1>1. PICK kind \in Kinds \ {"hangup", "garbage"}, frame \in 1 .. MaxDepth :
        HandleRequest([kind |-> kind, frame |-> frame], Handler[kind])
  BY DEF Ask
<1>2. UNCHANGED handlerVars
  BY DEF Ask
<1> DEFINE g == Len(requests) + 1
           request == [kind |-> kind, frame |-> frame]
<1>3. /\ g \in Requests
      /\ requests' = Append(requests, request)
      /\ active' = active \cup {g}
      /\ todo' = [todo EXCEPT ![g] = Handler[kind]]
      /\ UNCHANGED <<stopDebug, sendQueue, outgoing, wire, reader, panic>>
  BY <1>1 DEF HandleRequest
<1>4. request \in [kind : Kinds, frame : 1 .. MaxDepth]
  OBVIOUS
<1>5. requests' \in Seq([kind : Kinds, frame : 1 .. MaxDepth]) /\ Len(requests') = g
  BY <1>3, <1>4, AppendProperties DEF TypeOK
<1>6. g <= MaxRequests /\ g \in Goroutines
  BY <1>3, SessionAssumption DEF Requests, Goroutines
<1> HIDE DEF g, request
<1>7. todo' \in [Goroutines -> Seq(Steps)]
  BY <1>3, <1>6, HandlersAreSteps, StepsOfOne DEF TypeOK
<1>8. sendWg' \in Nat
  BY FS_Subset, FS_CardinalityType DEF CountInv
<1>9. QED
  BY <1>2, <1>3, <1>5, <1>6, <1>7, <1>8 DEF TypeOK, handlerVars

\* What the steps on the session leave of the others' types.
LEMMA SessionTypes ==
  ASSUME TypeOK, CountInv', UNCHANGED handlerVars, UNCHANGED requests,
         stopDebug' \in {"open", "closed"}, sendQueue' \in {"open", "closed"},
         reader' \in {"reading", "waiting", "closing", "exited"},
         active' \subseteq active, todo' \in [Goroutines -> Seq(Steps)],
         outgoing' \in Seq(Message), Len(outgoing') <= 1, wire' \in Seq(Message)
  PROVE  TypeOK'
<1>1. sendWg' \in Nat
  BY FS_Subset, FS_CardinalityType DEF CountInv
<1>2. QED BY <1>1 DEF TypeOK, handlerVars, Message

\* What the steps on the handler and the debuggee leave of the session's.
LEMMA HandlerTypes ==
  ASSUME TypeOK, OnlyTodo, todo' \in [Goroutines -> Seq(Steps)],
         machine' \in {"none", "OFF", "STOPPED", "DONE"}, failed' \in BOOLEAN,
         busy' \in [Goroutines -> {"idle", "step", "run"}],
         source' \in BOOLEAN, terminateOnNextStep' \in BOOLEAN,
         bpSetMux' \subseteq Goroutines,
         driverFrames' \in 0 .. MaxDepth, told' \in 0 .. MaxDepth
  PROVE  TypeOK'
BY DEF TypeOK, OnlyTodo

\* Panics change nothing else.
LEMMA PanicTypes ==
  ASSUME TypeOK, NEW why, Breaks(why)
  PROVE  TypeOK'
BY DEF TypeOK, Breaks, Panics, handlerVars

LEMMA GoroutineTypes ==
  ASSUME TypeOK, CountInv', NEW g \in Goroutines, Goroutine(g)
  PROVE  TypeOK'
<1>1. /\ todo \in [Goroutines -> Seq(Steps)] /\ outgoing \in Seq(Message) /\ wire \in Seq(Message)
      /\ stopDebug \in {"open", "closed"} /\ sendQueue \in {"open", "closed"}
      /\ reader \in {"reading", "waiting", "closing", "exited"} /\ Len(outgoing) <= 1
  BY DEF TypeOK, Message
<1>2. /\ machine \in {"none", "OFF", "STOPPED", "DONE"} /\ failed \in BOOLEAN
      /\ busy \in [Goroutines -> {"idle", "step", "run"}]
      /\ source \in BOOLEAN /\ terminateOnNextStep \in BOOLEAN /\ bpSetMux \subseteq Goroutines
      /\ driverFrames \in 0 .. MaxDepth /\ told \in 0 .. MaxDepth
  BY DEF TypeOK
<1>3. ASSUME todo[g] # << >>, Goes(g) PROVE todo' \in [Goroutines -> Seq(Steps)]
  BY <1>1, <1>3, Taken
<1>4. ASSUME todo[g] # << >>, NEW s \in Seq(Steps), Instead(g, s)
      PROVE  todo' \in [Goroutines -> Seq(Steps)]
  BY <1>1, <1>4, Taken
<1>5. ASSUME todo[g] # << >>, Returns(g) PROVE todo' \in [Goroutines -> Seq(Steps)]
  BY <1>1, <1>5, Taken
<1>a. ASSUME SetSource(g) PROVE TypeOK'
  <2>1. todo[g] # << >> /\ Goes(g) /\ OnlyTodo /\ source' = TRUE
        /\ UNCHANGED <<machine, failed, busy, bpSetMux, terminateOnNextStep, driverFrames, told>>
    BY <1>a DEF SetSource, At
  <2> QED BY <2>1, <1>2, <1>3, HandlerTypes
<1>b. ASSUME ReadSource(g) PROVE TypeOK'
  <2>1. ASSUME Goes(g), OnlyTodo, UNCHANGED handlerVars PROVE TypeOK'
    BY <1>b, <2>1, <1>2, <1>3, HandlerTypes DEF ReadSource, At, handlerVars
  <2> QED BY <1>b, <2>1, PanicTypes DEF ReadSource
<1>c. ASSUME StartMachine(g) PROVE TypeOK'
  <2>1. PICK ok \in BOOLEAN :
          Target!Start(ok) /\ Instead(g, IF ok THEN OnLaunchStarted ELSE OnLaunchFailed)
    BY <1>c DEF StartMachine
  <2>2. /\ todo[g] # << >> /\ OnlyTodo
        /\ UNCHANGED <<source, bpSetMux, terminateOnNextStep, driverFrames, told>>
    BY <1>c DEF StartMachine, At
  <2>3. todo' \in [Goroutines -> Seq(Steps)]
    BY <2>1, <2>2, <1>4, LaunchesAreSteps
  <2>4. /\ machine' \in {"none", "OFF", "STOPPED", "DONE"} /\ failed' \in BOOLEAN
        /\ busy' = busy
    BY <2>1, <1>2 DEF Target!Start
  <2> QED BY <2>2, <2>3, <2>4, <1>2, HandlerTypes
<1>d. ASSUME NEW step, NEW steps \in Seq(Steps), Spawn(g, step, steps) PROVE TypeOK'
  <2>1. /\ todo[g] # << >> /\ active' = active \cup {Runner}
        /\ todo' = [todo EXCEPT ![g] = Tail(@), ![Runner] = steps]
        /\ UNCHANGED <<requests, sendWg, stopDebug, sendQueue, outgoing, wire, reader, handlerVars>>
    BY <1>d DEF Spawn, At
  <2>2. Tail(todo[g]) \in Seq(Steps)
    BY <1>1, <2>1, TailOfSteps
  <2>3. todo' \in [Goroutines -> Seq(Steps)]
    BY <1>1, <2>1, <2>2
  <2>4. active' \subseteq Goroutines
    BY <2>1 DEF TypeOK, Goroutines
  <2> QED BY <2>1, <2>3, <2>4 DEF TypeOK, handlerVars
<1>e. ASSUME Lock(g) PROVE TypeOK'
  <2>1. /\ todo[g] # << >> /\ Goes(g) /\ OnlyTodo /\ bpSetMux' = {g}
        /\ UNCHANGED <<machine, failed, busy, source, terminateOnNextStep, driverFrames, told>>
    BY <1>e DEF Lock, At
  <2> QED BY <2>1, <1>2, <1>3, HandlerTypes
<1>f. ASSUME Unlock(g) PROVE TypeOK'
  <2>1. /\ todo[g] # << >> /\ Goes(g) /\ OnlyTodo /\ bpSetMux' = {}
        /\ UNCHANGED <<machine, failed, busy, source, terminateOnNextStep, driverFrames, told>>
    BY <1>f DEF Unlock, At
  <2> QED BY <2>1, <1>2, <1>3, HandlerTypes
<1>h. ASSUME NEW command \in {"run", "step"}, Begin(g, command) PROVE TypeOK'
  <2>1. CASE Breaks("noMachine")
    BY <2>1, PanicTypes
  <2>2. CASE ~Breaks("noMachine")
    <3>1. /\ todo[g] # << >> /\ Goes(g) /\ OnlyTodo /\ Target!Begin(g, command)
          /\ UNCHANGED <<source, bpSetMux, terminateOnNextStep, driverFrames, told>>
      BY <1>h, <2>2 DEF Begin, At
    <3>2. busy' \in [Goroutines -> {"idle", "step", "run"}] /\ UNCHANGED <<machine, failed>>
      BY <3>1, <1>2 DEF Target!Begin
    <3> QED BY <3>1, <3>2, <1>2, <1>3, HandlerTypes
  <2> QED BY <2>1, <2>2
<1>i. ASSUME Continues(g) \/ Crash(g) PROVE TypeOK'
  <2>1. /\ OnlyTodo
        /\ UNCHANGED <<todo, source, bpSetMux, terminateOnNextStep, driverFrames, told>>
    BY <1>i DEF Continues, Crash
  <2>2. busy' = busy /\ (Target!Moved \/ UNCHANGED <<machine, failed>>)
    BY <1>i DEF Continues, Crash, Target!Continues, Target!Dies
  <2>3. machine' \in {"none", "OFF", "STOPPED", "DONE"} /\ failed' \in BOOLEAN
    BY <2>2, <1>2, MovedType
  <2> QED BY <2>1, <2>2, <2>3, <1>1, <1>2, HandlerTypes
<1>j. ASSUME Return(g) PROVE TypeOK'
  <2>1. /\ todo[g] # << >> /\ Goes(g) /\ OnlyTodo /\ Target!Ends(g)
        /\ UNCHANGED <<source, bpSetMux, terminateOnNextStep, driverFrames, told>>
    BY <1>j DEF Return, At
  <2>2. busy' \in [Goroutines -> {"idle", "step", "run"}] /\ Target!Moved
    BY <2>1, <1>2 DEF Target!Ends
  <2>3. machine' \in {"none", "OFF", "STOPPED", "DONE"} /\ failed' \in BOOLEAN
    BY <2>2, <1>2, MovedType
  <2> QED BY <2>1, <2>2, <2>3, <1>2, <1>3, HandlerTypes
<1>k. ASSUME IsOff(g) PROVE TypeOK'
  <2>1. todo[g] # << >> /\ OnlyTodo /\ UNCHANGED handlerVars /\ (Goes(g) \/ Returns(g))
    BY <1>k DEF IsOff, At
  <2> QED BY <2>1, <1>2, <1>3, <1>5, HandlerTypes DEF handlerVars
<1>l. ASSUME ProduceStopEvent(g) PROVE TypeOK'
  <2>1. /\ todo[g] # << >> /\ Instead(g, <<StopEvent>>) /\ OnlyTodo
        /\ terminateOnNextStep' = TerminatesNext
        /\ UNCHANGED <<machine, failed, busy, source, bpSetMux, driverFrames, told>>
    BY <1>l DEF ProduceStopEvent, At
  <2>2. <<StopEvent>> \in Seq(Steps)
    BY <1>2, StopEventType, StopsAreMessages, MessagesAreSteps
  <2>3. TerminatesNext \in BOOLEAN
    BY DEF TerminatesNext
  <2>4. todo' \in [Goroutines -> Seq(Steps)]
    BY <2>1, <2>2, <1>4
  <2>5. terminateOnNextStep' \in BOOLEAN
    BY <2>1, <2>3
  <2> QED BY <2>1, <2>4, <2>5, <1>2, HandlerTypes
<1>m. ASSUME CollectFrames(g) PROVE TypeOK'
  <2>1. CASE Breaks("noErrors") \/ Breaks("program")
    BY <2>1, PanicTypes
  <2>2. CASE ~(Breaks("noErrors") \/ Breaks("program"))
    <3>1. /\ todo[g] # << >> /\ Goes(g) /\ OnlyTodo
          /\ UNCHANGED <<machine, failed, busy, source, bpSetMux, terminateOnNextStep>>
      BY <1>m, <2>2 DEF CollectFrames, At
    <3>2. \/ told' = 1 /\ driverFrames' = driverFrames
          \/ \E depth \in 1 .. MaxDepth : driverFrames' = depth /\ told' = depth
      BY <1>m, <2>2 DEF CollectFrames
    <3>3. driverFrames' \in 0 .. MaxDepth /\ told' \in 0 .. MaxDepth
      BY <3>2, <1>2, HandlerAssumption
    <3> QED BY <3>1, <3>3, <1>2, <1>3, HandlerTypes
  <2> QED BY <2>1, <2>2
<1>n. ASSUME ReadFrame(g) \/ ReadErrors(g) PROVE TypeOK'
  <2>1. CASE Breaks("noFrame") \/ Breaks("noErrors")
    BY <2>1, PanicTypes
  <2>2. CASE ~(Breaks("noFrame") \/ Breaks("noErrors"))
    <3>1. todo[g] # << >> /\ Goes(g) /\ OnlyTodo /\ UNCHANGED handlerVars
      BY <1>n, <2>2 DEF ReadFrame, ReadErrors, At
    <3> QED BY <3>1, <1>2, <1>3, HandlerTypes DEF handlerVars
  <2> QED BY <2>1, <2>2
<1>o. ASSUME Block(g) PROVE TypeOK'
  <2>1. /\ todo[g] # << >> /\ Instead(g, <<"blockedOnStopDebug">>) /\ OnlyTodo
        /\ UNCHANGED handlerVars
    BY <1>o DEF Block, At
  <2>2. <<"blockedOnStopDebug">> \in Seq(Steps)
    BY DEF Steps
  <2>3. todo' \in [Goroutines -> Seq(Steps)]
    BY <2>1, <2>2, <1>4
  <2> QED BY <2>1, <2>3, <1>2, HandlerTypes DEF handlerVars
<1>p. ASSUME SignalClosed(g) PROVE TypeOK'
  BY <1>p, PanicTypes DEF SignalClosed
<1>q. ASSUME Poll(g) PROVE TypeOK'
  <2>1. todo[g] # << >> /\ OnlyTodo /\ UNCHANGED handlerVars
    BY <1>q DEF Poll, At
  <2>2. ASSUME NEW h \in Requests, At(h, "blockedOnStopDebug"),
               todo' = [todo EXCEPT ![g] = << >>, ![h] = Tail(@)]
        PROVE  todo' \in [Goroutines -> Seq(Steps)]
    <3>1. h \in Goroutines /\ todo[h] # << >>
      BY <2>2 DEF At, Goroutines
    <3>2. Tail(todo[h]) \in Seq(Steps) /\ << >> \in Seq(Steps)
      BY <1>1, <3>1, TailOfSteps, EmptySeq
    <3>3. CASE h = g
      <4>1. ~At(g, "pollStopDebug") \/ ~At(h, "blockedOnStopDebug")
        BY <3>3 DEF At
      <4> QED BY <4>1, <1>q, <2>2 DEF Poll
    <3>4. CASE h # g
      BY <1>1, <2>2, <3>1, <3>2, <3>4
    <3> QED BY <3>3, <3>4
  <2>3. todo' \in [Goroutines -> Seq(Steps)]
    BY <1>q, <2>1, <2>2, <1>3, <1>5 DEF Poll
  <2> QED BY <2>1, <2>3, <1>2, HandlerTypes DEF handlerVars
<1>r. ASSUME NEW m \in Messages, Send(g, m), UNCHANGED handlerVars PROVE TypeOK'
  <2>1. CASE Panics("sendOnClosedSendQueue")
    BY <1>r, <2>1, PanicTypes DEF Breaks
  <2>2. CASE ~Panics("sendOnClosedSendQueue")
    <3>1. /\ todo[g] # << >> /\ Goes(g) /\ outgoing' = <<[from |-> g, type |-> m]>>
          /\ UNCHANGED <<requests, active, stopDebug, sendQueue, wire, reader>>
      BY <1>r, <2>2 DEF Send, At
    <3>2. outgoing' \in Seq(Message) /\ Len(outgoing') <= 1
      BY <3>1 DEF Message
    <3>3. todo' \in [Goroutines -> Seq(Steps)]
      BY <3>1, <1>3
    <3> QED BY <3>1, <3>2, <3>3, <1>r, <1>1, SessionTypes
  <2> QED BY <2>1, <2>2
<1>s. ASSUME Finish(g) \/ FatalRequest(g), UNCHANGED handlerVars PROVE TypeOK'
  <2>1. /\ active' \subseteq active /\ reader' \in {reader, "exited"}
        /\ UNCHANGED <<requests, todo, stopDebug, sendQueue, outgoing, wire>>
    BY <1>s DEF Finish, FatalRequest
  <2> QED BY <1>s, <2>1, <1>1, SessionTypes
<1>t. QED
  BY <1>a, <1>b, <1>c, <1>d, <1>e, <1>f, <1>h, <1>i, <1>j, <1>k, <1>l, <1>m, <1>n, <1>o,
     <1>p, <1>q, <1>r, <1>s, LaunchesAreSteps DEF Goroutine

LEMMA NextTypes == TypeOK /\ CountInv' /\ [Next]_vars => TypeOK'
<1> SUFFICES ASSUME TypeOK, CountInv', [Next]_vars PROVE TypeOK'
  OBVIOUS
<1>1. /\ todo \in [Goroutines -> Seq(Steps)] /\ outgoing \in Seq(Message) /\ wire \in Seq(Message)
      /\ stopDebug \in {"open", "closed"} /\ sendQueue \in {"open", "closed"}
      /\ reader \in {"reading", "waiting", "closing", "exited"} /\ Len(outgoing) <= 1
  BY DEF TypeOK, Message
<1>2. ASSUME Hangup \/ Garbage \/ Shutdown PROVE TypeOK'
  <2>1. /\ UNCHANGED <<handlerVars, requests, active, todo, outgoing, wire>>
        /\ stopDebug' \in {stopDebug, "closed"} /\ sendQueue' \in {sendQueue, "closed"}
        /\ reader' \in {"waiting", "closing", "exited"}
    BY <1>2 DEF Hangup, Garbage, Shutdown, EndOfInput, Fatal, CloseQueue, Exit
  <2> QED BY <2>1, <1>1, SessionTypes
<1>3. ASSUME Writer PROVE TypeOK'
  <2>1. /\ UNCHANGED <<handlerVars, requests, active, todo, stopDebug, sendQueue, reader>>
        /\ wire' = wire \o outgoing /\ outgoing' = << >>
    BY <1>3 DEF Writer, SendFromQueue
  <2>2. wire' \in Seq(Message) /\ outgoing' \in Seq(Message) /\ Len(outgoing') <= 1
    BY <1>1, <2>1, ConcatProperties, EmptySeq
  <2> QED BY <2>1, <2>2, <1>1, SessionTypes
<1>4. ASSUME UNCHANGED vars PROVE TypeOK'
  BY <1>4 DEF vars, sessionVars, handlerVars, TypeOK
<1>5. QED BY <1>2, <1>3, <1>4, AskTypes, GoroutineTypes DEF Next

(***************************************************************************)
(* The fields of the session and of the handler keep their types: every    *)
(* step a goroutine has left is a step of the code, and at most one        *)
(* message is between the channel and the client.                          *)
(***************************************************************************)
THEOREM HandlerTypesHold == Spec => []TypeOK
<1>1. CountInv /\ [Next]_vars => CountInv'
  BY NextCount
<1>2. QED BY <1>1, InitCount, InitTypes, NextTypes, PTL DEF Spec

-----------------------------------------------------------------------------
(***************************************************************************)
(* Where a goroutine is, from what it does next.                           *)
(***************************************************************************)
LEMMA ContinuePlaces ==
  ASSUME NEW s \in ContinueRest, s # << >>
  PROVE  \/ s = OnContinue /\ Head(s) = "response" /\ Tail(s) = Locking
         \/ s = Locking /\ Head(s) = "lock" /\ Tail(s) = HeldRun
         \/ s = HeldRun /\ Head(s) = "run" /\ Tail(s) = HeldReturn
         \/ s = HeldReturn /\ Head(s) = "return" /\ Tail(s) = HeldCheck
         \/ s = HeldCheck /\ Head(s) = "isOff" /\ Tail(s) = HeldReport
         \/ s = HeldReport /\ Head(s) = "stopEvent" /\ Tail(s) = HeldUnlock
         \/ s = HeldUnlock /\ Head(s) = "unlock" /\ Tail(s) = << >>
         \/ Head(s) \in Stops /\ s = HeldEvent(Head(s)) /\ Tail(s) = HeldUnlock
<1>1. \/ s \in {OnContinue, Locking, HeldRun, HeldReturn, HeldCheck, HeldReport, HeldUnlock}
      \/ s \in {HeldEvent(e) : e \in Stops}
  BY DEF ContinueRest, Held
<1>2. CASE s \in {OnContinue, Locking, HeldRun, HeldReturn, HeldCheck, HeldReport, HeldUnlock}
  BY <1>2, HeadOfContinue, TailOfContinue
<1>3. CASE s \in {HeldEvent(e) : e \in Stops}
  BY <1>3, HeadOfContinue, TailOfContinue
<1>4. QED BY <1>1, <1>2, <1>3

LEMMA NextPlaces ==
  ASSUME NEW s \in NextRest, s # << >>
  PROVE  \/ s = OnNext /\ Head(s) = "response" /\ Tail(s) = ToStep
         \/ s = ToStep /\ Head(s) = "step" /\ Tail(s) = ToReturn
         \/ s = ToReturn /\ Head(s) = "return" /\ Tail(s) = LaunchReport
         \/ s = LaunchReport /\ Head(s) = "isOff" /\ Tail(s) = ToReport
         \/ s = ToReport /\ Head(s) = "stopEvent" /\ Tail(s) = << >>
         \/ Head(s) \in Stops /\ s = ToSend(Head(s)) /\ Tail(s) = << >>
<1>1. \/ s \in {OnNext, ToStep, ToReturn, LaunchReport, ToReport}
      \/ s \in {ToSend(e) : e \in Stops}
  BY DEF NextRest
<1>2. CASE s \in {OnNext, ToStep, ToReturn, LaunchReport, ToReport}
  BY <1>2, HeadOfOthers, TailOfOthers
<1>3. CASE s \in {ToSend(e) : e \in Stops}
  BY <1>3, HeadOfOthers, TailOfOthers
<1>4. QED BY <1>1, <1>2, <1>3

LEMMA RunnerPlaces ==
  ASSUME NEW s \in RunnerRest, s # << >>
  PROVE  \/ s = LaunchRun /\ Head(s) = "run" /\ Tail(s) = ToReturn
         \/ s = ToReturn /\ Head(s) = "return" /\ Tail(s) = LaunchReport
         \/ s = LaunchReport /\ Head(s) = "isOff" /\ Tail(s) = ToReport
         \/ s = ToReport /\ Head(s) = "stopEvent" /\ Tail(s) = << >>
         \/ Head(s) \in Stops /\ s = ToSend(Head(s)) /\ Tail(s) = << >>
<1>1. \/ s \in {LaunchRun, ToReturn, LaunchReport, ToReport}
      \/ s \in {ToSend(e) : e \in Stops}
  BY DEF RunnerRest
<1>2. CASE s \in {LaunchRun, ToReturn, LaunchReport, ToReport}
  BY <1>2, HeadOfOthers, TailOfOthers
<1>3. CASE s \in {ToSend(e) : e \in Stops}
  BY <1>3, HeadOfOthers, TailOfOthers
<1>4. QED BY <1>1, <1>2, <1>3

LEMMA LaunchPlaces ==
  ASSUME NEW s \in LaunchRest, s # << >>
  PROVE  \/ s = OnLaunch /\ Head(s) = "readSource" /\ Tail(s) = ToStart
         \/ s = ToStart /\ Head(s) = "startMachine" /\ Tail(s) = << >>
         \/ s = OnLaunchStarted /\ Head(s) = "spawnRun" /\ Tail(s) = ToRespond
         \/ s = OnLaunchFailed /\ Head(s) = "response" /\ Tail(s) = ToSpawnReport
         \/ s = ToRespond /\ Head(s) = "response" /\ Tail(s) = << >>
         \/ s = ToSpawnReport /\ Head(s) = "spawnReport" /\ Tail(s) = << >>
<1>1. s \in {OnLaunch, ToStart, OnLaunchStarted, OnLaunchFailed, ToRespond, ToSpawnReport}
  BY DEF LaunchRest
<1>2. QED BY <1>1, HeadOfOthers, TailOfOthers

\* The shapes of one kind differ.
LEMMA ShapesDiffer ==
  /\ << >> \notin {OnContinue, Locking} \cup Held
  /\ << >> \notin {OnNext, ToStep, ToReturn, LaunchReport, ToReport, LaunchRun}
  /\ << >> \notin {OnLaunch, ToStart, OnLaunchStarted, OnLaunchFailed, ToRespond, ToSpawnReport}
  /\ \A e : ToSend(e) # << >>
<1>1. << >> \notin {OnContinue, Locking}
  BY DEF OnContinue, Locking
<1>2. << >> \notin {HeldRun, HeldReturn, HeldCheck, HeldReport, HeldUnlock}
  BY DEF HeldRun, HeldReturn, HeldCheck, HeldReport, HeldUnlock
<1>3. \A e : HeldEvent(e) # << >> /\ ToSend(e) # << >>
  BY DEF HeldEvent, ToSend
<1>4. << >> \notin {OnNext, ToStep, ToReturn, LaunchReport, ToReport, LaunchRun}
  BY DEF OnNext, ToStep, ToReturn, LaunchReport, ToReport, LaunchRun
<1>5. << >> \notin {OnLaunch, ToStart, OnLaunchStarted, OnLaunchFailed, ToRespond, ToSpawnReport}
  BY DEF OnLaunch, ToStart, OnLaunchStarted, OnLaunchFailed, ToRespond, ToSpawnReport
<1>6. QED BY <1>1, <1>2, <1>3, <1>4, <1>5 DEF Held

\* Nor is a handler of OnContinue that has not the lock one that has it.
LEMMA HeldDiffers ==
  OnContinue \notin Held /\ Locking \notin Held /\ << >> \notin Held
<1>1. ASSUME NEW s \in Held
      PROVE  Head(s) \in {"run", "return", "isOff", "stopEvent", "unlock"} \cup Stops
  BY HeadOfContinue DEF Held
<1>2. "response" \notin Stops /\ "lock" \notin Stops
  BY DEF Stops
<1>3. QED BY <1>1, <1>2, HeadOfContinue, ShapesDiffer

\* The kinds of goroutine that command the debuggee.
Commanding == {"continue", "next", "launch", "runner"}

(***************************************************************************)
(* What the next step of a goroutine says about whose it is and what else  *)
(* is left.                                                                *)
(***************************************************************************)
LEMMA Places ==
  ASSUME NEW k, NEW s \in Rest(k), s # << >>
  PROVE  /\ Head(s) = "readSource" => k = "launch" /\ s = OnLaunch /\ Tail(s) = ToStart
         /\ Head(s) = "startMachine" => k = "launch" /\ s = ToStart /\ Tail(s) = << >>
         /\ Head(s) = "spawnRun" =>
              k = "launch" /\ s = OnLaunchStarted /\ Tail(s) = ToRespond
         /\ Head(s) = "spawnReport" =>
              k = "launch" /\ s = ToSpawnReport /\ Tail(s) = << >>
         /\ Head(s) = "lock" => k = "continue" /\ s = Locking /\ Tail(s) = HeldRun
         /\ Head(s) = "unlock" => k = "continue" /\ s = HeldUnlock /\ Tail(s) = << >>
         /\ Head(s) = "run" => \/ k = "continue" /\ s = HeldRun /\ Tail(s) = HeldReturn
                               \/ k = "runner" /\ s = LaunchRun /\ Tail(s) = ToReturn
         /\ Head(s) = "step" => k = "next" /\ s = ToStep /\ Tail(s) = ToReturn
         /\ Head(s) = "return" =>
              \/ k = "continue" /\ s = HeldReturn /\ Tail(s) = HeldCheck
              \/ k \in {"next", "runner"} /\ s = ToReturn /\ Tail(s) = LaunchReport
         /\ Head(s) = "isOff" =>
              \/ k = "continue" /\ s = HeldCheck /\ Tail(s) = HeldReport
              \/ k \in {"next", "runner"} /\ s = LaunchReport /\ Tail(s) = ToReport
         /\ Head(s) = "stopEvent" =>
              \/ k = "continue" /\ s = HeldReport /\ Tail(s) = HeldUnlock
              \/ k \in {"next", "runner"} /\ s = ToReport /\ Tail(s) = << >>
         /\ Head(s) = "response" =>
              \/ k = "continue" /\ s = OnContinue /\ Tail(s) = Locking
              \/ k = "next" /\ s = OnNext /\ Tail(s) = ToStep
              \/ k = "launch" /\ s = OnLaunchFailed /\ Tail(s) = ToSpawnReport
              \/ k = "launch" /\ s = ToRespond /\ Tail(s) = << >>
              \/ k \notin Commanding
         /\ Head(s) \in Stops =>
              \/ k = "continue" /\ s = HeldEvent(Head(s)) /\ Tail(s) = HeldUnlock
              \/ k \in {"next", "runner"} /\ s = ToSend(Head(s)) /\ Tail(s) = << >>
         /\ Head(s) \in AsideSteps \ {"response"} => k \notin Commanding
         /\ k \notin Commanding =>
              k # "none" /\ Head(s) \in AsideSteps /\ Tail(s) \in Seq(AsideSteps)
<1> USE DEF Stops, AsideSteps, Commanding
<1>1. CASE k = "continue"
  <2>1. s \in ContinueRest
    BY <1>1 DEF Rest
  <2> QED BY <1>1, <2>1, ContinuePlaces
<1>2. CASE k = "next"
  <2>1. s \in NextRest
    BY <1>2 DEF Rest
  <2> QED BY <1>2, <2>1, NextPlaces
<1>3. CASE k = "runner"
  <2>1. s \in RunnerRest
    BY <1>3 DEF Rest
  <2> QED BY <1>3, <2>1, RunnerPlaces
<1>4. CASE k = "launch"
  <2>1. s \in LaunchRest
    BY <1>4 DEF Rest
  <2> QED BY <1>4, <2>1, LaunchPlaces
<1>5. CASE k \notin Commanding
  <2>1. k # "none" /\ s \in Seq(AsideSteps)
    BY <1>5 DEF Rest
  <2>2. Head(s) \in AsideSteps /\ Tail(s) \in Seq(AsideSteps)
    BY <2>1, HeadTailProperties
  <2> HIDE DEF Stops
  <2>3. Head(s) \notin Stops
    BY <2>2 DEF Stops
  <2> QED BY <1>5, <2>1, <2>2, <2>3
<1>6. QED BY <1>1, <1>2, <1>3, <1>4, <1>5

\* Every shape is one, and so is what is left of it after a step.
LEMMA RestIsClosed ==
  /\ \A k : << >> \in Rest(k)
  /\ Locking \in Rest("continue") /\ Held \subseteq Rest("continue")
  /\ {ToStep, ToReturn, LaunchReport, ToReport} \subseteq Rest("next")
  /\ {LaunchRun, ToReturn, LaunchReport, ToReport} \subseteq Rest("runner")
  /\ LaunchRest \subseteq Rest("launch")
  /\ \A e \in Stops :
       /\ HeldEvent(e) \in Held /\ HeldEvent(e) \in Rest("continue")
       /\ ToSend(e) \in Rest("next") /\ ToSend(e) \in Rest("runner")
<1>1. << >> \in Seq(AsideSteps)
  BY EmptySeq
<1>2. QED
  BY <1>1 DEF Rest, ContinueRest, NextRest, RunnerRest, LaunchRest, Held

-----------------------------------------------------------------------------
(***************************************************************************)
(* The inductive invariant.  What a goroutine has left is a shape of its   *)
(* kind; a goroutine with something left has not finished; it runs a       *)
(* command only where it waits for it to return; and between lock and      *)
(* unlock it is the one that has the lock.                                 *)
(***************************************************************************)
ShapeOf(g) ==
  /\ todo[g] \in Rest(Kind(g))
  /\ todo[g] # << >> => g \in active
  /\ busy[g] # "idle" => todo[g] \in {HeldReturn, ToReturn}
  /\ busy[g] = "run" => Kind(g) \in {"continue", "runner"}
  /\ Kind(g) = "continue" /\ todo[g] \in Held => bpSetMux = {g}

ShapeInv == \A g \in Goroutines : ShapeOf(g)

\* There is one launch, and the runner has nothing to do before it is spawned.
Unspawned == {OnLaunch, ToStart, OnLaunchStarted, OnLaunchFailed, ToSpawnReport}
Spawned == \E g \in Goroutines : Kind(g) = "launch" /\ todo[g] \notin Unspawned

LaunchInv ==
  /\ \A g, h \in Goroutines : Kind(g) = "launch" /\ Kind(h) = "launch" => g = h
  /\ todo[Runner] # << >> => Spawned

\* Only the goroutine of a request has the kind of one.
LEMMA KindType ==
  ASSUME TypeOK, NEW g \in Goroutines
  PROVE  /\ Kind(g) = "runner" <=> g = Runner
         /\ g \in DOMAIN requests =>
              Kind(g) = requests[g].kind /\ Kind(g) \in Kinds /\ g # Runner /\ g \in Requests
         /\ g # Runner /\ g \notin DOMAIN requests => Kind(g) = "none"
         /\ Kind(g) \notin {"runner", "none"} => g \in DOMAIN requests
<1>1. /\ requests \in Seq([kind : Kinds, frame : 1 .. MaxDepth])
      /\ DOMAIN requests = 1 .. Len(requests) /\ Len(requests) \in Nat
      /\ Len(requests) <= MaxRequests
  BY LenProperties DEF TypeOK
<1>2. g \in DOMAIN requests => g # Runner /\ requests[g].kind \in Kinds /\ g \in Requests
  <2> SUFFICES ASSUME g \in DOMAIN requests
               PROVE  g # Runner /\ requests[g].kind \in Kinds /\ g \in Requests
    OBVIOUS
  <2>1. requests[g] \in [kind : Kinds, frame : 1 .. MaxDepth]
    BY <1>1, ElementOfSeq
  <2>2. g # Runner /\ g \in Requests
    BY <1>1, SessionAssumption DEF Runner, Requests
  <2> QED BY <2>1, <2>2
<1>3. "runner" \notin Kinds /\ "none" \notin Kinds
  BY HandlerAssumption
<1>4. QED BY <1>2, <1>3 DEF Kind

LEMMA KindStays == UNCHANGED requests => \A g : Kind(g)' = Kind(g)
BY DEF Kind

\* What is next is not a message when there is a place for it.
LEMMA AwayFromReturn ==
  ASSUME ShapeInv, NEW g \in Goroutines, todo[g] # << >>, Head(todo[g]) # "return"
  PROVE  busy[g] = "idle"
<1>1. Head(HeldReturn) = "return" /\ Head(ToReturn) = "return"
  BY HeadOfContinue, HeadOfOthers
<1>2. QED BY <1>1 DEF ShapeInv, ShapeOf

\* A step that changes nothing of this, and one that changes only what one
\* goroutine has left.
vars5 == <<requests, active, todo, busy, bpSetMux>>

LEMMA ShapesStay == ShapeInv /\ UNCHANGED vars5 => ShapeInv'
BY KindStays DEF ShapeInv, ShapeOf, vars5

LEMMA OneShifts ==
  ASSUME TypeOK, ShapeInv, NEW g \in Goroutines, NEW t \in Rest(Kind(g)), g \in active,
         todo' = [todo EXCEPT ![g] = t],
         UNCHANGED <<requests, active, busy, bpSetMux>>,
         busy[g] = "idle",
         Kind(g) = "continue" /\ t \in Held => bpSetMux = {g}
  PROVE  ShapeInv'
<1>1. todo'[g] = t /\ \A h \in Goroutines \ {g} : todo'[h] = todo[h]
  BY DEF TypeOK
<1>2. \A h : Kind(h)' = Kind(h)
  BY KindStays
<1>3. ShapeOf(g)'
  BY <1>1, <1>2 DEF ShapeInv, ShapeOf
<1>4. ASSUME NEW h \in Goroutines \ {g} PROVE ShapeOf(h)'
  BY <1>1, <1>2 DEF ShapeInv, ShapeOf
<1>5. QED BY <1>3, <1>4 DEF ShapeInv

-----------------------------------------------------------------------------
(***************************************************************************)
(* What the steps of a goroutine do, in terms of the shapes.               *)
(***************************************************************************)
Shifts(g, s, t) == todo[g] = s /\ todo' = [todo EXCEPT ![g] = t]

LEMMA Here ==
  ASSUME TypeOK, ShapeInv, NEW g \in Goroutines, NEW step, At(g, step)
  PROVE  /\ todo[g] # << >> /\ Head(todo[g]) = step /\ todo[g] \in Rest(Kind(g))
         /\ g \in active
         /\ step # "return" => busy[g] = "idle"
         /\ Goes(g) => todo' = [todo EXCEPT ![g] = Tail(todo[g])]
         /\ \A s \in Seq(Steps) : Instead(g, s) => todo' = [todo EXCEPT ![g] = s \o Tail(todo[g])]
<1>1. todo[g] # << >> /\ Head(todo[g]) = step
  BY DEF At
<1>2. todo \in [Goroutines -> Seq(Steps)]
  BY DEF TypeOK
<1>3. QED BY <1>1, <1>2, Taken, AwayFromReturn DEF ShapeInv, ShapeOf

LEMMA ReadSourceShifts ==
  ASSUME TypeOK, ShapeInv, NEW g \in Goroutines, ReadSource(g), ~Breaks(Unread)
  PROVE  Kind(g) = "launch" /\ Shifts(g, OnLaunch, ToStart)
<1>1. At(g, "readSource") /\ Goes(g)
  BY DEF ReadSource
<1>2. QED BY <1>1, Here, Places DEF Shifts

LEMMA StartMachineShifts ==
  ASSUME TypeOK, ShapeInv, NEW g \in Goroutines, StartMachine(g)
  PROVE  /\ Kind(g) = "launch" /\ machine = "none" /\ ~failed /\ busy' = busy
         /\ \/ machine' = "OFF" /\ failed' = failed /\ Shifts(g, ToStart, OnLaunchStarted)
            \/ machine' = machine /\ failed' = TRUE /\ Shifts(g, ToStart, OnLaunchFailed)
<1>1. At(g, "startMachine")
  BY DEF StartMachine
<1>2. PICK ok \in BOOLEAN :
        Target!Start(ok) /\ Instead(g, IF ok THEN OnLaunchStarted ELSE OnLaunchFailed)
  BY DEF StartMachine
<1>3. Kind(g) = "launch" /\ todo[g] = ToStart /\ Tail(todo[g]) = << >>
  BY <1>1, Here, Places
<1>4. /\ OnLaunchStarted \o << >> = OnLaunchStarted /\ OnLaunchFailed \o << >> = OnLaunchFailed
      /\ OnLaunchStarted \in Seq(Steps) /\ OnLaunchFailed \in Seq(Steps)
  BY LaunchesAreSteps, ConcatEmptySeq
<1>5. machine = "none" /\ ~failed /\ busy' = busy
  BY <1>2 DEF Target!Start
<1>6. CASE ok
  <2>1. machine' = "OFF" /\ failed' = failed
    BY <1>2, <1>6 DEF Target!Start
  <2>2. Instead(g, OnLaunchStarted)
    BY <1>2, <1>6
  <2>3. todo' = [todo EXCEPT ![g] = OnLaunchStarted \o Tail(todo[g])]
    BY <2>2, <1>1, <1>4, Here
  <2>4. Shifts(g, ToStart, OnLaunchStarted)
    BY <2>3, <1>3, <1>4 DEF Shifts
  <2> QED BY <2>1, <2>4, <1>3, <1>5
<1>7. CASE ~ok
  <2>1. machine' = machine /\ failed' = TRUE
    BY <1>2, <1>7 DEF Target!Start
  <2>2. Instead(g, OnLaunchFailed)
    BY <1>2, <1>7
  <2>3. todo' = [todo EXCEPT ![g] = OnLaunchFailed \o Tail(todo[g])]
    BY <2>2, <1>1, <1>4, Here
  <2>4. Shifts(g, ToStart, OnLaunchFailed)
    BY <2>3, <1>3, <1>4 DEF Shifts
  <2> QED BY <2>1, <2>4, <1>3, <1>5
<1>8. QED BY <1>6, <1>7

LEMMA SpawnShifts ==
  ASSUME TypeOK, ShapeInv, NEW g \in Goroutines
  PROVE  /\ Spawn(g, "spawnRun", LaunchRun) =>
              /\ Kind(g) = "launch" /\ todo[g] = OnLaunchStarted /\ g # Runner
              /\ todo' = [todo EXCEPT ![g] = ToRespond, ![Runner] = LaunchRun]
         /\ Spawn(g, "spawnReport", LaunchReport) =>
              /\ Kind(g) = "launch" /\ todo[g] = ToSpawnReport /\ g # Runner
              /\ todo' = [todo EXCEPT ![g] = << >>, ![Runner] = LaunchReport]
<1>1. ASSUME Spawn(g, "spawnRun", LaunchRun)
      PROVE  /\ Kind(g) = "launch" /\ todo[g] = OnLaunchStarted /\ g # Runner
             /\ todo' = [todo EXCEPT ![g] = ToRespond, ![Runner] = LaunchRun]
  <2>1. At(g, "spawnRun")
    BY <1>1 DEF Spawn
  <2>2. Kind(g) = "launch" /\ todo[g] = OnLaunchStarted /\ Tail(todo[g]) = ToRespond
    BY <2>1, Here, Places
  <2> QED BY <1>1, <2>2, KindType DEF Spawn
<1>2. ASSUME Spawn(g, "spawnReport", LaunchReport)
      PROVE  /\ Kind(g) = "launch" /\ todo[g] = ToSpawnReport /\ g # Runner
             /\ todo' = [todo EXCEPT ![g] = << >>, ![Runner] = LaunchReport]
  <2>1. At(g, "spawnReport")
    BY <1>2 DEF Spawn
  <2>2. Kind(g) = "launch" /\ todo[g] = ToSpawnReport /\ Tail(todo[g]) = << >>
    BY <2>1, Here, Places
  <2> QED BY <1>2, <2>2, KindType DEF Spawn
<1>3. QED BY <1>1, <1>2

LEMMA LockShifts ==
  ASSUME TypeOK, ShapeInv, NEW g \in Goroutines
  PROVE  /\ Lock(g) => Kind(g) = "continue" /\ Shifts(g, Locking, HeldRun)
         /\ Unlock(g) => Kind(g) = "continue" /\ Shifts(g, HeldUnlock, << >>)
<1>1. ASSUME Lock(g) PROVE Kind(g) = "continue" /\ Shifts(g, Locking, HeldRun)
  <2>1. At(g, "lock") /\ Goes(g)
    BY <1>1 DEF Lock
  <2> QED BY <2>1, Here, Places DEF Shifts
<1>2. ASSUME Unlock(g) PROVE Kind(g) = "continue" /\ Shifts(g, HeldUnlock, << >>)
  <2>1. At(g, "unlock") /\ Goes(g)
    BY <1>2 DEF Unlock
  <2>2. Kind(g) = "continue" /\ todo[g] = HeldUnlock /\ Tail(todo[g]) = << >>
    BY <2>1, Here, Places
  <2>3. todo' = [todo EXCEPT ![g] = Tail(todo[g])]
    BY <2>1, Here
  <2> QED BY <2>2, <2>3 DEF Shifts
<1>3. QED BY <1>1, <1>2

LEMMA BeginShifts ==
  ASSUME TypeOK, ShapeInv, NEW g \in Goroutines, NEW command \in {"run", "step"},
         Begin(g, command), ~Breaks("noMachine")
  PROVE  /\ machine # "none" /\ busy' = [busy EXCEPT ![g] = command]
         /\ UNCHANGED <<machine, failed>>
         /\ \/ Kind(g) = "continue" /\ command = "run" /\ Shifts(g, HeldRun, HeldReturn)
            \/ Kind(g) = "runner" /\ command = "run" /\ Shifts(g, LaunchRun, ToReturn)
            \/ Kind(g) = "next" /\ command = "step" /\ Shifts(g, ToStep, ToReturn)
<1>1. At(g, command) /\ Goes(g) /\ Target!Begin(g, command)
  BY DEF Begin
<1>2. /\ machine # "none" /\ busy' = [busy EXCEPT ![g] = command]
      /\ UNCHANGED <<machine, failed>>
  BY <1>1 DEF Target!Begin
<1>3. todo' = [todo EXCEPT ![g] = Tail(todo[g])]
  BY <1>1, Here
<1>4. CASE command = "run"
  <2>1. \/ Kind(g) = "continue" /\ todo[g] = HeldRun /\ Tail(todo[g]) = HeldReturn
        \/ Kind(g) = "runner" /\ todo[g] = LaunchRun /\ Tail(todo[g]) = ToReturn
    BY <1>1, <1>4, Here, Places
  <2> QED BY <1>2, <1>3, <1>4, <2>1 DEF Shifts
<1>5. CASE command = "step"
  <2>1. Kind(g) = "next" /\ todo[g] = ToStep /\ Tail(todo[g]) = ToReturn
    BY <1>1, <1>5, Here, Places
  <2> QED BY <1>2, <1>3, <1>5, <2>1 DEF Shifts
<1>6. QED BY <1>4, <1>5

LEMMA ReturnShifts ==
  ASSUME TypeOK, ShapeInv, NEW g \in Goroutines, Return(g)
  PROVE  /\ busy[g] # "idle" /\ busy' = [busy EXCEPT ![g] = "idle"] /\ Target!Moved
         /\ \/ Kind(g) = "continue" /\ Shifts(g, HeldReturn, HeldCheck)
            \/ Kind(g) \in {"next", "runner"} /\ Shifts(g, ToReturn, LaunchReport)
<1>1. At(g, "return") /\ Goes(g) /\ Target!Ends(g)
  BY DEF Return
<1>2. busy[g] # "idle" /\ busy' = [busy EXCEPT ![g] = "idle"] /\ Target!Moved
  BY <1>1 DEF Target!Ends
<1>3. \/ Kind(g) = "continue" /\ todo[g] = HeldReturn /\ Tail(todo[g]) = HeldCheck
      \/ Kind(g) \in {"next", "runner"} /\ todo[g] = ToReturn /\ Tail(todo[g]) = LaunchReport
  BY <1>1, Here, Places
<1>4. todo' = [todo EXCEPT ![g] = Tail(todo[g])]
  BY <1>1, Here
<1>5. QED BY <1>2, <1>3, <1>4 DEF Shifts

LEMMA IsOffShifts ==
  ASSUME TypeOK, ShapeInv, NEW g \in Goroutines, IsOff(g)
  PROVE  \/ /\ machine # "OFF"
            /\ \/ Kind(g) = "continue" /\ Shifts(g, HeldCheck, HeldReport)
               \/ Kind(g) \in {"next", "runner"} /\ Shifts(g, LaunchReport, ToReport)
         \/ /\ machine = "OFF"
            /\ \/ Kind(g) = "continue" /\ Shifts(g, HeldCheck, << >>)
               \/ Kind(g) \in {"next", "runner"} /\ Shifts(g, LaunchReport, << >>)
<1>1. At(g, "isOff") /\ IF machine = "OFF" THEN Returns(g) ELSE Goes(g)
  BY DEF IsOff
<1>2. \/ Kind(g) = "continue" /\ todo[g] = HeldCheck /\ Tail(todo[g]) = HeldReport
      \/ Kind(g) \in {"next", "runner"} /\ todo[g] = LaunchReport /\ Tail(todo[g]) = ToReport
  BY <1>1, Here, Places
<1>3. CASE machine = "OFF"
  <2>1. todo' = [todo EXCEPT ![g] = << >>]
    BY <1>1, <1>3 DEF Returns
  <2> QED BY <1>2, <1>3, <2>1 DEF Shifts
<1>4. CASE machine # "OFF"
  <2>1. todo' = [todo EXCEPT ![g] = Tail(todo[g])]
    BY <1>1, <1>4, Here
  <2> QED BY <1>2, <1>4, <2>1 DEF Shifts
<1>5. QED BY <1>3, <1>4

LEMMA StopEventShifts ==
  ASSUME TypeOK, ShapeInv, NEW g \in Goroutines, ProduceStopEvent(g)
  PROVE  /\ StopEvent \in Stops
         /\ \/ Kind(g) = "continue" /\ Shifts(g, HeldReport, HeldEvent(StopEvent))
            \/ Kind(g) \in {"next", "runner"} /\ Shifts(g, ToReport, ToSend(StopEvent))
<1>1. At(g, "stopEvent") /\ Instead(g, <<StopEvent>>)
  BY DEF ProduceStopEvent
<1>2. StopEvent \in Stops
  BY StopEventType DEF TypeOK
<1>3. \A e : <<e>> \o << >> = ToSend(e) /\ <<e>> \o HeldUnlock = HeldEvent(e)
  <2>1. ASSUME NEW e PROVE <<e>> \o << >> = <<e>>
    OBVIOUS
  <2>2. ASSUME NEW e PROVE <<e>> \o <<"unlock">> = <<e, "unlock">>
    <3>1. <<e>> \in Seq({e, "unlock"})
      OBVIOUS
    <3>2. <<e>> \o <<"unlock">> = Append(<<e>>, "unlock")
      BY <3>1, AppendIsConcat
    <3>3. <<e, "unlock">> \in Seq({e, "unlock"}) /\ Len(<<e>>) = 1 /\ Len(<<e, "unlock">>) = 2
      OBVIOUS
    <3>4. /\ Append(<<e>>, "unlock") \in Seq({e, "unlock"})
          /\ Len(Append(<<e>>, "unlock")) = 2
          /\ Append(<<e>>, "unlock")[1] = e /\ Append(<<e>>, "unlock")[2] = "unlock"
      BY <3>1, <3>3, AppendProperties
    <3>5. Append(<<e>>, "unlock") = <<e, "unlock">>
      <4>1. \A i \in 1 .. 2 : Append(<<e>>, "unlock")[i] = <<e, "unlock">>[i]
        BY <3>4
      <4> QED BY <3>3, <3>4, <4>1, SeqEqual
    <3> QED BY <3>2, <3>5
  <2> QED BY <2>1, <2>2 DEF ToSend, HeldUnlock, HeldEvent
<1>4. todo' = [todo EXCEPT ![g] = <<StopEvent>> \o Tail(todo[g])]
  BY <1>1, <1>2, Here, StopsAreMessages, MessagesAreSteps
<1>5. \/ Kind(g) = "continue" /\ todo[g] = HeldReport /\ Tail(todo[g]) = HeldUnlock
      \/ Kind(g) \in {"next", "runner"} /\ todo[g] = ToReport /\ Tail(todo[g]) = << >>
  BY <1>1, Here, Places
<1>6. QED BY <1>2, <1>3, <1>4, <1>5 DEF Shifts

LEMMA SendShifts ==
  ASSUME TypeOK, ShapeInv, NEW g \in Goroutines, NEW m \in Messages, Send(g, m),
         ~Panics("sendOnClosedSendQueue")
  PROVE  /\ outgoing = << >> /\ outgoing' = <<[from |-> g, type |-> m]>>
         /\ UNCHANGED <<requests, active, wire>>
         /\ \/ Kind(g) = "continue" /\ m = "response" /\ Shifts(g, OnContinue, Locking)
            \/ Kind(g) = "next" /\ m = "response" /\ Shifts(g, OnNext, ToStep)
            \/ Kind(g) = "launch" /\ m = "response" /\ Shifts(g, OnLaunchFailed, ToSpawnReport)
            \/ Kind(g) = "launch" /\ m = "response" /\ Shifts(g, ToRespond, << >>)
            \/ m \in Stops /\ Kind(g) = "continue" /\ Shifts(g, HeldEvent(m), HeldUnlock)
            \/ m \in Stops /\ Kind(g) \in {"next", "runner"} /\ Shifts(g, ToSend(m), << >>)
            \/ /\ m \notin Stops /\ Kind(g) \notin Commanding /\ Kind(g) # "none"
               /\ Tail(todo[g]) \in Seq(AsideSteps) /\ Shifts(g, todo[g], Tail(todo[g]))
<1>1. /\ At(g, m) /\ Goes(g)
      /\ outgoing = << >> /\ outgoing' = <<[from |-> g, type |-> m]>>
      /\ UNCHANGED <<requests, active, wire>>
  BY DEF Send
<1>2. todo' = [todo EXCEPT ![g] = Tail(todo[g])] /\ Head(todo[g]) = m
  BY <1>1, Here
<1>3. CASE m \in Stops
  BY <1>1, <1>2, <1>3, Here, Places DEF Shifts
<1>4. CASE m = "response"
  <2>1. m \notin Stops
    BY <1>4 DEF Stops
  <2>2. \/ Kind(g) = "continue" /\ todo[g] = OnContinue /\ Tail(todo[g]) = Locking
        \/ Kind(g) = "next" /\ todo[g] = OnNext /\ Tail(todo[g]) = ToStep
        \/ Kind(g) = "launch" /\ todo[g] = OnLaunchFailed /\ Tail(todo[g]) = ToSpawnReport
        \/ Kind(g) = "launch" /\ todo[g] = ToRespond /\ Tail(todo[g]) = << >>
        \/ Kind(g) \notin Commanding /\ Kind(g) # "none" /\ Tail(todo[g]) \in Seq(AsideSteps)
    BY <1>1, <1>4, Here, Places
  <2> QED BY <1>1, <1>2, <1>4, <2>1, <2>2 DEF Shifts
<1>5. CASE m \in {"initialized", "thread"}
  <2>1. m \notin Stops /\ m \in AsideSteps \ {"response"}
    BY <1>5 DEF Stops, AsideSteps
  <2> QED BY <1>1, <1>2, <2>1, Here, Places DEF Shifts
<1>6. QED BY <1>3, <1>4, <1>5 DEF Messages, Events, Stops

-----------------------------------------------------------------------------
(***************************************************************************)
(* The steps that leave the debuggee, the lock, the messages and what the  *)
(* commanding goroutines have left as they are.                            *)
(***************************************************************************)
commandVars == <<requests, machine, failed, busy, bpSetMux, terminateOnNextStep, outgoing, wire>>

Aside ==
  /\ UNCHANGED commandVars
  /\ \A g \in Goroutines : Kind(g) \in Commanding => todo'[g] = todo[g]

LEMMA PanicsAside ==
  ASSUME TypeOK, ShapeInv, NEW why, Breaks(why)
  PROVE  Aside /\ ShapeInv'
BY ShapesStay DEF Breaks, Panics, handlerVars, vars5, Aside, commandVars

\* A goroutine at such a step, other than a response, does not command.
LEMMA AsidePlaces ==
  ASSUME TypeOK, ShapeInv, NEW g \in Goroutines, NEW step \in AsideSteps \ {"response"},
         At(g, step)
  PROVE  /\ Kind(g) \notin Commanding /\ Kind(g) # "none"
         /\ g \in active /\ busy[g] = "idle" /\ Tail(todo[g]) \in Seq(AsideSteps)
<1>1. step # "return"
  BY DEF AsideSteps
<1>2. /\ todo[g] # << >> /\ Head(todo[g]) = step /\ todo[g] \in Rest(Kind(g))
      /\ g \in active /\ busy[g] = "idle"
  BY <1>1, Here
<1>3. Kind(g) \notin Commanding
  BY <1>2, Places
<1>4. QED BY <1>2, <1>3, Places

\* A goroutine that does not command takes a step.
LEMMA OneAside ==
  ASSUME TypeOK, ShapeInv, NEW g \in Goroutines, NEW step \in AsideSteps \ {"response"},
         At(g, step), NEW t \in Seq(AsideSteps), todo' = [todo EXCEPT ![g] = t],
         OnlyTodo, UNCHANGED <<machine, failed, busy, bpSetMux, terminateOnNextStep>>
  PROVE  Aside /\ ShapeInv'
<1>1. Kind(g) \notin Commanding /\ Kind(g) # "none" /\ g \in active /\ busy[g] = "idle"
  BY AsidePlaces
<1>2. t \in Rest(Kind(g)) /\ Kind(g) # "continue"
  BY <1>1 DEF Rest, Commanding
<1>3. \A h \in Goroutines : Kind(h) \in Commanding => todo'[h] = todo[h]
  BY <1>1 DEF TypeOK
<1>4. Aside
  BY <1>3 DEF Aside, commandVars, OnlyTodo
<1>5. ShapeInv'
  BY <1>1, <1>2, OneShifts DEF OnlyTodo
<1>6. QED BY <1>4, <1>5

LEMMA GoesAside ==
  ASSUME TypeOK, ShapeInv, NEW g \in Goroutines, NEW step \in AsideSteps \ {"response"},
         At(g, step), Goes(g),
         OnlyTodo, UNCHANGED <<machine, failed, busy, bpSetMux, terminateOnNextStep>>
  PROVE  Aside /\ ShapeInv'
<1>1. Kind(g) \notin Commanding
  BY Here, Places
<1>2. Tail(todo[g]) \in Seq(AsideSteps) /\ todo' = [todo EXCEPT ![g] = Tail(todo[g])]
  BY <1>1, Here, Places
<1>3. QED BY <1>2, OneAside

\* A poll ends the request, or takes the signal of another one.
LEMMA PollAside ==
  ASSUME TypeOK, ShapeInv, NEW g \in Goroutines, Poll(g)
  PROVE  Aside /\ ShapeInv'
<1>1. /\ At(g, "pollStopDebug") /\ OnlyTodo
      /\ UNCHANGED <<machine, failed, busy, bpSetMux, terminateOnNextStep>>
      /\ "pollStopDebug" \in AsideSteps \ {"response"}
      /\ "blockedOnStopDebug" \in AsideSteps \ {"response"}
  BY DEF Poll, handlerVars, AsideSteps
<1>2. << >> \in Seq(AsideSteps)
  BY EmptySeq
<1>3. CASE Goes(g)
  BY <1>1, <1>3, GoesAside
<1>4. CASE Returns(g)
  <2>1. todo' = [todo EXCEPT ![g] = << >>]
    BY <1>4 DEF Returns
  <2> QED BY <2>1, <1>1, <1>2, OneAside
<1>5. ASSUME NEW h \in Requests, At(h, "blockedOnStopDebug"),
             todo' = [todo EXCEPT ![g] = << >>, ![h] = Tail(@)]
      PROVE  Aside /\ ShapeInv'
  <2>1. h \in Goroutines /\ h # g
    BY <1>1, <1>5 DEF At, Goroutines
  <2>2. /\ Kind(g) \notin Commanding /\ Kind(g) # "none" /\ busy[g] = "idle"
        /\ Kind(h) \notin Commanding /\ Kind(h) # "none" /\ busy[h] = "idle"
        /\ Tail(todo[h]) \in Seq(AsideSteps) /\ h \in active
    BY <1>1, <1>5, <2>1, AsidePlaces
  <2>3. /\ todo'[g] = << >> /\ todo'[h] = Tail(todo[h])
        /\ \A i \in Goroutines \ {g, h} : todo'[i] = todo[i]
    BY <1>5, <2>1 DEF TypeOK
  <2>4. << >> \in Rest(Kind(g)) /\ Tail(todo[h]) \in Rest(Kind(h))
    BY <2>2, <1>2 DEF Rest, Commanding
  <2>5. Kind(g) # "continue" /\ Kind(h) # "continue"
    BY <2>2 DEF Commanding
  <2>6. UNCHANGED <<requests, active, busy, bpSetMux>> /\ \A i : Kind(i)' = Kind(i)
    BY <1>1, KindStays DEF OnlyTodo
  <2>7. ShapeOf(g)' /\ ShapeOf(h)'
    BY <2>2, <2>3, <2>4, <2>5, <2>6 DEF ShapeOf
  <2>8. ASSUME NEW i \in Goroutines \ {g, h} PROVE ShapeOf(i)'
    BY <2>3, <2>6 DEF ShapeInv, ShapeOf
  <2>9. ShapeInv'
    BY <2>7, <2>8 DEF ShapeInv
  <2>10. Aside
    BY <1>1, <2>2, <2>3 DEF Aside, commandVars, OnlyTodo
  <2> QED BY <2>9, <2>10
<1>6. QED BY <1>3, <1>4, <1>5 DEF Poll

LEMMA AsideShapes ==
  ASSUME TypeOK, ShapeInv, NEW g \in Goroutines,
         \/ SetSource(g) \/ CollectFrames(g) \/ ReadFrame(g) \/ ReadErrors(g)
         \/ Block(g) \/ SignalClosed(g) \/ Poll(g) \/ Crash(g)
         \/ (Finish(g) \/ FatalRequest(g)) /\ UNCHANGED handlerVars
  PROVE  Aside /\ ShapeInv'
<1> DEFINE P == Aside /\ ShapeInv'
           leaves == <<machine, failed, busy, bpSetMux, terminateOnNextStep>>
<1>1. {"setSource", "collectFrames", "readFrame", "readErrors", "signalStopDebug"}
        \subseteq AsideSteps \ {"response"}
  BY DEF AsideSteps
<1>2. ASSUME SetSource(g) PROVE P
  <2>1. At(g, "setSource") /\ Goes(g) /\ OnlyTodo /\ UNCHANGED leaves
    BY <1>2 DEF SetSource
  <2> QED BY <1>1, <2>1, GoesAside
<1>3. ASSUME CollectFrames(g) PROVE P
  <2>1. CASE Breaks("noErrors") \/ Breaks("program")
    BY <2>1, PanicsAside
  <2>2. CASE ~(Breaks("noErrors") \/ Breaks("program"))
    <3>1. At(g, "collectFrames") /\ Goes(g) /\ OnlyTodo /\ UNCHANGED leaves
      BY <1>3, <2>2 DEF CollectFrames
    <3> QED BY <1>1, <3>1, GoesAside
  <2> QED BY <2>1, <2>2
<1>4. ASSUME ReadFrame(g) PROVE P
  <2>1. CASE Breaks("noFrame")
    BY <2>1, PanicsAside
  <2>2. CASE ~Breaks("noFrame")
    <3>1. At(g, "readFrame") /\ Goes(g) /\ OnlyTodo /\ UNCHANGED leaves
      BY <1>4, <2>2 DEF ReadFrame, handlerVars
    <3> QED BY <1>1, <3>1, GoesAside
  <2> QED BY <2>1, <2>2
<1>5. ASSUME ReadErrors(g) PROVE P
  <2>1. CASE Breaks("noErrors")
    BY <2>1, PanicsAside
  <2>2. CASE ~Breaks("noErrors")
    <3>1. At(g, "readErrors") /\ Goes(g) /\ OnlyTodo /\ UNCHANGED leaves
      BY <1>5, <2>2 DEF ReadErrors, handlerVars
    <3> QED BY <1>1, <3>1, GoesAside
  <2> QED BY <2>1, <2>2
<1>6. ASSUME Block(g) PROVE P
  <2>1. /\ At(g, "signalStopDebug") /\ Instead(g, <<"blockedOnStopDebug">>)
        /\ OnlyTodo /\ UNCHANGED leaves
    BY <1>6 DEF Block, handlerVars
  <2>2. <<"blockedOnStopDebug">> \in Seq(Steps) /\ <<"blockedOnStopDebug">> \in Seq(AsideSteps)
    BY DEF Steps, AsideSteps
  <2>3. todo' = [todo EXCEPT ![g] = <<"blockedOnStopDebug">> \o Tail(todo[g])]
    BY <2>1, <2>2, Here
  <2>4. Kind(g) \notin Commanding
    BY <1>1, <2>1, Here, Places
  <2>5. Tail(todo[g]) \in Seq(AsideSteps)
    BY <2>1, <2>4, Here, Places
  <2>6. <<"blockedOnStopDebug">> \o Tail(todo[g]) \in Seq(AsideSteps)
    BY <2>2, <2>5, ConcatProperties
  <2> QED BY <1>1, <2>1, <2>3, <2>6, OneAside
<1>7. ASSUME SignalClosed(g) PROVE P
  BY <1>7, PanicsAside DEF SignalClosed
<1>8. ASSUME Crash(g) PROVE P
  <2>1. UNCHANGED <<commandVars, active, todo>>
    BY <1>8 DEF Crash, Target!Dies, OnlyTodo, commandVars
  <2> QED BY <2>1, ShapesStay DEF Aside, commandVars, vars5
<1>9. ASSUME Finish(g) \/ FatalRequest(g), UNCHANGED handlerVars PROVE P
  <2>1. /\ UNCHANGED <<commandVars, todo>>
        /\ active' = active \/ (todo[g] = << >> /\ active' = active \ {g})
    <3>1. CASE Finish(g)
      BY <1>9, <3>1 DEF Finish, handlerVars, commandVars
    <3>2. CASE FatalRequest(g)
      BY <1>9, <3>2 DEF FatalRequest, handlerVars, commandVars
    <3> QED BY <1>9, <3>1, <3>2
  <2>2. \A h : Kind(h)' = Kind(h)
    BY <2>1, KindStays DEF commandVars
  <2>3. ASSUME NEW h \in Goroutines PROVE ShapeOf(h)'
    <3>1. todo'[h] # << >> => h \in active'
      BY <2>1 DEF ShapeInv, ShapeOf
    <3> QED BY <2>1, <2>2, <3>1 DEF ShapeInv, ShapeOf, commandVars
  <2> QED BY <2>1, <2>3 DEF ShapeInv, Aside
<1>10. QED BY <1>2, <1>3, <1>4, <1>5, <1>6, <1>7, <1>8, <1>9, PollAside

-----------------------------------------------------------------------------
(***************************************************************************)
(* The steps of the commanding goroutines.                                 *)
(***************************************************************************)

LEMMA RespondDiffers == ToRespond \notin Unspawned /\ << >> \notin Unspawned
<1>1. Len(ToRespond) = 1 /\ Len(OnLaunch) = 2 /\ Len(OnLaunchStarted) = 2
        /\ Len(OnLaunchFailed) = 2
  BY DEF ToRespond, OnLaunch, OnLaunchStarted, OnLaunchFailed
<1>2. ToRespond # ToStart /\ ToRespond # ToSpawnReport
  BY HeadOfOthers
<1>3. << >> \notin Unspawned
  BY ShapesDiffer DEF Unspawned
<1>4. QED BY <1>1, <1>2, <1>3 DEF Unspawned

LEMMA LaunchStays ==
  ASSUME LaunchInv, UNCHANGED requests,
         todo[Runner] = << >> => todo'[Runner] = << >>,
         \A g \in Goroutines :
           Kind(g) = "launch" /\ todo[g] \notin Unspawned => todo'[g] \notin Unspawned
  PROVE  LaunchInv'
<1>1. \A g : Kind(g)' = Kind(g)
  BY KindStays
<1>2. Spawned => Spawned'
  BY <1>1 DEF Spawned
<1>3. QED BY <1>1, <1>2 DEF LaunchInv

LEMMA LaunchShifts ==
  ASSUME TypeOK, LaunchInv, NEW g \in Goroutines, NEW s, NEW t, Shifts(g, s, t), s # << >>,
         UNCHANGED requests, Kind(g) = "launch" => s \in Unspawned \/ t = << >>
  PROVE  LaunchInv'
<1>1. /\ todo[g] = s /\ todo'[g] = t
      /\ \A h \in Goroutines \ {g} : todo'[h] = todo[h]
  BY DEF Shifts, TypeOK
<1>2. Runner \in Goroutines
  BY DEF Goroutines
<1>3. QED BY <1>1, <1>2, RespondDiffers, LaunchStays

LEMMA AsideLaunch ==
  ASSUME TypeOK, LaunchInv, Aside
  PROVE  LaunchInv'
<1>1. Runner \in Goroutines /\ Kind(Runner) = "runner"
  BY DEF Goroutines, Kind
<1>2. QED BY <1>1, LaunchStays DEF Aside, Commanding, commandVars

\* One of them goes on without taking or leaving the lock, or a command.
LEMMA CommandShifts ==
  ASSUME TypeOK, ShapeInv, NEW g \in Goroutines, NEW s, NEW t \in Rest(Kind(g)), Shifts(g, s, t),
         s # << >>, busy[g] = "idle", Kind(g) = "continue" => t \notin Held \/ s \in Held,
         UNCHANGED <<requests, active, busy, bpSetMux>>
  PROVE  ShapeInv'
<1>1. /\ todo[g] = s /\ todo' = [todo EXCEPT ![g] = t] /\ g \in active
      /\ Kind(g) = "continue" /\ t \in Held => bpSetMux = {g}
  BY DEF Shifts, ShapeInv, ShapeOf
<1>2. QED BY <1>1, OneShifts

LEMMA LockShapes ==
  ASSUME TypeOK, ShapeInv, NEW g \in Goroutines, Lock(g) \/ Unlock(g)
  PROVE  ShapeInv'
<1>1. UNCHANGED <<requests, active, busy>> /\ \A h : Kind(h)' = Kind(h)
  BY KindStays DEF Lock, Unlock, OnlyTodo
<1>2. ASSUME NEW s, NEW t \in Rest("continue"), Kind(g) = "continue", Shifts(g, s, t),
             s \in {Locking, HeldUnlock}, t \in Held => bpSetMux' = {g},
             \A h \in Goroutines \ {g} : Kind(h) = "continue" => todo[h] \notin Held
      PROVE  ShapeInv'
  <2>1. /\ todo[g] = s /\ todo'[g] = t /\ \A h \in Goroutines \ {g} : todo'[h] = todo[h]
    BY <1>2 DEF TypeOK, Shifts
  <2>2. Head(s) \in {"lock", "unlock"} /\ s # << >>
    BY <1>2, HeadOfContinue, ShapesDiffer DEF Held
  <2>3. busy[g] = "idle" /\ g \in active
    BY <2>1, <2>2, AwayFromReturn DEF ShapeInv, ShapeOf
  <2>4. ShapeOf(g)'
    BY <1>1, <1>2, <2>1, <2>3 DEF ShapeOf
  <2>5. ASSUME NEW h \in Goroutines \ {g} PROVE ShapeOf(h)'
    BY <1>1, <1>2, <2>1 DEF ShapeInv, ShapeOf
  <2> QED BY <2>4, <2>5 DEF ShapeInv
<1>3. CASE Lock(g)
  <2>1. bpSetMux = {} /\ bpSetMux' = {g} /\ Kind(g) = "continue" /\ Shifts(g, Locking, HeldRun)
    BY <1>3, LockShifts DEF Lock
  <2>2. \A h \in Goroutines \ {g} : Kind(h) = "continue" => todo[h] \notin Held
    BY <2>1 DEF ShapeInv, ShapeOf
  <2>3. HeldRun \in Rest("continue")
    BY RestIsClosed DEF Held
  <2> QED BY <2>1, <2>2, <2>3, <1>2
<1>4. CASE Unlock(g)
  <2>1. Kind(g) = "continue" /\ Shifts(g, HeldUnlock, << >>)
    BY <1>4, LockShifts
  <2>2. HeldUnlock \in Held /\ << >> \notin Held /\ << >> \in Rest("continue")
    BY HeldDiffers, RestIsClosed DEF Held
  <2>3. \A h \in Goroutines \ {g} : Kind(h) = "continue" => todo[h] \notin Held
    BY <2>1, <2>2 DEF ShapeInv, ShapeOf, Shifts
  <2> QED BY <2>1, <2>2, <2>3, <1>2
<1>5. QED BY <1>3, <1>4

LEMMA BeginShapes ==
  ASSUME TypeOK, ShapeInv, NEW g \in Goroutines, NEW command \in {"run", "step"},
         Begin(g, command), ~Breaks("noMachine")
  PROVE  ShapeInv'
<1>1. /\ UNCHANGED <<requests, active, bpSetMux>> /\ \A h : Kind(h)' = Kind(h)
      /\ busy' = [busy EXCEPT ![g] = command] /\ g \in active
  <2>1. At(g, command) /\ OnlyTodo /\ UNCHANGED bpSetMux
    BY DEF Begin
  <2> QED BY <2>1, KindStays, BeginShifts, Here DEF OnlyTodo
<1>2. \/ Kind(g) = "continue" /\ command = "run" /\ Shifts(g, HeldRun, HeldReturn)
      \/ Kind(g) = "runner" /\ command = "run" /\ Shifts(g, LaunchRun, ToReturn)
      \/ Kind(g) = "next" /\ command = "step" /\ Shifts(g, ToStep, ToReturn)
  BY BeginShifts
<1>3. /\ busy'[g] = command
      /\ \A h \in Goroutines \ {g} : busy'[h] = busy[h] /\ todo'[h] = todo[h]
  BY <1>1, <1>2 DEF TypeOK, Shifts
<1>4. HeldRun \in Held /\ HeldReturn \in Held /\ Held \subseteq Rest("continue")
        /\ ToReturn \in Rest("next") /\ ToReturn \in Rest("runner")
  BY RestIsClosed DEF Held
<1>5. ShapeOf(g)'
  <2>1. CASE Kind(g) = "continue" /\ command = "run" /\ Shifts(g, HeldRun, HeldReturn)
    <3>1. todo[g] = HeldRun /\ todo'[g] = HeldReturn
      BY <2>1 DEF Shifts, TypeOK
    <3>2. bpSetMux' = {g}
      BY <2>1, <3>1, <1>1, <1>4 DEF ShapeInv, ShapeOf
    <3> QED BY <2>1, <3>1, <3>2, <1>1, <1>3, <1>4 DEF ShapeOf
  <2>2. CASE Kind(g) \in {"runner", "next"} /\ todo'[g] = ToReturn
                /\ (command = "run" => Kind(g) = "runner")
    BY <2>2, <1>1, <1>3, <1>4 DEF ShapeOf
  <2>3. Shifts(g, LaunchRun, ToReturn) \/ Shifts(g, ToStep, ToReturn) => todo'[g] = ToReturn
    BY DEF Shifts, TypeOK
  <2> QED BY <2>1, <2>2, <2>3, <1>2
<1>6. ASSUME NEW h \in Goroutines \ {g} PROVE ShapeOf(h)'
  BY <1>1, <1>3 DEF ShapeInv, ShapeOf
<1>7. QED BY <1>5, <1>6 DEF ShapeInv

LEMMA ReturnShapes ==
  ASSUME TypeOK, ShapeInv, NEW g \in Goroutines, Return(g)
  PROVE  ShapeInv'
<1>1. /\ UNCHANGED <<requests, active, bpSetMux>> /\ \A h : Kind(h)' = Kind(h)
      /\ busy' = [busy EXCEPT ![g] = "idle"] /\ g \in active
  <2>1. At(g, "return") /\ OnlyTodo /\ UNCHANGED bpSetMux
    BY DEF Return
  <2> QED BY <2>1, KindStays, ReturnShifts, Here DEF OnlyTodo
<1>2. \/ Kind(g) = "continue" /\ Shifts(g, HeldReturn, HeldCheck)
      \/ Kind(g) \in {"next", "runner"} /\ Shifts(g, ToReturn, LaunchReport)
  BY ReturnShifts
<1>3. /\ busy'[g] = "idle"
      /\ \A h \in Goroutines \ {g} : busy'[h] = busy[h] /\ todo'[h] = todo[h]
  BY <1>1, <1>2 DEF TypeOK, Shifts
<1>4. HeldReturn \in Held /\ HeldCheck \in Held /\ Held \subseteq Rest("continue")
        /\ LaunchReport \in Rest("next") /\ LaunchReport \in Rest("runner")
  BY RestIsClosed DEF Held
<1>5. ShapeOf(g)'
  <2>1. CASE Kind(g) = "continue" /\ Shifts(g, HeldReturn, HeldCheck)
    <3>1. todo[g] = HeldReturn /\ todo'[g] = HeldCheck
      BY <2>1 DEF Shifts, TypeOK
    <3>2. bpSetMux' = {g}
      BY <2>1, <3>1, <1>1, <1>4 DEF ShapeInv, ShapeOf
    <3> QED BY <2>1, <3>1, <3>2, <1>1, <1>3, <1>4 DEF ShapeOf
  <2>2. CASE Kind(g) \in {"next", "runner"} /\ Shifts(g, ToReturn, LaunchReport)
    <3>1. todo'[g] = LaunchReport
      BY <2>2 DEF Shifts, TypeOK
    <3> QED BY <2>2, <3>1, <1>1, <1>3, <1>4 DEF ShapeOf
  <2> QED BY <2>1, <2>2, <1>2
<1>6. ASSUME NEW h \in Goroutines \ {g} PROVE ShapeOf(h)'
  BY <1>1, <1>3 DEF ShapeInv, ShapeOf
<1>7. QED BY <1>5, <1>6 DEF ShapeInv

\* What a launch leaves behind is the runner's, who has nothing left then.
LEMMA SpawnShapes ==
  ASSUME TypeOK, ShapeInv, LaunchInv, NEW g \in Goroutines,
         Spawn(g, "spawnRun", LaunchRun) \/ Spawn(g, "spawnReport", LaunchReport)
  PROVE  ShapeInv' /\ LaunchInv'
<1>1. PICK t \in {ToRespond, << >>}, u \in {LaunchRun, LaunchReport} :
        /\ Kind(g) = "launch" /\ g # Runner
        /\ todo' = [todo EXCEPT ![g] = t, ![Runner] = u]
  BY SpawnShifts
<1>2. /\ active' = active \cup {Runner} /\ g \in active
      /\ UNCHANGED <<requests, busy, bpSetMux>> /\ \A h : Kind(h)' = Kind(h)
      /\ busy[g] = "idle"
  <2>1. At(g, "spawnRun") \/ At(g, "spawnReport")
    BY DEF Spawn
  <2> QED BY <2>1, KindStays, Here DEF Spawn, handlerVars
<1>3. Runner \in Goroutines /\ Kind(Runner) = "runner"
  BY DEF Goroutines, Kind
<1>4. /\ todo'[g] = t /\ todo'[Runner] = u
      /\ \A h \in Goroutines \ {g, Runner} : todo'[h] = todo[h]
  BY <1>1, <1>3 DEF TypeOK
<1>5. t \in Rest("launch") /\ u \in Rest("runner") /\ t \notin Unspawned
  <2>1. t \in Rest("launch") /\ u \in Rest("runner")
    BY RestIsClosed DEF LaunchRest
  <2>2. t \notin Unspawned
    BY RespondDiffers
  <2> QED BY <2>1, <2>2
<1>6. busy[Runner] = "idle"
  <2>1. todo[g] \in Unspawned
    BY SpawnShifts DEF Unspawned
  <2>2. todo[Runner] = << >>
    BY <1>1, <2>1 DEF LaunchInv, Spawned
  <2>3. << >> \notin {HeldReturn, ToReturn}
    BY ShapesDiffer DEF Held
  <2> QED BY <1>3, <2>2, <2>3 DEF ShapeInv, ShapeOf
<1>7. ShapeOf(g)' /\ ShapeOf(Runner)'
  BY <1>1, <1>2, <1>3, <1>4, <1>5, <1>6 DEF ShapeOf
<1>8. ASSUME NEW h \in Goroutines \ {g, Runner} PROVE ShapeOf(h)'
  BY <1>2, <1>4 DEF ShapeInv, ShapeOf
<1>9. LaunchInv'
  BY <1>1, <1>2, <1>4, <1>5 DEF LaunchInv, Spawned
<1>10. QED BY <1>7, <1>8, <1>9 DEF ShapeInv

\* What a goroutine that shifts is not: running a command, unless it returns.
LEMMA ShiftingIsIdle ==
  ASSUME TypeOK, ShapeInv, NEW g \in Goroutines, NEW step, At(g, step), step # "return"
  PROVE  busy[g] = "idle"
BY Here

LEMMA LaunchShapes ==
  ASSUME TypeOK, ShapeInv, LaunchInv, NEW g \in Goroutines, ReadSource(g) \/ StartMachine(g)
  PROVE  ShapeInv' /\ LaunchInv'
<1>1. CASE Breaks(Unread)
  BY <1>1, PanicsAside, AsideLaunch
<1>2. CASE ~Breaks(Unread)
  <2>1. UNCHANGED <<requests, active, busy, bpSetMux>> /\ busy[g] = "idle"
    <3>1. CASE ReadSource(g)
      <4>1. At(g, "readSource") /\ OnlyTodo /\ UNCHANGED handlerVars
        BY <1>2, <3>1 DEF ReadSource
      <4> QED BY <4>1, ShiftingIsIdle DEF OnlyTodo, handlerVars
    <3>2. CASE StartMachine(g)
      <4>1. At(g, "startMachine") /\ OnlyTodo /\ busy' = busy /\ UNCHANGED bpSetMux
        BY <3>2, StartMachineShifts DEF StartMachine
      <4> QED BY <4>1, ShiftingIsIdle DEF OnlyTodo
    <3> QED BY <3>1, <3>2
  <2>2. PICK s \in {OnLaunch, ToStart}, t \in {ToStart, OnLaunchStarted, OnLaunchFailed} :
          Kind(g) = "launch" /\ Shifts(g, s, t)
    BY <1>2, ReadSourceShifts, StartMachineShifts
  <2>3. s # << >> /\ t \in Rest("launch") /\ s \in Unspawned
    BY ShapesDiffer, RestIsClosed DEF LaunchRest, Unspawned
  <2> QED BY <2>1, <2>2, <2>3, CommandShifts, LaunchShifts
<1>3. QED BY <1>1, <1>2

\* The steps after a command has returned.
LEMMA ReportShapes ==
  ASSUME TypeOK, ShapeInv, LaunchInv, NEW g \in Goroutines, IsOff(g) \/ ProduceStopEvent(g)
  PROVE  ShapeInv' /\ LaunchInv'
<1>1. UNCHANGED <<requests, active, busy, bpSetMux>> /\ busy[g] = "idle"
  <2>1. At(g, "isOff") \/ At(g, "stopEvent")
    BY DEF IsOff, ProduceStopEvent
  <2>2. OnlyTodo /\ UNCHANGED <<busy, bpSetMux>>
    BY DEF IsOff, ProduceStopEvent, handlerVars
  <2> QED BY <2>1, <2>2, ShiftingIsIdle DEF OnlyTodo
<1>2. \/ /\ Kind(g) = "continue"
         /\ \E s \in {HeldCheck, HeldReport}, t \in {HeldReport, << >>}
                       \cup {HeldEvent(e) : e \in Stops} : Shifts(g, s, t)
      \/ /\ Kind(g) \in {"next", "runner"}
         /\ \E s \in {LaunchReport, ToReport}, t \in {ToReport, << >>}
                       \cup {ToSend(e) : e \in Stops} : Shifts(g, s, t)
  BY IsOffShifts, StopEventShifts
<1>3. CASE Kind(g) = "continue"
  <2>1. PICK s \in {HeldCheck, HeldReport},
             t \in {HeldReport, << >>} \cup {HeldEvent(e) : e \in Stops} : Shifts(g, s, t)
    BY <1>2, <1>3
  <2>2. s \in Held /\ s # << >> /\ t \in Rest("continue")
    BY ShapesDiffer, RestIsClosed DEF Held
  <2> QED BY <1>1, <1>3, <2>1, <2>2, CommandShifts, LaunchShifts
<1>4. CASE Kind(g) \in {"next", "runner"}
  <2>1. PICK s \in {LaunchReport, ToReport},
             t \in {ToReport, << >>} \cup {ToSend(e) : e \in Stops} : Shifts(g, s, t)
    BY <1>2, <1>4
  <2>2. s # << >> /\ t \in Rest(Kind(g))
    BY <1>4, ShapesDiffer, RestIsClosed
  <2> QED BY <1>1, <1>4, <2>1, <2>2, CommandShifts, LaunchShifts
<1>5. QED BY <1>2, <1>3, <1>4

LEMMA SendShapes ==
  ASSUME TypeOK, ShapeInv, LaunchInv, NEW g \in Goroutines, NEW m \in Messages,
         Send(g, m), UNCHANGED handlerVars
  PROVE  ShapeInv' /\ LaunchInv'
<1>1. CASE Panics("sendOnClosedSendQueue")
  BY <1>1, PanicsAside, AsideLaunch DEF Breaks
<1>2. CASE ~Panics("sendOnClosedSendQueue")
  <2>1. UNCHANGED <<requests, active, busy, bpSetMux>>
    BY <1>2, SendShifts DEF handlerVars
  <2>2. busy[g] = "idle" /\ todo[g] # << >>
    <3>1. At(g, m) /\ m # "return"
      BY DEF Send, Messages, Events
    <3> QED BY <3>1, Here
  <2>3. /\ Kind(g) = "continue" /\ Shifts(g, OnContinue, Locking) => ShapeInv' /\ LaunchInv'
        /\ Kind(g) = "next" /\ Shifts(g, OnNext, ToStep) => ShapeInv' /\ LaunchInv'
        /\ Kind(g) = "launch" /\ Shifts(g, OnLaunchFailed, ToSpawnReport) => ShapeInv' /\ LaunchInv'
        /\ Kind(g) = "launch" /\ Shifts(g, ToRespond, << >>) => ShapeInv' /\ LaunchInv'
    <3>1. /\ OnContinue # << >> /\ OnNext # << >> /\ OnLaunchFailed # << >> /\ ToRespond # << >>
          /\ Locking \in Rest("continue") /\ Locking \notin Held /\ ToStep \in Rest("next")
          /\ ToSpawnReport \in Rest("launch") /\ << >> \in Rest("launch")
          /\ OnLaunchFailed \in Unspawned
      BY ShapesDiffer, RestIsClosed, HeldDiffers DEF LaunchRest, Unspawned
    <3> QED BY <2>1, <2>2, <3>1, CommandShifts, LaunchShifts
  <2>4. ASSUME m \in Stops, Kind(g) = "continue", Shifts(g, HeldEvent(m), HeldUnlock)
        PROVE  ShapeInv' /\ LaunchInv'
    <3>1. HeldEvent(m) # << >> /\ HeldEvent(m) \in Held /\ HeldUnlock \in Rest("continue")
      BY <2>4, ShapesDiffer, RestIsClosed DEF Held
    <3> QED BY <2>1, <2>2, <2>4, <3>1, CommandShifts, LaunchShifts
  <2>5. ASSUME m \in Stops, Kind(g) \in {"next", "runner"}, Shifts(g, ToSend(m), << >>)
        PROVE  ShapeInv' /\ LaunchInv'
    <3>1. ToSend(m) # << >> /\ << >> \in Rest(Kind(g))
      BY ShapesDiffer, RestIsClosed
    <3> QED BY <2>1, <2>2, <2>5, <3>1, CommandShifts, LaunchShifts
  <2>6. ASSUME Kind(g) \notin Commanding, Kind(g) # "none", Tail(todo[g]) \in Seq(AsideSteps),
               Shifts(g, todo[g], Tail(todo[g]))
        PROVE  ShapeInv' /\ LaunchInv'
    <3>1. Tail(todo[g]) \in Rest(Kind(g)) /\ Kind(g) \notin {"continue", "launch"}
      BY <2>6 DEF Rest, Commanding
    <3> QED BY <2>1, <2>2, <2>6, <3>1, CommandShifts, LaunchShifts
  <2> QED BY <1>2, <2>3, <2>4, <2>5, <2>6, SendShifts
<1>3. QED BY <1>1, <1>2

LEMMA GoroutineShapes ==
  ASSUME TypeOK, ShapeInv, LaunchInv, NEW g \in Goroutines, Goroutine(g)
  PROVE  ShapeInv' /\ LaunchInv'
<1>1. ASSUME \/ SetSource(g) \/ CollectFrames(g) \/ ReadFrame(g) \/ ReadErrors(g)
             \/ Block(g) \/ SignalClosed(g) \/ Poll(g) \/ Crash(g)
             \/ (Finish(g) \/ FatalRequest(g)) /\ UNCHANGED handlerVars
      PROVE  ShapeInv' /\ LaunchInv'
  BY <1>1, AsideShapes, AsideLaunch
<1>2. ASSUME Lock(g) \/ Unlock(g) PROVE ShapeInv' /\ LaunchInv'
  <2>1. PICK s, t : s \in {Locking, HeldUnlock} /\ Kind(g) = "continue" /\ Shifts(g, s, t)
    BY <1>2, LockShifts
  <2>2. s # << >> /\ UNCHANGED requests
    BY <1>2, <2>1, ShapesDiffer DEF Held, Lock, Unlock, OnlyTodo
  <2> QED BY <1>2, <2>1, <2>2, LockShapes, LaunchShifts
<1>3. ASSUME NEW command \in {"run", "step"}, Begin(g, command) PROVE ShapeInv' /\ LaunchInv'
  <2>1. CASE Breaks("noMachine")
    BY <2>1, PanicsAside, AsideLaunch
  <2>2. CASE ~Breaks("noMachine")
    <3>1. PICK s, t :
            s \in {HeldRun, LaunchRun, ToStep} /\ Kind(g) # "launch" /\ Shifts(g, s, t)
      BY <1>3, <2>2, BeginShifts
    <3>2. s # << >> /\ UNCHANGED requests
      BY <1>3, <2>2, <3>1, ShapesDiffer DEF Held, Begin, OnlyTodo
    <3> QED BY <1>3, <2>2, <3>1, <3>2, BeginShapes, LaunchShifts
  <2> QED BY <2>1, <2>2
<1>4. ASSUME Return(g) PROVE ShapeInv' /\ LaunchInv'
  <2>1. PICK s, t : s \in {HeldReturn, ToReturn} /\ Kind(g) # "launch" /\ Shifts(g, s, t)
    BY <1>4, ReturnShifts
  <2>2. s # << >> /\ UNCHANGED requests
    BY <1>4, <2>1, ShapesDiffer DEF Held, Return, OnlyTodo
  <2> QED BY <1>4, <2>1, <2>2, ReturnShapes, LaunchShifts
<1>5. ASSUME Continues(g) PROVE ShapeInv' /\ LaunchInv'
  <2>1. UNCHANGED vars5
    BY <1>5 DEF Continues, Target!Continues, OnlyTodo, vars5
  <2> QED BY <2>1, ShapesStay, LaunchStays DEF vars5
<1>6. QED
  BY <1>1, <1>2, <1>3, <1>4, <1>5, LaunchShapes, SpawnShapes, ReportShapes, SendShapes
  DEF Goroutine

-----------------------------------------------------------------------------
(***************************************************************************)
(* A request that is read, whose goroutine is new.                         *)
(***************************************************************************)
LEMMA AskedKind ==
  ASSUME TypeOK, NEW kind \in Kinds \ {"hangup", "garbage"}, NEW frame \in 1 .. MaxDepth,
         HandleRequest([kind |-> kind, frame |-> frame], Handler[kind]),
         NEW g, g = Len(requests) + 1
  PROVE  /\ g \in Requests /\ g \in Goroutines /\ g # Runner
         /\ Kind(g) = "none" /\ Kind(g)' = kind
         /\ \A h \in Goroutines \ {g} : Kind(h)' = Kind(h) /\ todo'[h] = todo[h]
         /\ todo'[g] = Handler[kind] /\ active' = active \cup {g}
         /\ requests' = Append(requests, [kind |-> kind, frame |-> frame])
         /\ UNCHANGED <<outgoing, wire, panic>>
<1> DEFINE request == [kind |-> kind, frame |-> frame]
<1>1. /\ g \in Requests
      /\ requests' = Append(requests, request)
      /\ active' = active \cup {g}
      /\ todo' = [todo EXCEPT ![g] = Handler[kind]]
      /\ UNCHANGED <<outgoing, wire, panic>>
  BY DEF HandleRequest
<1>2. g \in Goroutines /\ g # Runner
  BY <1>1, SessionAssumption DEF Goroutines, Requests, Runner
<1>3. /\ requests \in Seq([kind : Kinds, frame : 1 .. MaxDepth])
      /\ request \in [kind : Kinds, frame : 1 .. MaxDepth]
  BY DEF TypeOK
<1>4. DOMAIN requests = 1 .. Len(requests) /\ Len(requests) \in Nat
  BY <1>3, LenProperties
<1>5. /\ requests' \in Seq([kind : Kinds, frame : 1 .. MaxDepth]) /\ Len(requests') = g
      /\ \A i \in 1 .. Len(requests) : requests'[i] = requests[i]
      /\ requests'[g] = request
  BY <1>1, <1>3, AppendProperties
<1>6. DOMAIN requests' = 1 .. g
  BY <1>5, LenProperties
<1>7. g \notin DOMAIN requests /\ g \in DOMAIN requests'
        /\ \A h : h # g => (h \in DOMAIN requests <=> h \in DOMAIN requests')
  BY <1>4, <1>6
<1>8. Kind(g) = "none" /\ Kind(g)' = kind
  BY <1>2, <1>5, <1>7 DEF Kind
<1>9. \A h \in Goroutines \ {g} : Kind(h)' = Kind(h) /\ todo'[h] = todo[h]
  BY <1>1, <1>4, <1>5, <1>7 DEF Kind, TypeOK
<1>10. todo'[g] = Handler[kind]
  BY <1>1, <1>2 DEF TypeOK
<1>11. QED BY <1>1, <1>2, <1>8, <1>9, <1>10

LEMMA AskShapes ==
  ASSUME TypeOK, ShapeInv, LaunchInv, Ask
  PROVE  ShapeInv' /\ LaunchInv'
<1>1. PICK kind \in Kinds \ {"hangup", "garbage"}, frame \in 1 .. MaxDepth :
        /\ kind = "launch" => ~Asked({"launch"})
        /\ HandleRequest([kind |-> kind, frame |-> frame], Handler[kind])
  BY DEF Ask
<1> PICK g : g = Len(requests) + 1
  OBVIOUS
<1>2. /\ g \in Goroutines /\ g # Runner
      /\ Kind(g) = "none" /\ Kind(g)' = kind
      /\ \A h \in Goroutines \ {g} : Kind(h)' = Kind(h) /\ todo'[h] = todo[h]
      /\ todo'[g] = Handler[kind] /\ active' = active \cup {g}
  BY <1>1, AskedKind
<1>3. UNCHANGED <<busy, bpSetMux>>
  BY DEF Ask, handlerVars
<1>4. todo[g] = << >> /\ busy[g] = "idle"
  <2>1. todo[g] = << >>
    BY <1>2 DEF ShapeInv, ShapeOf, Rest
  <2>2. << >> \notin {HeldReturn, ToReturn}
    BY ShapesDiffer DEF Held
  <2> QED BY <1>2, <2>1, <2>2 DEF ShapeInv, ShapeOf
<1>5. ShapeOf(g)'
  <2>1. Handler[kind] \in Rest(kind)
    BY HandlersAreShapes
  <2>2. kind = "continue" => Handler[kind] \notin Held
    BY HeldDiffers DEF Handler
  <2> QED BY <1>2, <1>3, <1>4, <2>1, <2>2 DEF ShapeOf
<1>6. ASSUME NEW h \in Goroutines \ {g} PROVE ShapeOf(h)'
  BY <1>2, <1>3 DEF ShapeInv, ShapeOf
<1>7. Spawned => Spawned'
  BY <1>2 DEF Spawned
<1>8. ASSUME NEW h \in Goroutines, NEW i \in Goroutines, Kind(h)' = "launch", Kind(i)' = "launch"
      PROVE  h = i
  <2>1. \A j \in Goroutines \ {g} : Kind(j) = "launch" => kind # "launch"
    BY <1>1, KindType DEF Asked
  <2> QED BY <1>2, <1>8, <2>1 DEF LaunchInv
<1>9. LaunchInv'
  <2>1. todo'[Runner] = todo[Runner]
    BY <1>2 DEF Goroutines
  <2> QED BY <2>1, <1>7, <1>8 DEF LaunchInv
<1>10. QED BY <1>5, <1>6, <1>9 DEF ShapeInv

LEMMA InitShapes == Init => ShapeInv /\ LaunchInv
<1> SUFFICES ASSUME Init PROVE ShapeInv /\ LaunchInv
  OBVIOUS
<1>1. /\ requests = << >> /\ todo = [g \in Goroutines |-> << >>]
      /\ busy = [g \in Goroutines |-> "idle"]
  BY DEF Init, SessionInit, Target!TargetInit
<1>2. DOMAIN requests = {}
  BY <1>1
<1>3. \A g : << >> \in Rest(Kind(g)) /\ Kind(g) \notin {"continue", "launch"}
  BY <1>2, RestIsClosed DEF Kind
<1>4. ShapeInv
  BY <1>1, <1>3 DEF ShapeInv, ShapeOf
<1>5. LaunchInv
  BY <1>1, <1>3 DEF LaunchInv, Goroutines
<1>6. QED BY <1>4, <1>5

LEMMA NextShapes ==
  ASSUME TypeOK, ShapeInv, LaunchInv, [Next]_vars
  PROVE  ShapeInv' /\ LaunchInv'
<1>1. ASSUME Hangup \/ Garbage \/ Writer \/ Shutdown \/ UNCHANGED vars
      PROVE  ShapeInv' /\ LaunchInv'
  <2>1. UNCHANGED vars5
    BY <1>1 DEF Hangup, Garbage, Writer, Shutdown, EndOfInput, Fatal, SendFromQueue,
       CloseQueue, Exit, vars, sessionVars, handlerVars, vars5
  <2> QED BY <2>1, ShapesStay, LaunchStays DEF vars5
<1>2. QED BY <1>1, AskShapes, GoroutineShapes DEF Next

\* The invariant the rest builds on.
HandlerInv == CountInv /\ TypeOK /\ ShapeInv /\ LaunchInv

LEMMA HandlerInvariantHolds == Spec => []HandlerInv
<1>1. Init => HandlerInv
  BY InitCount, InitTypes, InitShapes DEF HandlerInv
<1>2. HandlerInv /\ [Next]_vars => HandlerInv'
  BY NextCount, NextTypes, NextShapes DEF HandlerInv
<1>3. QED BY <1>1, <1>2, PTL DEF Spec

(***************************************************************************)
(* The lock of OnContinueRequest keeps two of them from running the        *)
(* machine at once, whatever the client sends: a goroutine runs it only    *)
(* between lock and unlock, and the early return that keeps the lock       *)
(* leaves nobody else in there.                                            *)
(***************************************************************************)
THEOREM ContinuesAreExclusive == Spec => []ContinuesExclusive
<1>1. HandlerInv => ContinuesExclusive
  <2> SUFFICES ASSUME HandlerInv, NEW g \in Requests, NEW h \in Requests,
                      busy[g] = "run", busy[h] = "run"
               PROVE  g = h
    BY DEF ContinuesExclusive
  <2>1. ASSUME NEW i \in Requests, busy[i] = "run" PROVE bpSetMux = {i}
    <3>1. i \in Goroutines /\ i # Runner
      BY SessionAssumption DEF Goroutines, Requests, Runner
    <3>2. Kind(i) = "continue"
      BY <2>1, <3>1, KindType DEF HandlerInv, ShapeInv, ShapeOf
    <3>3. todo[i] \in ContinueRest /\ todo[i] \in {HeldReturn, ToReturn}
      BY <2>1, <3>1, <3>2 DEF HandlerInv, ShapeInv, ShapeOf, Rest
    <3>4. todo[i] \in Held
      <4>1. Head(todo[i]) = "return" /\ todo[i] # << >>
        BY <3>3, HeadOfContinue, HeadOfOthers, ShapesDiffer DEF Held
      <4>2. todo[i] = HeldReturn
        BY <3>3, <4>1, ContinuePlaces DEF Stops
      <4> QED BY <4>2 DEF Held
    <3> QED BY <3>1, <3>2, <3>4 DEF HandlerInv, ShapeInv, ShapeOf
  <2>2. bpSetMux = {g} /\ bpSetMux = {h}
    BY <2>1
  <2> QED BY <2>2
<1>2. QED BY <1>1, HandlerInvariantHolds, PTL
=============================================================================

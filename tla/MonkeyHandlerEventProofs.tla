---------------------- MODULE MonkeyHandlerEventProofs ----------------------
(***************************************************************************)
(* What the client of MonkeyHandler is told and when, whatever it sends:   *)
(* the events of the commands, their order and their truth.                *)
(***************************************************************************)
EXTENDS MonkeyHandlerProofs

-----------------------------------------------------------------------------
(***************************************************************************)
(* The steps again, as the rest of this module tells them apart.           *)
(***************************************************************************)
CommandStep(g) ==
  \/ ReadSource(g) /\ ~Breaks(Unread)
  \/ StartMachine(g)
  \/ Spawn(g, "spawnRun", LaunchRun) \/ Spawn(g, "spawnReport", LaunchReport)
  \/ Lock(g) \/ Unlock(g)
  \/ \E command \in {"run", "step"} : Begin(g, command) /\ ~Breaks("noMachine")
  \/ Continues(g) \/ Return(g)
  \/ IsOff(g) \/ ProduceStopEvent(g)
  \/ \E m \in Messages :
       Send(g, m) /\ ~Panics("sendOnClosedSendQueue") /\ UNCHANGED handlerVars

LEMMA StepCases ==
  ASSUME HandlerInv, [Next]_vars
  PROVE  \/ Aside \/ Ask \/ Writer \/ \E g \in Goroutines : CommandStep(g)
<1>1. ASSUME Hangup \/ Garbage \/ Shutdown \/ UNCHANGED vars PROVE Aside
  BY <1>1 DEF Hangup, Garbage, Shutdown, EndOfInput, Fatal, CloseQueue, Exit,
     vars, sessionVars, handlerVars, Aside, commandVars
<1>2. ASSUME NEW g \in Goroutines, Goroutine(g) PROVE Aside \/ CommandStep(g)
  <2>1. ASSUME \/ SetSource(g) \/ CollectFrames(g) \/ ReadFrame(g) \/ ReadErrors(g)
               \/ Block(g) \/ SignalClosed(g) \/ Poll(g) \/ Crash(g)
               \/ (Finish(g) \/ FatalRequest(g)) /\ UNCHANGED handlerVars
        PROVE  Aside
    BY <2>1, AsideShapes DEF HandlerInv
  <2>2. ASSUME \/ Breaks(Unread) \/ Breaks("noMachine")
               \/ Panics("sendOnClosedSendQueue") /\ UNCHANGED handlerVars
        PROVE  Aside
    BY <2>2, PanicsAside DEF HandlerInv, Breaks
  <2> QED BY <1>2, <2>1, <2>2 DEF Goroutine, CommandStep
<1>3. QED BY <1>1, <1>2 DEF Next

\* The message that is written.
LEMMA Written ==
  ASSUME TypeOK, Writer
  PROVE  \E m \in Message :
           /\ outgoing = <<m>> /\ outgoing' = << >>
           /\ DOMAIN wire = 1 .. Len(wire) /\ Len(wire) \in Nat
           /\ DOMAIN wire' = 1 .. (Len(wire) + 1)
           /\ \A i \in DOMAIN wire : i \in DOMAIN wire' /\ wire'[i] = wire[i]
           /\ wire'[Len(wire) + 1] = m
           /\ UNCHANGED <<requests, active, todo, panic, handlerVars>>
<1>1. /\ outgoing # << >> /\ wire' = wire \o outgoing /\ outgoing' = << >>
      /\ UNCHANGED <<requests, active, todo, panic, handlerVars>>
  BY DEF Writer, SendFromQueue
<1>2. outgoing \in Seq(Message) /\ Len(outgoing) <= 1 /\ wire \in Seq(Message)
  BY DEF TypeOK, Message
<1>3. Len(outgoing) = 1
  <2>1. Len(outgoing) \in Nat \ {0}
    BY <1>1, <1>2, EmptySeq
  <2>2. \A n \in Nat \ {0} : n <= 1 => n = 1
    OBVIOUS
  <2> QED BY <1>2, <2>1, <2>2
<1>4. outgoing[1] \in Message /\ outgoing = <<outgoing[1]>>
  <2>1. outgoing[1] \in Message
    <3>1. 1 \in 1 .. Len(outgoing)
      BY <1>3
    <3> QED BY <1>2, <3>1, ElementOfSeq
  <2>2. <<outgoing[1]>> \in Seq(Message) /\ Len(<<outgoing[1]>>) = 1
    BY <2>1
  <2>3. \A i \in 1 .. Len(outgoing) : outgoing[i] = <<outgoing[1]>>[i]
    BY <1>3
  <2>4. outgoing = <<outgoing[1]>>
    BY <1>2, <1>3, <2>2, <2>3, SeqEqual
  <2> QED BY <2>1, <2>4
<1>5. /\ wire' \in Seq(Message) /\ Len(wire') = Len(wire) + 1
      /\ \A i \in 1 .. Len(wire) + 1 :
           wire'[i] = IF i <= Len(wire) THEN wire[i] ELSE outgoing[i - Len(wire)]
  <2>1. /\ wire \o outgoing \in Seq(Message) /\ Len(wire \o outgoing) = Len(wire) + Len(outgoing)
        /\ \A i \in 1 .. Len(wire) + Len(outgoing) :
             (wire \o outgoing)[i] = IF i <= Len(wire) THEN wire[i] ELSE outgoing[i - Len(wire)]
    BY <1>2, ConcatProperties
  <2> QED BY <1>1, <1>3, <2>1
<1>6. /\ DOMAIN wire = 1 .. Len(wire) /\ Len(wire) \in Nat
      /\ DOMAIN wire' = 1 .. (Len(wire) + 1)
  BY <1>2, <1>5, LenProperties
<1>7. wire'[Len(wire) + 1] = outgoing[1]
  BY <1>5, <1>6
<1>8. QED BY <1>1, <1>4, <1>5, <1>6, <1>7

-----------------------------------------------------------------------------
(***************************************************************************)
(* The debuggee, once it is launched, stays so; so do its end, a failure   *)
(* and that it has left the start.                                         *)
(***************************************************************************)
Launched == machine # "none" \/ failed
Ended == machine = "DONE" \/ failed

LEMMA DebuggeeStable ==
  ASSUME HandlerInv, [Next]_vars
  PROVE  /\ Launched => Launched'
         /\ failed => failed'
         /\ Ended => Ended'
         /\ Launched /\ machine # "OFF" => machine' # "OFF"
         /\ terminateOnNextStep => terminateOnNextStep'
<1>1. machine \in {"none", "OFF", "STOPPED", "DONE"} /\ failed \in BOOLEAN
        /\ terminateOnNextStep \in BOOLEAN
  BY DEF HandlerInv, TypeOK
<1>2. CASE UNCHANGED <<machine, failed, terminateOnNextStep>>
  BY <1>2 DEF Launched, Ended
<1>3. ASSUME NEW g \in Goroutines, StartMachine(g)
      PROVE  ~Launched /\ ~failed /\ ~Ended /\ UNCHANGED terminateOnNextStep
  BY <1>3, StartMachineShifts DEF HandlerInv, Launched, Ended, StartMachine
<1>4. CASE Target!Moved /\ UNCHANGED terminateOnNextStep
  BY <1>1, <1>4, MovedType DEF Launched, Ended
<1>5. ASSUME NEW g \in Goroutines, ProduceStopEvent(g)
      PROVE  UNCHANGED <<machine, failed>> /\ (terminateOnNextStep => terminateOnNextStep')
  BY <1>5 DEF ProduceStopEvent, TerminatesNext
<1>6. ASSUME NEW g \in Goroutines, CommandStep(g)
      PROVE  \/ UNCHANGED <<machine, failed, terminateOnNextStep>>
             \/ StartMachine(g) \/ ProduceStopEvent(g)
             \/ Target!Moved /\ UNCHANGED terminateOnNextStep
  BY <1>6 DEF CommandStep, ReadSource, Spawn, Lock, Unlock, Begin, Continues, Return, IsOff,
     Target!Begin, Target!Continues, Target!Ends, handlerVars, Breaks
<1>7. ASSUME Aside \/ Ask \/ Writer PROVE UNCHANGED <<machine, failed, terminateOnNextStep>>
  BY <1>7 DEF Aside, commandVars, Ask, Writer, handlerVars
<1>8. CASE \E g \in Goroutines : ProduceStopEvent(g)
  BY <1>5, <1>8 DEF Launched, Ended
<1>9. QED BY <1>2, <1>3, <1>4, <1>6, <1>7, <1>8, StepCases

-----------------------------------------------------------------------------
(***************************************************************************)
(* What the next step of a goroutine, or a message, implies about the      *)
(* debuggee.  After "start machine" there is one, or it has failed; the    *)
(* goroutine of the launch reports only once the debuggee has left the     *)
(* start.  A produced event is true when it is produced and stays true.    *)
(***************************************************************************)
EventTrue(e) ==
  /\ e = "terminated" => Ended
  /\ e = "exception" => failed /\ terminateOnNextStep

MayTake(kind, step) ==
  /\ step \in {"return", "isOff", "stopEvent", "spawnRun", "spawnReport"} => Launched
  /\ kind = "runner" \/ (kind = "launch" /\ step = "response") => Launched
  /\ kind = "runner" /\ step \in Stops \cup {"stopEvent"} => machine # "OFF"
  /\ EventTrue(step)

MessageTrue(m) ==
  /\ EventTrue(m.type)
  /\ m.from = Runner => Launched /\ machine # "OFF"

SoundFor(g, s) == s # << >> => MayTake(Kind(g), Head(s))

SoundMessages(ms) == \A i \in DOMAIN ms : MessageTrue(ms[i])

DebuggeeInv ==
  /\ terminateOnNextStep => failed
  /\ \A g \in Goroutines : SoundFor(g, todo[g])
  /\ SoundMessages(outgoing) /\ SoundMessages(wire)

\* What is implied once is implied for ever.
LEMMA TrueStays ==
  ASSUME HandlerInv, [Next]_vars
  PROVE  /\ \A e : EventTrue(e) => EventTrue(e)'
         /\ \A k, s : MayTake(k, s) => MayTake(k, s)'
         /\ \A m : MessageTrue(m) => MessageTrue(m)'
         /\ \A ms : SoundMessages(ms) => SoundMessages(ms)'
<1>1. /\ Launched => Launched'
      /\ failed => failed'
      /\ Ended => Ended'
      /\ Launched /\ machine # "OFF" => machine' # "OFF"
      /\ terminateOnNextStep => terminateOnNextStep'
  BY DebuggeeStable
<1>2. \A e : EventTrue(e) => EventTrue(e)'
  BY DebuggeeStable DEF EventTrue
<1>3. ASSUME NEW k, NEW s, MayTake(k, s) PROVE MayTake(k, s)'
  BY <1>2, <1>3, DebuggeeStable DEF MayTake
<1>4. ASSUME NEW m, MessageTrue(m) PROVE MessageTrue(m)'
  BY <1>2, <1>4, DebuggeeStable DEF MessageTrue
<1>5. ASSUME NEW ms, SoundMessages(ms) PROVE SoundMessages(ms)'
  BY <1>4, <1>5 DEF SoundMessages
<1>6. QED BY <1>2, <1>3, <1>4, <1>5

LEMMA MessagesStay ==
  ASSUME HandlerInv, DebuggeeInv, [Next]_vars
  PROVE  /\ UNCHANGED wire => SoundMessages(wire)'
         /\ UNCHANGED outgoing => SoundMessages(outgoing)'
<1>1. ASSUME UNCHANGED wire PROVE SoundMessages(wire)'
  <2>1. PICK w : w = wire
    OBVIOUS
  <2>2. SoundMessages(w)'
    BY <2>1, TrueStays DEF DebuggeeInv
  <2> QED BY <1>1, <2>1, <2>2 DEF SoundMessages, MessageTrue
<1>2. ASSUME UNCHANGED outgoing PROVE SoundMessages(outgoing)'
  <2>1. PICK w : w = outgoing
    OBVIOUS
  <2>2. SoundMessages(w)'
    BY <2>1, TrueStays DEF DebuggeeInv
  <2> QED BY <1>2, <2>1, <2>2 DEF SoundMessages, MessageTrue
<1>3. QED BY <1>1, <1>2

\* The goroutines that do not command take none of these steps.
LEMMA AsideIsSound ==
  ASSUME NEW k, k \notin Commanding, NEW s \in Rest(k), s # << >>
  PROVE  MayTake(k, Head(s)) /\ MayTake(k, Head(s))'
<1>1. Head(s) \in AsideSteps
  BY Places
<1>2. QED BY <1>1 DEF MayTake, EventTrue, AsideSteps, Stops, Commanding

\* One goroutine goes on to what it may do.
LEMMA SoundShift ==
  ASSUME HandlerInv, DebuggeeInv, [Next]_vars, NEW g \in Goroutines, NEW s, NEW t,
         Shifts(g, s, t), UNCHANGED <<requests, wire>>,
         terminateOnNextStep' => failed',
         t # << >> => MayTake(Kind(g), Head(t))',
         SoundMessages(outgoing)'
  PROVE  DebuggeeInv'
<1>1. /\ todo'[g] = t /\ \A h \in Goroutines \ {g} : todo'[h] = todo[h]
  BY DEF Shifts, HandlerInv, TypeOK
<1>2. \A h : Kind(h)' = Kind(h)
  BY KindStays
<1>3. SoundFor(g, todo[g])'
  BY <1>1, <1>2 DEF SoundFor
<1>4. ASSUME NEW h \in Goroutines \ {g} PROVE SoundFor(h, todo[h])'
  BY <1>1, <1>2, TrueStays DEF SoundFor, DebuggeeInv
<1>5. SoundMessages(wire)'
  BY MessagesStay
<1>6. QED BY <1>3, <1>4, <1>5 DEF DebuggeeInv

LEMMA HandlerStep ==
  ASSUME HandlerInv, [Next]_vars
  PROVE  HandlerInv'
BY NextCount, NextTypes, NextShapes DEF HandlerInv

LEMMA AsideKeepsDebuggee ==
  ASSUME HandlerInv, DebuggeeInv, [Next]_vars, Aside
  PROVE  DebuggeeInv'
<1>1. \A g : Kind(g)' = Kind(g)
  BY KindStays DEF Aside, commandVars
<1>2. ASSUME NEW g \in Goroutines, Kind(g) \in Commanding PROVE SoundFor(g, todo[g])'
  <2>1. todo'[g] = todo[g]
    BY <1>2 DEF Aside
  <2> QED BY <1>1, <2>1, TrueStays DEF SoundFor, DebuggeeInv
<1>3. ASSUME NEW g \in Goroutines, Kind(g) \notin Commanding PROVE SoundFor(g, todo[g])'
  <2>1. todo'[g] \in Rest(Kind(g))
    BY <1>1, HandlerStep DEF HandlerInv, ShapeInv, ShapeOf
  <2> QED BY <1>1, <1>3, <2>1, AsideIsSound DEF SoundFor
<1>4. SoundMessages(wire)' /\ SoundMessages(outgoing)'
  BY MessagesStay DEF Aside, commandVars
<1>5. QED BY <1>2, <1>3, <1>4 DEF DebuggeeInv, Aside, commandVars

\* What a handler begins with is sound.
LEMMA HandlersAreSound ==
  ASSUME NEW kind \in Kinds \ {"hangup", "garbage"}
  PROVE  MayTake(kind, Head(Handler[kind]))'
<1>1. CASE kind \in {"continue", "next", "launch"}
  <2>1. Head(Handler[kind]) \in {"response", "readSource"}
    BY <1>1, HeadOfContinue, HeadOfOthers DEF Handler
  <2>2. kind = "launch" => Head(Handler[kind]) = "readSource"
    BY <1>1, HeadOfOthers DEF Handler
  <2> QED BY <1>1, <2>1, <2>2 DEF MayTake, EventTrue, Stops
<1>2. CASE kind \notin {"continue", "next", "launch"}
  <2>1. kind \notin Commanding /\ kind # "none"
    BY <1>2, HandlerAssumption DEF Commanding
  <2>2. Handler[kind] \in Rest(kind)
    BY HandlersAreShapes
  <2>3. Handler[kind] # << >>
    BY <1>2, HandlerAssumption DEF Handler, OnInitialize, OnSetBreakpoints, OnConfigurationDone,
       OnStackTrace, OnScopes, OnVariables, OnExceptionInfo, OnDisconnect, OnOther, OnUnknown
  <2> QED BY <2>1, <2>2, <2>3, AsideIsSound
<1>3. QED BY <1>1, <1>2

LEMMA AskKeepsDebuggee ==
  ASSUME HandlerInv, DebuggeeInv, [Next]_vars, Ask
  PROVE  DebuggeeInv'
<1>1. PICK kind \in Kinds \ {"hangup", "garbage"}, frame \in 1 .. MaxDepth :
        HandleRequest([kind |-> kind, frame |-> frame], Handler[kind])
  BY DEF Ask
<1> PICK g : g = Len(requests) + 1
  OBVIOUS
<1>2. /\ g \in Goroutines
      /\ Kind(g)' = kind
      /\ \A h \in Goroutines \ {g} : Kind(h)' = Kind(h) /\ todo'[h] = todo[h]
      /\ todo'[g] = Handler[kind]
      /\ UNCHANGED <<outgoing, wire>>
  BY <1>1, AskedKind DEF HandlerInv
<1>3. SoundFor(g, todo[g])'
  BY <1>2, HandlersAreSound DEF SoundFor
<1>4. ASSUME NEW h \in Goroutines \ {g} PROVE SoundFor(h, todo[h])'
  BY <1>2, TrueStays DEF SoundFor, DebuggeeInv
<1>5. SoundMessages(wire)' /\ SoundMessages(outgoing)'
  BY <1>2, MessagesStay
<1>6. UNCHANGED <<terminateOnNextStep, failed>>
  BY DEF Ask, handlerVars
<1>7. QED BY <1>3, <1>4, <1>5, <1>6 DEF DebuggeeInv

LEMMA WriterKeepsDebuggee ==
  ASSUME HandlerInv, DebuggeeInv, [Next]_vars, Writer
  PROVE  DebuggeeInv'
<1>1. PICK m \in Message :
           /\ outgoing = <<m>> /\ outgoing' = << >>
           /\ DOMAIN wire = 1 .. Len(wire) /\ Len(wire) \in Nat
           /\ DOMAIN wire' = 1 .. (Len(wire) + 1)
           /\ \A i \in DOMAIN wire : i \in DOMAIN wire' /\ wire'[i] = wire[i]
           /\ wire'[Len(wire) + 1] = m
           /\ UNCHANGED <<requests, active, todo, panic, handlerVars>>
  BY Written DEF HandlerInv
<1>2. \A g \in Goroutines : SoundFor(g, todo[g])'
  BY <1>1, KindStays, TrueStays DEF SoundFor, DebuggeeInv
<1>3. SoundMessages(outgoing)'
  BY <1>1 DEF SoundMessages
<1>4. SoundMessages(wire)'
  <2>1. MessageTrue(m)'
    <3>1. MessageTrue(outgoing[1])
      <4>1. 1 \in DOMAIN outgoing
        BY <1>1
      <4> QED BY <4>1 DEF DebuggeeInv, SoundMessages
    <3>2. outgoing[1] = m
      BY <1>1
    <3> QED BY <3>1, <3>2, TrueStays
  <2>2. ASSUME NEW i \in DOMAIN wire' PROVE MessageTrue(wire[i])'
    <3>1. CASE i = Len(wire) + 1
      <4>1. wire'[i] = m
        BY <1>1, <3>1
      <4> QED BY <2>1, <4>1 DEF MessageTrue
    <3>2. CASE i # Len(wire) + 1
      <4>1. i \in DOMAIN wire
        BY <1>1, <3>2
      <4>2. PICK n : n = wire[i]
        OBVIOUS
      <4>3. MessageTrue(n)'
        BY <4>1, <4>2, TrueStays DEF DebuggeeInv, SoundMessages
      <4>4. wire'[i] = n
        BY <1>1, <4>1, <4>2
      <4> QED BY <4>3, <4>4 DEF MessageTrue
    <3> QED BY <3>1, <3>2
  <2> QED BY <2>2 DEF SoundMessages
<1>5. QED BY <1>1, <1>2, <1>3, <1>4 DEF DebuggeeInv, handlerVars

\* The goroutine of the launch leaves one behind.
LEMMA SpawnKeepsDebuggee ==
  ASSUME HandlerInv, DebuggeeInv, [Next]_vars, NEW g \in Goroutines, g # Runner,
         NEW s, NEW t, todo' = [todo EXCEPT ![g] = s, ![Runner] = t],
         UNCHANGED <<requests, outgoing, wire, handlerVars>>,
         s # << >> => MayTake(Kind(g), Head(s)), t # << >> => MayTake("runner", Head(t))
  PROVE  DebuggeeInv'
<1>1. /\ todo'[g] = s /\ todo'[Runner] = t /\ Runner \in Goroutines
      /\ \A h \in Goroutines \ {g, Runner} : todo'[h] = todo[h]
  BY DEF HandlerInv, TypeOK, Goroutines
<1>2. (\A h : Kind(h)' = Kind(h)) /\ Kind(Runner) = "runner"
  BY KindStays DEF Kind
<1>3. SoundFor(g, todo[g])' /\ SoundFor(Runner, todo[Runner])'
  BY <1>1, <1>2, TrueStays DEF SoundFor
<1>4. ASSUME NEW h \in Goroutines \ {g, Runner} PROVE SoundFor(h, todo[h])'
  BY <1>1, <1>2, TrueStays DEF SoundFor, DebuggeeInv
<1>5. SoundMessages(wire)' /\ SoundMessages(outgoing)'
  BY MessagesStay
<1>6. QED BY <1>3, <1>4, <1>5 DEF DebuggeeInv, handlerVars

LEMMA StopEventIsTrue ==
  ASSUME HandlerInv, DebuggeeInv, NEW g \in Goroutines, ProduceStopEvent(g),
         NEW e, e = StopEvent
  PROVE  /\ EventTrue(e)'
         /\ terminateOnNextStep' => failed'
         /\ Launched' /\ (Kind(g) = "runner" => machine' # "OFF")
<1>1. /\ machine \in {"none", "OFF", "STOPPED", "DONE"} /\ failed \in BOOLEAN
      /\ terminateOnNextStep \in BOOLEAN
  BY DEF HandlerInv, TypeOK
<1>2. UNCHANGED <<machine, failed>> /\ terminateOnNextStep' = TerminatesNext
        /\ todo[g] # << >> /\ Head(todo[g]) = "stopEvent"
  BY DEF ProduceStopEvent, At
<1>3. Launched /\ (Kind(g) = "runner" => machine # "OFF")
  BY <1>2 DEF DebuggeeInv, SoundFor, MayTake
<1>4. /\ e = "exception" => failed
      /\ e = "terminated" => Ended
  BY <1>1, <1>3, StopEventType DEF DebuggeeInv, Launched, Ended
<1>5. (e = "exception" => terminateOnNextStep') /\ (terminateOnNextStep' => failed')
  BY <1>1, <1>2, <1>4 DEF TerminatesNext, DebuggeeInv
<1>6. EventTrue(e)'
  BY <1>2, <1>4, <1>5 DEF EventTrue, Ended
<1>7. QED BY <1>2, <1>3, <1>5, <1>6 DEF Launched

\* A message is sent of which what the goroutine may take is told.
LEMMA SendKeepsDebuggee ==
  ASSUME HandlerInv, DebuggeeInv, [Next]_vars, NEW g \in Goroutines, NEW m \in Messages,
         Send(g, m), ~Panics("sendOnClosedSendQueue"), UNCHANGED handlerVars
  PROVE  DebuggeeInv'
<1>1. TypeOK /\ ShapeInv
  BY DEF HandlerInv
<1>2. /\ outgoing' = <<[from |-> g, type |-> m]>> /\ UNCHANGED <<requests, wire>>
      /\ todo[g] # << >> /\ Head(todo[g]) = m
  BY <1>1, SendShifts DEF Send, At
<1>3. MayTake(Kind(g), m)
  BY <1>2 DEF DebuggeeInv, SoundFor
<1>4. g = Runner => m \in Stops /\ Kind(g) = "runner"
  <2>1. g = Runner => Kind(g) = "runner"
    BY DEF Kind
  <2> QED BY <1>1, <2>1, SendShifts DEF Commanding
<1>5. MessageTrue([from |-> g, type |-> m])
  BY <1>3, <1>4 DEF MessageTrue, MayTake
<1>6. SoundMessages(outgoing)'
  <2>1. PICK n : n = [from |-> g, type |-> m]
    OBVIOUS
  <2>2. MessageTrue(n)' /\ outgoing' = <<n>>
    BY <1>2, <1>5, <2>1, TrueStays
  <2> QED BY <2>2 DEF SoundMessages, MessageTrue
<1>k. Kind(g)' = Kind(g)
  BY <1>2, KindStays
<1>7. \E s, t : Shifts(g, s, t) /\ (t # << >> => MayTake(Kind(g), Head(t))')
  <2>1. CASE Kind(g) = "continue" /\ m = "response" /\ Shifts(g, OnContinue, Locking)
    BY <2>1, <1>k, HeadOfContinue DEF MayTake, EventTrue, Stops
  <2>2. CASE Kind(g) = "next" /\ m = "response" /\ Shifts(g, OnNext, ToStep)
    BY <2>2, <1>k, HeadOfOthers DEF MayTake, EventTrue, Stops
  <2>3. CASE Kind(g) = "launch" /\ m = "response" /\ Shifts(g, OnLaunchFailed, ToSpawnReport)
    <3>1. Launched'
      BY <1>3, <2>3, DebuggeeStable DEF MayTake
    <3> QED BY <2>3, <3>1, HeadOfOthers DEF MayTake, EventTrue, Stops
  <2>4. CASE Kind(g) = "launch" /\ m = "response" /\ Shifts(g, ToRespond, << >>)
    BY <2>4
  <2>5. CASE m \in Stops /\ Kind(g) = "continue" /\ Shifts(g, HeldEvent(m), HeldUnlock)
    BY <2>5, <1>k, HeadOfContinue DEF MayTake, EventTrue, Stops
  <2>6. CASE m \in Stops /\ Kind(g) \in {"next", "runner"} /\ Shifts(g, ToSend(m), << >>)
    BY <2>6
  <2>7. CASE /\ m \notin Stops /\ Kind(g) \notin Commanding /\ Kind(g) # "none"
             /\ Tail(todo[g]) \in Seq(AsideSteps) /\ Shifts(g, todo[g], Tail(todo[g]))
    <3>1. Tail(todo[g]) \in Rest(Kind(g))
      BY <2>7 DEF Rest, Commanding
    <3>2. Tail(todo[g]) # << >> => MayTake(Kind(g), Head(Tail(todo[g])))
      BY <2>7, <3>1, AsideIsSound
    <3>3. PICK k, t : k = Kind(g) /\ t = Tail(todo[g])
      OBVIOUS
    <3>4. t # << >> => MayTake(k, Head(t))'
      BY <3>2, <3>3, TrueStays
    <3>5. Kind(g)' = k
      BY <1>2, <3>3, KindStays
    <3>6. t # << >> => MayTake(Kind(g), Head(t))'
      BY <3>4, <3>5 DEF MayTake
    <3> QED BY <2>7, <3>3, <3>6
  <2>8. QED BY <1>1, <2>1, <2>2, <2>3, <2>4, <2>5, <2>6, <2>7, SendShifts
<1>8. terminateOnNextStep' => failed'
  BY DEF handlerVars, DebuggeeInv
<1>9. QED BY <1>2, <1>6, <1>7, <1>8, SoundShift

\* Of the steps of a command, the ones that only go on.
LEMMA CommandKeepsDebuggee ==
  ASSUME HandlerInv, DebuggeeInv, [Next]_vars, NEW g \in Goroutines, CommandStep(g)
  PROVE  DebuggeeInv'
<1> USE DEF EventTrue, Stops
<1>1. TypeOK /\ ShapeInv
  BY DEF HandlerInv
<1>2. ASSUME UNCHANGED <<requests, outgoing, wire>>, terminateOnNextStep' => failed',
             NEW s, NEW t, Shifts(g, s, t), t # << >> => MayTake(Kind(g), Head(t))'
      PROVE  DebuggeeInv'
  BY <1>2, MessagesStay, SoundShift
<1>3. UNCHANGED <<terminateOnNextStep, failed>> => (terminateOnNextStep' => failed')
  BY DEF DebuggeeInv
<1>4. ASSUME UNCHANGED requests PROVE Kind(g)' = Kind(g)
  BY <1>4, KindStays
<1>5. todo[g] # << >> => MayTake(Kind(g), Head(todo[g]))
  BY DEF DebuggeeInv, SoundFor
<1>a. ASSUME ReadSource(g), ~Breaks(Unread) PROVE DebuggeeInv'
  <2>1. UNCHANGED <<requests, outgoing, wire, handlerVars>>
    BY <1>a DEF ReadSource, OnlyTodo
  <2>2. Kind(g) = "launch" /\ Shifts(g, OnLaunch, ToStart)
    BY <1>1, <1>a, ReadSourceShifts
  <2>3. MayTake(Kind(g), Head(ToStart))'
    BY <1>4, <2>1, <2>2, HeadOfOthers DEF MayTake
  <2> QED BY <1>2, <1>3, <2>1, <2>2, <2>3 DEF handlerVars
<1>b. ASSUME StartMachine(g) PROVE DebuggeeInv'
  <2>1. UNCHANGED <<requests, outgoing, wire, terminateOnNextStep>>
    BY <1>b DEF StartMachine, OnlyTodo
  <2>2. Kind(g) = "launch" /\ ~failed /\ Kind(g)' = Kind(g)
    BY <1>1, <1>4, <1>b, <2>1, StartMachineShifts
  <2>3. ~terminateOnNextStep'
    BY <2>1, <2>2 DEF DebuggeeInv
  <2>4. CASE machine' = "OFF" /\ Shifts(g, ToStart, OnLaunchStarted)
    <3>1. MayTake(Kind(g), Head(OnLaunchStarted))'
      BY <2>2, <2>4, HeadOfOthers DEF MayTake, Launched
    <3> QED BY <1>2, <2>1, <2>3, <2>4, <3>1
  <2>5. CASE failed' = TRUE /\ Shifts(g, ToStart, OnLaunchFailed)
    <3>1. MayTake(Kind(g), Head(OnLaunchFailed))'
      BY <2>2, <2>5, HeadOfOthers DEF MayTake, Launched
    <3> QED BY <1>2, <2>1, <2>3, <2>5, <3>1
  <2> QED BY <1>1, <1>b, <2>4, <2>5, StartMachineShifts
<1>c. ASSUME Spawn(g, "spawnRun", LaunchRun) PROVE DebuggeeInv'
  <2>1. /\ Kind(g) = "launch" /\ todo[g] = OnLaunchStarted /\ g # Runner
        /\ todo' = [todo EXCEPT ![g] = ToRespond, ![Runner] = LaunchRun]
        /\ UNCHANGED <<requests, outgoing, wire, handlerVars>>
    BY <1>1, <1>c, SpawnShifts DEF Spawn
  <2>2. OnLaunchStarted # << >> /\ Head(OnLaunchStarted) = "spawnRun"
    BY HeadOfOthers, ShapesDiffer
  <2>3. Launched
    BY <1>5, <2>1, <2>2 DEF MayTake
  <2>4. MayTake(Kind(g), Head(ToRespond)) /\ MayTake("runner", Head(LaunchRun))
    BY <2>1, <2>3, HeadOfOthers DEF MayTake
  <2> QED BY <2>1, <2>4, SpawnKeepsDebuggee
<1>d. ASSUME Spawn(g, "spawnReport", LaunchReport) PROVE DebuggeeInv'
  <2>1. /\ Kind(g) = "launch" /\ todo[g] = ToSpawnReport /\ g # Runner
        /\ todo' = [todo EXCEPT ![g] = << >>, ![Runner] = LaunchReport]
        /\ UNCHANGED <<requests, outgoing, wire, handlerVars>>
    BY <1>1, <1>d, SpawnShifts DEF Spawn
  <2>2. ToSpawnReport # << >> /\ Head(ToSpawnReport) = "spawnReport"
    BY HeadOfOthers, ShapesDiffer
  <2>3. Launched
    BY <1>5, <2>1, <2>2 DEF MayTake
  <2>4. MayTake("runner", Head(LaunchReport))
    BY <2>3, HeadOfOthers DEF MayTake
  <2> QED BY <2>1, <2>4, SpawnKeepsDebuggee
<1>e. ASSUME Lock(g) \/ Unlock(g) PROVE DebuggeeInv'
  <2>1. UNCHANGED <<requests, outgoing, wire, terminateOnNextStep, failed>>
    BY <1>e DEF Lock, Unlock, OnlyTodo
  <2>2. Kind(g) = "continue" /\ (Shifts(g, Locking, HeldRun) \/ Shifts(g, HeldUnlock, << >>))
    BY <1>1, <1>e, LockShifts
  <2>3. MayTake(Kind(g), Head(HeldRun))'
    BY <1>4, <2>1, <2>2, HeadOfContinue DEF MayTake
  <2> QED BY <1>2, <1>3, <2>1, <2>2, <2>3
<1>f. ASSUME NEW command \in {"run", "step"}, Begin(g, command), ~Breaks("noMachine")
      PROVE  DebuggeeInv'
  <2>1. UNCHANGED <<requests, outgoing, wire, terminateOnNextStep>>
    BY <1>f DEF Begin, OnlyTodo
  <2>2. machine # "none" /\ UNCHANGED <<machine, failed>>
    BY <1>1, <1>f, BeginShifts
  <2>3. \/ Shifts(g, HeldRun, HeldReturn) \/ Shifts(g, LaunchRun, ToReturn)
        \/ Shifts(g, ToStep, ToReturn)
    BY <1>1, <1>f, BeginShifts
  <2>4. MayTake(Kind(g), "return")'
    BY <2>2 DEF MayTake, Launched
  <2>5. Head(HeldReturn) = "return" /\ Head(ToReturn) = "return"
    BY HeadOfContinue, HeadOfOthers
  <2> QED BY <1>2, <1>3, <2>1, <2>2, <2>3, <2>4, <2>5
<1>h. ASSUME Continues(g) PROVE DebuggeeInv'
  <2>1. /\ UNCHANGED <<requests, outgoing, wire, terminateOnNextStep, todo>>
        /\ todo[g] # << >> /\ failed \in BOOLEAN /\ Target!Moved
    BY <1>1, <1>h DEF Continues, OnlyTodo, At, TypeOK, Target!Continues
  <2>2. failed => failed'
    BY <1>1, <2>1, MovedType DEF TypeOK
  <2>3. \A h \in Goroutines : SoundFor(h, todo[h])'
    BY <2>1, KindStays, TrueStays DEF SoundFor, DebuggeeInv
  <2>4. terminateOnNextStep' => failed'
    BY <2>1, <2>2 DEF DebuggeeInv
  <2> QED BY <2>1, <2>3, <2>4, MessagesStay DEF DebuggeeInv
<1>i. ASSUME Return(g) PROVE DebuggeeInv'
  <2>1. /\ UNCHANGED <<requests, outgoing, wire, terminateOnNextStep>>
        /\ todo[g] # << >> /\ Head(todo[g]) = "return" /\ Target!Moved
    BY <1>i DEF Return, OnlyTodo, At, Target!Ends
  <2>2. Shifts(g, HeldReturn, HeldCheck) \/ Shifts(g, ToReturn, LaunchReport)
    BY <1>1, <1>i, ReturnShifts
  <2>3. Launched'
    BY <1>5, <2>1, DebuggeeStable DEF MayTake
  <2>4. failed => failed'
    BY <1>1, <2>1, MovedType DEF TypeOK
  <2>5. MayTake(Kind(g), "isOff")' /\ (terminateOnNextStep' => failed')
    BY <2>1, <2>3, <2>4 DEF MayTake, DebuggeeInv
  <2>6. Head(HeldCheck) = "isOff" /\ Head(LaunchReport) = "isOff"
    BY HeadOfContinue, HeadOfOthers
  <2> QED BY <1>2, <2>1, <2>2, <2>5, <2>6
<1>j. ASSUME IsOff(g) PROVE DebuggeeInv'
  <2>1. /\ UNCHANGED <<requests, outgoing, wire, machine, failed, terminateOnNextStep>>
        /\ todo[g] # << >> /\ Head(todo[g]) = "isOff"
    BY <1>j DEF IsOff, OnlyTodo, At, handlerVars
  <2>2. Launched'
    BY <1>5, <2>1 DEF MayTake, Launched
  <2>3. machine # "OFF" => MayTake(Kind(g), "stopEvent")'
    BY <2>1, <2>2 DEF MayTake
  <2>4. Head(HeldReport) = "stopEvent" /\ Head(ToReport) = "stopEvent"
    BY HeadOfContinue, HeadOfOthers
  <2>5. \/ machine # "OFF" /\ (Shifts(g, HeldCheck, HeldReport) \/ Shifts(g, LaunchReport, ToReport))
        \/ Shifts(g, HeldCheck, << >>) \/ Shifts(g, LaunchReport, << >>)
    BY <1>1, <1>j, IsOffShifts
  <2> QED BY <1>2, <1>3, <2>1, <2>3, <2>4, <2>5
<1>k. ASSUME ProduceStopEvent(g) PROVE DebuggeeInv'
  <2>1. UNCHANGED <<requests, outgoing, wire>>
    BY <1>k DEF ProduceStopEvent, OnlyTodo
  <2>2. PICK e : e = StopEvent
    OBVIOUS
  <2>3. /\ EventTrue(e)' /\ (terminateOnNextStep' => failed')
        /\ Launched' /\ (Kind(g) = "runner" => machine' # "OFF")
    BY <1>k, <2>2, StopEventIsTrue
  <2>4. e \in Stops /\ (Shifts(g, HeldReport, HeldEvent(e)) \/ Shifts(g, ToReport, ToSend(e)))
    BY <1>1, <1>k, <2>2, StopEventShifts
  <2>5. MayTake(Kind(g), e)'
    BY <1>4, <2>1, <2>3, <2>4 DEF MayTake
  <2>6. Head(HeldEvent(e)) = e /\ Head(ToSend(e)) = e
    BY HeadOfContinue, HeadOfOthers
  <2> QED BY <1>2, <2>1, <2>3, <2>4, <2>5, <2>6
<1>l. QED
  BY <1>a, <1>b, <1>c, <1>d, <1>e, <1>f, <1>h, <1>i, <1>j, <1>k, SendKeepsDebuggee DEF CommandStep

LEMMA DebuggeeInvariantHolds == Spec => [](HandlerInv /\ DebuggeeInv)
<1>1. Init => DebuggeeInv
  BY DEF Init, SessionInit, Target!TargetInit, DebuggeeInv, SoundFor, SoundMessages
<1>2. HandlerInv /\ DebuggeeInv /\ [Next]_vars => DebuggeeInv'
  BY StepCases, AsideKeepsDebuggee, AskKeepsDebuggee, WriterKeepsDebuggee, CommandKeepsDebuggee
<1>3. QED BY <1>1, <1>2, HandlerInvariantHolds, PTL DEF Spec

(***************************************************************************)
(* The end of the program is announced only when it has ended or failed:   *)
(* between the command and its event others may move the debuggee, but     *)
(* neither a failure nor the end is ever undone.                           *)
(***************************************************************************)
THEOREM AnnouncedEndsAreTrue == Spec => []TerminatedIsTrue
<1>1. DebuggeeInv => TerminatedIsTrue
  BY DEF DebuggeeInv, SoundMessages, MessageTrue, EventTrue, TerminatedIsTrue, Ended
<1>2. QED BY <1>1, DebuggeeInvariantHolds, PTL

-----------------------------------------------------------------------------
(***************************************************************************)
(* The steps once more, from where a goroutine and the client stand.       *)
(***************************************************************************)
Sends(g, m) == Send(g, m) /\ ~Panics("sendOnClosedSendQueue") /\ UNCHANGED handlerVars
Spawns(g) == Spawn(g, "spawnRun", LaunchRun) \/ Spawn(g, "spawnReport", LaunchReport)

\* A goroutine keeps its kind, or is that of the request that is asked.
LEMMA KindGrows ==
  ASSUME HandlerInv, [Next]_vars, NEW g \in Goroutines
  PROVE  \/ Kind(g)' = Kind(g)
         \/ /\ Ask /\ Kind(g) = "none" /\ Kind(g)' \in Kinds \ {"hangup", "garbage"}
            /\ todo'[g] = Handler[Kind(g)'] /\ UNCHANGED <<outgoing, wire, handlerVars>>
<1>1. ASSUME Ask PROVE \/ Kind(g)' = Kind(g)
                       \/ /\ Kind(g) = "none" /\ Kind(g)' \in Kinds \ {"hangup", "garbage"}
                          /\ todo'[g] = Handler[Kind(g)'] /\ UNCHANGED <<outgoing, wire, handlerVars>>
  <2>1. PICK kind \in Kinds \ {"hangup", "garbage"}, frame \in 1 .. MaxDepth :
          HandleRequest([kind |-> kind, frame |-> frame], Handler[kind])
    BY <1>1 DEF Ask
  <2> PICK a : a = Len(requests) + 1
    OBVIOUS
  <2>2. /\ Kind(a) = "none" /\ Kind(a)' = kind
        /\ \A h \in Goroutines \ {a} : Kind(h)' = Kind(h) /\ todo'[h] = todo[h]
        /\ todo'[a] = Handler[kind] /\ UNCHANGED <<outgoing, wire>>
    BY <1>1, <2>1, AskedKind DEF HandlerInv
  <2>3. UNCHANGED handlerVars
    BY <1>1 DEF Ask
  <2>4. CASE g = a
    BY <2>2, <2>3, <2>4 DEF Kind
  <2>5. CASE g # a
    BY <2>2, <2>5
  <2> QED BY <2>4, <2>5
<1>2. ASSUME Aside \/ Writer \/ \E h \in Goroutines : CommandStep(h) PROVE UNCHANGED requests
  BY <1>2 DEF Aside, commandVars, Writer, SendFromQueue, CommandStep, ReadSource, StartMachine,
     Spawn, Lock, Unlock, Begin, Continues, Return, IsOff, ProduceStopEvent, Send, OnlyTodo,
     Panics, Breaks
<1>3. QED BY <1>1, <1>2, StepCases, KindStays

\* A goroutine that commands the debuggee takes its own steps only.
LEMMA OwnSteps ==
  ASSUME HandlerInv, [Next]_vars, NEW g \in Goroutines, Kind(g) \in Commanding
  PROVE  /\ Kind(g)' = Kind(g)
         /\ \/ todo'[g] = todo[g]
            \/ CommandStep(g)
            \/ g = Runner /\ \E h \in Goroutines : Spawns(h)
<1>1. Kind(g)' = Kind(g)
  BY KindGrows DEF Commanding
<1>2. ASSUME Ask PROVE todo'[g] = todo[g]
  <2>1. PICK kind \in Kinds \ {"hangup", "garbage"}, frame \in 1 .. MaxDepth :
          HandleRequest([kind |-> kind, frame |-> frame], Handler[kind])
    BY <1>2 DEF Ask
  <2> PICK a : a = Len(requests) + 1
    OBVIOUS
  <2>2. Kind(a) = "none" /\ \A h \in Goroutines \ {a} : todo'[h] = todo[h]
    BY <1>2, <2>1, AskedKind DEF HandlerInv
  <2> QED BY <2>2 DEF Commanding, Kind
<1>3. ASSUME Aside \/ Writer PROVE todo'[g] = todo[g]
  BY <1>3 DEF Aside, Writer, SendFromQueue
<1>4. ASSUME NEW h \in Goroutines, CommandStep(h), h # g
      PROVE  todo'[g] = todo[g] \/ (g = Runner /\ Spawns(h))
  <2>1. ASSUME NEW s, todo' = [todo EXCEPT ![h] = s] PROVE todo'[g] = todo[g]
    BY <1>4, <2>1 DEF HandlerInv, TypeOK
  <2>2. ASSUME Goes(h) \/ Returns(h) \/ \E s : Instead(h, s) PROVE todo'[g] = todo[g]
    BY <2>1, <2>2 DEF Goes, Returns, Instead
  <2>3. ASSUME Spawns(h), g # Runner PROVE todo'[g] = todo[g]
    BY <1>4, <2>3 DEF Spawns, Spawn, HandlerInv, TypeOK
  <2>4. ASSUME UNCHANGED todo PROVE todo'[g] = todo[g]
    BY <2>4
  <2>5. \/ Goes(h) \/ Returns(h) \/ (\E s : Instead(h, s)) \/ Spawns(h) \/ UNCHANGED todo
    BY <1>4 DEF CommandStep, ReadSource, StartMachine, Lock, Unlock, Begin, Continues,
       Return, IsOff, ProduceStopEvent, Send, Breaks, Panics, Spawns
  <2> QED BY <2>2, <2>3, <2>4, <2>5
<1>5. QED BY <1>1, <1>2, <1>3, <1>4, StepCases

\* A message is on its way, is sent by a goroutine, or is written.
LEMMA MessageSteps ==
  ASSUME HandlerInv, [Next]_vars
  PROVE  \/ UNCHANGED <<outgoing, wire>>
         \/ Writer
         \/ \E g \in Goroutines, m \in Messages : Sends(g, m)
<1>1. ASSUME NEW g \in Goroutines, CommandStep(g)
      PROVE  UNCHANGED <<outgoing, wire>> \/ \E m \in Messages : Sends(g, m)
  BY <1>1 DEF CommandStep, ReadSource, StartMachine,
     Spawn, Lock, Unlock, Begin, Continues, Return, IsOff, ProduceStopEvent, OnlyTodo,
     Panics, Breaks, Sends
<1>2. ASSUME Aside \/ Ask PROVE UNCHANGED <<outgoing, wire>>
  BY <1>2 DEF Aside, commandVars, Ask, HandleRequest
<1>3. QED BY <1>1, <1>2, StepCases

\* What is written stays written.
LEMMA WireGrows ==
  ASSUME HandlerInv, [Next]_vars
  PROVE  /\ \A i \in DOMAIN wire : i \in DOMAIN wire' /\ wire'[i] = wire[i]
         /\ \A g : Answered(g) => Answered(g)'
<1>1. \A i \in DOMAIN wire : i \in DOMAIN wire' /\ wire'[i] = wire[i]
  <2>1. CASE UNCHANGED wire
    BY <2>1
  <2>2. CASE Writer
    BY <2>2, Written DEF HandlerInv
  <2>3. ASSUME NEW g \in Goroutines, NEW m \in Messages, Sends(g, m) PROVE UNCHANGED wire
    BY <2>3 DEF Sends, Send, Panics
  <2> QED BY <2>1, <2>2, <2>3, MessageSteps
<1>2. QED BY <1>1 DEF Answered

\* Only a send takes the place of a step that is a message.
LEMMA OnlySends ==
  ASSUME HandlerInv, NEW g \in Goroutines, CommandStep(g), Head(todo[g]) \in Messages
  PROVE  \E m \in Messages : Sends(g, m) /\ m = Head(todo[g])
<1>1. ASSUME ~\E m \in Messages : Sends(g, m) PROVE FALSE
  <2>1. \E step \in {"readSource", "startMachine", "spawnRun", "spawnReport", "lock", "unlock",
                     "run", "step", "return", "isOff", "stopEvent"} : At(g, step)
    BY <1>1 DEF CommandStep, ReadSource, StartMachine,
       Spawn, Lock, Unlock, Begin, Continues, Return, IsOff, ProduceStopEvent, Sends
  <2> QED BY <2>1 DEF At, Messages, Events
<1>2. PICK m \in Messages : Sends(g, m)
  BY <1>1
<1>3. m = Head(todo[g])
  BY <1>2 DEF Sends, Send, At
<1>4. QED BY <1>2, <1>3

-----------------------------------------------------------------------------
(***************************************************************************)
(* The inductive invariant of the order of a command's messages: its       *)
(* response has been sent when there is anything else left to do, and has  *)
(* been written when its event is sent, for the two go over the same       *)
(* channel.                                                                *)
(***************************************************************************)
Response(g) == [from |-> g, type |-> "response"]

Acknowledged(g) ==
  Kind(g) \in {"continue", "next"} =>
    todo[g] \in {OnContinue, OnNext} \/ outgoing = <<Response(g)>> \/ Answered(g)

AckInv ==
  /\ \A g \in Goroutines : Acknowledged(g)
  /\ \A i \in DOMAIN outgoing :
       outgoing[i].type \in StopEvents /\ outgoing[i].from # Runner => Answered(outgoing[i].from)
  /\ AcknowledgedFirst

\* What is sent, of which kind of goroutine.
LEMMA SentStops ==
  ASSUME HandlerInv, NEW g \in Goroutines, NEW m \in Messages, Sends(g, m)
  PROVE  /\ outgoing = << >> /\ outgoing' = <<[from |-> g, type |-> m]>>
         /\ UNCHANGED <<requests, wire>> /\ todo[g] # << >> /\ Head(todo[g]) = m
         /\ m \in Stops => /\ Kind(g) \in {"continue", "next", "runner"}
                           /\ todo'[g] \in {HeldUnlock, << >>}
<1>1. TypeOK /\ ShapeInv /\ Send(g, m) /\ ~Panics("sendOnClosedSendQueue")
  BY DEF HandlerInv, Sends
<1>2. /\ outgoing = << >> /\ outgoing' = <<[from |-> g, type |-> m]>>
      /\ UNCHANGED <<requests, wire>> /\ todo[g] # << >> /\ Head(todo[g]) = m
  BY <1>1, SendShifts DEF Send, At
<1>3. ASSUME m \in Stops
      PROVE  /\ Kind(g) \in {"continue", "next", "runner"}
             /\ todo'[g] \in {HeldUnlock, << >>}
  <2>1. m # "response"
    BY <1>3 DEF Stops
  <2>2. \/ Kind(g) = "continue" /\ Shifts(g, HeldEvent(m), HeldUnlock)
        \/ Kind(g) \in {"next", "runner"} /\ Shifts(g, ToSend(m), << >>)
    BY <1>1, <1>3, <2>1, SendShifts
  <2> QED BY <1>1, <2>2 DEF Shifts, TypeOK
<1>4. QED BY <1>2, <1>3

LEMMA AcknowledgedStays ==
  ASSUME HandlerInv, AckInv, [Next]_vars, NEW g \in Goroutines
  PROVE  Acknowledged(g)'
<1> SUFFICES ASSUME Kind(g)' \in {"continue", "next"}
             PROVE  todo'[g] \in {OnContinue, OnNext} \/ outgoing' = <<Response(g)>> \/ Answered(g)'
  BY DEF Acknowledged, Response
<1>1. CASE Kind(g)' # Kind(g)
  <2>1. todo'[g] = Handler[Kind(g)']
    BY <1>1, KindGrows
  <2> QED BY <2>1 DEF Handler
<1>2. CASE Kind(g)' = Kind(g)
  <2>1. todo'[g] = todo[g] \/ CommandStep(g)
    <3>1. g # Runner
      BY <1>2 DEF Kind
    <3> QED BY <1>2, <3>1, OwnSteps DEF Commanding
  <2>2. CASE todo[g] \in {OnContinue, OnNext} /\ todo'[g] = todo[g]
    BY <2>2
  <2>3. CASE todo[g] \in {OnContinue, OnNext} /\ CommandStep(g)
    <3>1. Head(todo[g]) = "response" /\ "response" \in Messages
      BY <2>3, HeadOfContinue, HeadOfOthers DEF Messages
    <3>2. Sends(g, "response")
      BY <2>3, <3>1, OnlySends
    <3> QED BY <3>1, <3>2, SentStops DEF Response
  <2>4. CASE outgoing = <<Response(g)>>
    <3>1. CASE UNCHANGED outgoing
      BY <2>4, <3>1
    <3>2. CASE Writer
      <4>1. outgoing[1] = Response(g)
        BY <2>4
      <4>2. Answered(g)'
        <5>1. PICK m \in Message :
                /\ outgoing = <<m>> /\ Len(wire) + 1 \in DOMAIN wire'
                /\ wire'[Len(wire) + 1] = m
          BY <3>2, Written DEF HandlerInv
        <5>2. m = Response(g)
          BY <4>1, <5>1
        <5> QED BY <5>1, <5>2 DEF Answered, Response
      <4> QED BY <4>2
    <3>3. ASSUME NEW h \in Goroutines, NEW m \in Messages, Sends(h, m) PROVE FALSE
      <4>1. outgoing = << >>
        BY <3>3, SentStops
      <4> QED BY <2>4, <4>1
    <3> QED BY <3>1, <3>2, <3>3, MessageSteps
  <2>5. CASE Answered(g)
    BY <2>5, WireGrows
  <2> QED BY <1>2, <2>1, <2>2, <2>3, <2>4, <2>5 DEF AckInv, Acknowledged
<1>3. QED BY <1>1, <1>2

LEMMA StopEventsAreStops == StopEvents \subseteq Stops /\ StopEvents \subseteq Messages
BY DEF StopEvents, Stops, Messages, Events

LEMMA AcksKeepTheirOrder ==
  ASSUME HandlerInv, AckInv, [Next]_vars
  PROVE  AckInv'
<1>1. \A g \in Goroutines : Acknowledged(g)'
  BY AcknowledgedStays
<1>2. ASSUME UNCHANGED <<outgoing, wire>> PROVE AckInv'
  BY <1>1, <1>2 DEF AckInv, AcknowledgedFirst, Answered
<1>3. ASSUME Writer PROVE AckInv'
  <2>1. PICK m \in Message :
           /\ outgoing = <<m>> /\ outgoing' = << >>
           /\ DOMAIN wire = 1 .. Len(wire) /\ Len(wire) \in Nat
           /\ DOMAIN wire' = 1 .. (Len(wire) + 1)
           /\ \A i \in DOMAIN wire : i \in DOMAIN wire' /\ wire'[i] = wire[i]
           /\ wire'[Len(wire) + 1] = m
    BY <1>3, Written DEF HandlerInv
  <2>2. m.type \in StopEvents /\ m.from # Runner => Answered(m.from)
    <3>1. 1 \in DOMAIN outgoing /\ outgoing[1] = m
      BY <2>1
    <3> QED BY <3>1 DEF AckInv
  <2>3. ASSUME NEW i \in DOMAIN wire', wire'[i].type \in StopEvents, wire'[i].from # Runner
        PROVE  \E j \in 1 .. i - 1 : wire'[j] = Response(wire'[i].from)
    <3>1. CASE i = Len(wire) + 1
      <4>1. PICK j \in DOMAIN wire : wire[j] = Response(m.from)
        BY <2>1, <2>2, <2>3, <3>1 DEF Answered, Response
      <4>2. wire'[j] = wire[j] /\ j \in 1 .. i - 1 /\ wire'[i] = m
        BY <2>1, <3>1, <4>1
      <4> QED BY <4>1, <4>2
    <3>2. CASE i # Len(wire) + 1
      <4>1. i \in DOMAIN wire /\ wire'[i] = wire[i]
        BY <2>1, <3>2
      <4>2. PICK j \in 1 .. i - 1 : wire[j] = Response(wire[i].from)
        BY <2>3, <4>1 DEF AckInv, AcknowledgedFirst, Response
      <4>3. j \in DOMAIN wire
        BY <2>1, <4>1
      <4> QED BY <2>1, <4>1, <4>2, <4>3
    <3> QED BY <3>1, <3>2
  <2>4. AcknowledgedFirst'
    BY <2>3 DEF AcknowledgedFirst, Response
  <2>5. DOMAIN outgoing' = {}
    BY <2>1
  <2> QED BY <1>1, <2>4, <2>5 DEF AckInv
<1>4. ASSUME NEW g \in Goroutines, NEW m \in Messages, Sends(g, m) PROVE AckInv'
  <2>1. /\ outgoing = << >> /\ outgoing' = <<[from |-> g, type |-> m]>> /\ UNCHANGED wire
        /\ Head(todo[g]) = m
        /\ m \in Stops => Kind(g) \in {"continue", "next", "runner"}
    BY <1>4, SentStops
  <2>2. ASSUME m \in StopEvents, g # Runner PROVE Answered(g)
    <3>1. Kind(g) \in {"continue", "next"}
      BY <2>1, <2>2, StopEventsAreStops, KindType DEF HandlerInv
    <3>2. todo[g] \notin {OnContinue, OnNext}
      BY <2>1, <2>2, HeadOfContinue, HeadOfOthers DEF StopEvents
    <3>3. outgoing # <<Response(g)>>
      BY <2>1
    <3> QED BY <3>1, <3>2, <3>3 DEF AckInv, Acknowledged
  <2>3. \A i \in DOMAIN outgoing' : outgoing'[i] = [from |-> g, type |-> m]
    BY <2>1
  <2>4. Answered(g) => Answered(g)'
    BY WireGrows
  <2>5. \A i \in DOMAIN outgoing' : outgoing'[i].type \in StopEvents /\ outgoing'[i].from # Runner
             => Answered(outgoing[i].from)'
    BY <2>2, <2>3, <2>4 DEF Answered
  <2>6. AcknowledgedFirst'
    BY <2>1 DEF AckInv, AcknowledgedFirst
  <2> QED BY <1>1, <2>5, <2>6 DEF AckInv
<1>5. QED BY <1>2, <1>3, <1>4, MessageSteps

(***************************************************************************)
(* The stop of a command is announced after the response to it, whatever   *)
(* the client sends and however many of its requests are in progress.      *)
(***************************************************************************)
THEOREM CommandsAreAcknowledgedFirst == Spec => []AcknowledgedFirst
<1>1. Init => AckInv
  <2> SUFFICES ASSUME Init PROVE AckInv
    OBVIOUS
  <2>1. requests = << >> /\ outgoing = << >> /\ wire = << >>
    BY DEF Init, SessionInit
  <2>2. DOMAIN requests = {} /\ DOMAIN outgoing = {} /\ DOMAIN wire = {}
    BY <2>1
  <2> QED BY <2>2 DEF AckInv, Acknowledged, Kind, AcknowledgedFirst
<1>2. HandlerInv /\ AckInv /\ [Next]_vars => AckInv'
  BY AcksKeepTheirOrder
<1>3. AckInv => AcknowledgedFirst
  BY DEF AckInv
<1>4. QED BY <1>1, <1>2, <1>3, HandlerInvariantHolds, PTL DEF Spec

-----------------------------------------------------------------------------
(***************************************************************************)
(* The inductive invariant of who has told of a stop: each goroutine tells *)
(* once, when the command it is there for is over.                         *)
(***************************************************************************)
Reported(g) ==
  /\ Kind(g) \in {"continue", "next", "runner"}
  /\ todo[g] \in {<< >>, HeldUnlock}
  /\ g = Runner => Spawned

Tells(m, g) == m.type \in StopEvents /\ m.from = g
Told(g) == \E i \in DOMAIN wire : Tells(wire[i], g)

OwnInv ==
  /\ \A i, j \in DOMAIN wire :
       wire[i].type \in StopEvents /\ Tells(wire[j], wire[i].from) => i = j
  /\ \A i \in DOMAIN wire : wire[i].type \in StopEvents => Reported(wire[i].from)
  /\ \A i \in DOMAIN outgoing :
       outgoing[i].type \in StopEvents =>
         Reported(outgoing[i].from) /\ ~Told(outgoing[i].from)

LEMMA CommandsAreNonempty ==
  ASSUME NEW g, CommandStep(g)
  PROVE  todo[g] # << >>
BY DEF CommandStep, ReadSource, StartMachine, Spawn, Lock, Unlock, Begin, Continues, Return,
   IsOff, ProduceStopEvent, Send, At

\* What a launch has spawned it has spawned.
LEMMA SpawnedStays ==
  ASSUME HandlerInv, [Next]_vars, Spawned
  PROVE  Spawned'
<1>1. PICK g \in Goroutines : Kind(g) = "launch" /\ todo[g] \notin Unspawned
  BY DEF Spawned
<1>2. todo[g] \in {ToRespond, << >>}
  <2>1. todo[g] \in LaunchRest
    BY <1>1 DEF HandlerInv, ShapeInv, ShapeOf, Rest
  <2> QED BY <1>1, <2>1 DEF LaunchRest, Unspawned
<1>3. Kind(g)' = "launch" /\ (todo'[g] = todo[g] \/ CommandStep(g))
  <2>1. g # Runner
    BY <1>1 DEF Kind
  <2> QED BY <1>1, <2>1, OwnSteps DEF Commanding
<1>4. ASSUME CommandStep(g) PROVE todo'[g] = << >>
  <2>1. todo[g] = ToRespond
    BY <1>2, <1>4, CommandsAreNonempty
  <2>2. Head(todo[g]) = "response" /\ "response" \in Messages /\ "response" \notin Stops
    BY <2>1, HeadOfOthers DEF Messages, Stops
  <2>3. Sends(g, "response")
    BY <1>4, <2>2, OnlySends
  <2>4. Shifts(g, OnLaunchFailed, ToSpawnReport) \/ Shifts(g, ToRespond, << >>)
    BY <1>1, <2>2, <2>3, SendShifts DEF Sends, HandlerInv, Commanding
  <2>5. ~Shifts(g, OnLaunchFailed, ToSpawnReport)
    BY <2>1, RespondDiffers DEF Shifts, Unspawned
  <2> QED BY <2>4, <2>5 DEF Shifts, HandlerInv, TypeOK
<1>5. todo'[g] \notin Unspawned
  BY <1>1, <1>3, <1>4, RespondDiffers
<1>6. QED BY <1>3, <1>5 DEF Spawned

\* Once it has told it is over.
LEMMA ReportedStays ==
  ASSUME HandlerInv, [Next]_vars, NEW g \in Goroutines, Reported(g)
  PROVE  Reported(g)'
<1>1. Kind(g) \in Commanding
  BY DEF Reported, Commanding
<1>2. g = Runner => Spawned'
  BY SpawnedStays DEF Reported
<1>3. ASSUME CommandStep(g) PROVE todo'[g] = << >>
  <2>1. todo[g] = HeldUnlock /\ Head(todo[g]) = "unlock"
    BY <1>3, CommandsAreNonempty, HeadOfContinue DEF Reported
  <2>2. \A step : At(g, step) => step = "unlock"
    BY <2>1 DEF At
  <2>3. "unlock" \notin Messages
    BY DEF Messages, Events
  <2>4. Unlock(g)
    BY <1>3, <2>2, <2>3 DEF CommandStep, ReadSource, StartMachine, Spawn, Lock, Begin, Continues,
       Return, IsOff, ProduceStopEvent, Send
  <2> QED BY <2>4, LockShifts DEF Shifts, HandlerInv, TypeOK
<1>4. ASSUME NEW h \in Goroutines, Spawns(h), g = Runner PROVE FALSE
  <2>1. Kind(h) = "launch" /\ todo[h] \in Unspawned
    BY <1>4, SpawnShifts DEF Spawns, HandlerInv, Unspawned
  <2>2. PICK l \in Goroutines : Kind(l) = "launch" /\ todo[l] \notin Unspawned
    BY <1>4 DEF Reported, Spawned
  <2> QED BY <2>1, <2>2 DEF HandlerInv, LaunchInv
<1>5. QED BY <1>1, <1>2, <1>3, <1>4, OwnSteps DEF Reported

LEMMA WriteOfOne ==
  ASSUME HandlerInv, OwnInv, [Next]_vars, Writer
  PROVE  OwnInv'
<1>1. PICK m \in Message :
         /\ outgoing = <<m>> /\ outgoing' = << >>
         /\ DOMAIN wire = 1 .. Len(wire) /\ Len(wire) \in Nat
         /\ DOMAIN wire' = 1 .. (Len(wire) + 1)
         /\ \A i \in DOMAIN wire : i \in DOMAIN wire' /\ wire'[i] = wire[i]
         /\ wire'[Len(wire) + 1] = m
         /\ UNCHANGED <<requests, todo>>
  BY Written DEF HandlerInv
<1>2. \A g : Reported(g) => Reported(g)'
  BY <1>1, KindStays DEF Reported, Spawned
<1>3. m.type \in StopEvents => Reported(m.from) /\ ~Told(m.from)
  <2>1. 1 \in DOMAIN outgoing /\ outgoing[1] = m
    BY <1>1
  <2> QED BY <2>1 DEF OwnInv
<1>4. \A i \in DOMAIN wire' : i \in DOMAIN wire \/ i = Len(wire) + 1
  BY <1>1
<1>5. ASSUME NEW i \in DOMAIN wire', NEW j \in DOMAIN wire',
             wire'[i].type \in StopEvents, Tells(wire'[j], wire'[i].from)
      PROVE  i = j
  <2>1. CASE i \in DOMAIN wire /\ j \in DOMAIN wire
    BY <1>1, <1>5, <2>1 DEF OwnInv
  <2>2. CASE i \in DOMAIN wire /\ j = Len(wire) + 1
    BY <1>1, <1>3, <1>5, <2>2 DEF Told, Tells
  <2>3. CASE i = Len(wire) + 1 /\ j \in DOMAIN wire
    BY <1>1, <1>3, <1>5, <2>3 DEF Told, Tells
  <2> QED BY <1>4, <2>1, <2>2, <2>3
<1>6. ASSUME NEW i \in DOMAIN wire', wire'[i].type \in StopEvents PROVE Reported(wire[i].from)'
  <2>1. CASE i \in DOMAIN wire
    <3>1. PICK g : g = wire[i].from
      OBVIOUS
    <3>2. Reported(g)' /\ wire'[i].from = g
      BY <1>1, <1>2, <1>6, <2>1, <3>1 DEF OwnInv
    <3> QED BY <3>2 DEF Reported
  <2>2. CASE i = Len(wire) + 1
    <3>1. PICK g : g = m.from
      OBVIOUS
    <3>2. Reported(g)' /\ wire'[i].from = g
      BY <1>1, <1>2, <1>3, <1>6, <2>2, <3>1
    <3> QED BY <3>2 DEF Reported
  <2> QED BY <1>4, <2>1, <2>2
<1>7. DOMAIN outgoing' = {}
  BY <1>1
<1>8. QED BY <1>5, <1>6, <1>7 DEF OwnInv, Tells

\* The messages and where they come from.
LEMMA FromGoroutines ==
  ASSUME TypeOK
  PROVE  /\ \A i \in DOMAIN wire : wire[i].from \in Goroutines
         /\ \A i \in DOMAIN outgoing : outgoing[i].from \in Goroutines
<1>1. wire \in Seq(Message) /\ outgoing \in Seq(Message)
  BY DEF TypeOK, Message
<1>2. \A i \in DOMAIN wire : wire[i] \in Message
  BY <1>1, ElementOfSeq, LenProperties
<1>3. \A i \in DOMAIN outgoing : outgoing[i] \in Message
  BY <1>1, ElementOfSeq, LenProperties
<1>4. QED BY <1>2, <1>3 DEF Message

\* What holds of the messages written goes on to hold while no other is.
LEMMA WireKept ==
  ASSUME HandlerInv, OwnInv, [Next]_vars, UNCHANGED wire
  PROVE  /\ \A i, j \in DOMAIN wire' :
              wire'[i].type \in StopEvents /\ Tells(wire'[j], wire'[i].from) => i = j
         /\ \A i \in DOMAIN wire' : wire'[i].type \in StopEvents => Reported(wire[i].from)'
<1>1. ASSUME NEW i \in DOMAIN wire', wire'[i].type \in StopEvents PROVE Reported(wire[i].from)'
  <2>1. PICK g \in Goroutines : g = wire[i].from
    BY FromGoroutines DEF HandlerInv
  <2>2. Reported(g)'
    BY <1>1, <2>1, ReportedStays DEF OwnInv
  <2> QED BY <2>1, <2>2 DEF Reported
<1>2. QED BY <1>1 DEF OwnInv

LEMMA EachTellsOnce ==
  ASSUME HandlerInv, OwnInv, [Next]_vars
  PROVE  OwnInv'
<1>1. ASSUME UNCHANGED <<outgoing, wire>> PROVE OwnInv'
  <2>1. ASSUME NEW i \in DOMAIN outgoing', outgoing'[i].type \in StopEvents
        PROVE  Reported(outgoing[i].from)' /\ ~Told(outgoing[i].from)'
    <3>1. PICK g \in Goroutines : g = outgoing[i].from
      BY <1>1, <2>1, FromGoroutines DEF HandlerInv
    <3>2. Reported(g)' /\ ~Told(g)'
      BY <1>1, <2>1, <3>1, ReportedStays DEF OwnInv, Told
    <3> QED BY <1>1, <3>1, <3>2 DEF Reported, Told
  <2> QED BY <1>1, <2>1, WireKept DEF OwnInv, Tells
<1>2. ASSUME NEW g \in Goroutines, NEW m \in Messages, Sends(g, m) PROVE OwnInv'
  <2>1. /\ outgoing = << >> /\ outgoing' = <<[from |-> g, type |-> m]>>
        /\ UNCHANGED <<requests, wire>> /\ todo[g] # << >> /\ Head(todo[g]) = m
        /\ m \in Stops => /\ Kind(g) \in {"continue", "next", "runner"}
                          /\ todo'[g] \in {HeldUnlock, << >>}
    BY <1>2, SentStops
  <2>2. ASSUME m \in StopEvents PROVE Reported(g)' /\ ~Told(g)'
    <3>1. Kind(g)' \in {"continue", "next", "runner"} /\ todo'[g] \in {<< >>, HeldUnlock}
      BY <2>1, <2>2, KindStays, StopEventsAreStops
    <3>2. g = Runner => Spawned'
      BY <2>1, SpawnedStays DEF HandlerInv, LaunchInv
    <3>3. todo[g] \notin {<< >>, HeldUnlock}
      BY <2>1, <2>2, HeadOfContinue DEF StopEvents
    <3>4. ~Told(g)
      BY <3>3 DEF OwnInv, Told, Tells, Reported
    <3>5. ~Told(g)'
      BY <2>1, <3>4 DEF Told
    <3> QED BY <3>1, <3>2, <3>5 DEF Reported
  <2>3. \A i \in DOMAIN outgoing' : outgoing'[i] = [from |-> g, type |-> m]
    BY <2>1
  <2>4. \A i \in DOMAIN outgoing' : outgoing'[i].type \in StopEvents =>
           Reported(outgoing[i].from)' /\ ~Told(outgoing[i].from)'
    BY <2>2, <2>3 DEF Reported, Told
  <2> QED BY <2>1, <2>4, WireKept DEF OwnInv, Tells
<1>3. QED BY <1>1, <1>2, WriteOfOne, MessageSteps

LEMMA OwnInvariantHolds == Spec => []OwnInv
<1>1. Init => OwnInv
  <2> SUFFICES ASSUME Init PROVE OwnInv
    OBVIOUS
  <2>1. DOMAIN outgoing = {} /\ DOMAIN wire = {}
    BY DEF Init, SessionInit
  <2> QED BY <2>1 DEF OwnInv
<1>2. HandlerInv /\ OwnInv /\ [Next]_vars => OwnInv'
  BY EachTellsOnce
<1>3. QED BY <1>1, <1>2, HandlerInvariantHolds, PTL DEF Spec

\* Who is to tell of the stop that a request leads to.
Teller(g) == IF Kind(g) = "launch" THEN Runner ELSE g

LEMMA FiniteCounts ==
  ASSUME TypeOK
  PROVE  /\ IsFiniteSet(Announced) /\ IsFiniteSet(Commanded)
         /\ Cardinality(Announced) \in Nat /\ Cardinality(Commanded) \in Nat
         /\ \A r \in Commanded : r \in Goroutines /\ r # Runner /\ Kind(r) = requests[r].kind
<1>1. /\ DOMAIN wire = 1 .. Len(wire) /\ Len(wire) \in Nat
      /\ DOMAIN requests = 1 .. Len(requests) /\ Len(requests) \in Nat
      /\ Len(requests) <= MaxRequests
  BY LenProperties DEF TypeOK
<1>2. IsFiniteSet(DOMAIN wire) /\ IsFiniteSet(DOMAIN requests)
  BY <1>1, FS_Interval
<1>3. Announced \in SUBSET DOMAIN wire /\ Commanded \in SUBSET DOMAIN requests
  BY DEF Announced, Commanded
<1>4. IsFiniteSet(Announced) /\ IsFiniteSet(Commanded)
  BY <1>2, <1>3, FS_Subset
<1>5. \A r \in DOMAIN requests : r \in Goroutines
  BY <1>1, SessionAssumption DEF Goroutines, Requests
<1>6. QED BY <1>3, <1>4, <1>5, KindType, FS_CardinalityType

(***************************************************************************)
(* A client that has counted as many stops as commands has been told of    *)
(* every one: the messages lead back to as many commands as there are.     *)
(***************************************************************************)
LEMMA CountedIsTold ==
  ASSUME HandlerInv, OwnInv, Cardinality(Announced) = Cardinality(Commanded),
         NEW r \in Commanded
  PROVE  Told(Teller(r))
<1> SUFFICES ASSUME ~Told(Teller(r)) PROVE FALSE
  OBVIOUS
<1> DEFINE T == Commanded \ {r}
           Of(i, c) == Teller(c) = wire[i].from
<1>1. IsFiniteSet(Announced) /\ IsFiniteSet(T) /\ Cardinality(T) < Cardinality(Announced)
  <2>1. /\ IsFiniteSet(Announced) /\ IsFiniteSet(Commanded)
        /\ Cardinality(Announced) \in Nat /\ Cardinality(Commanded) \in Nat
    BY FiniteCounts DEF HandlerInv
  <2>2. IsFiniteSet(T) /\ Cardinality(T) = Cardinality(Commanded) - 1
    BY <2>1, FS_RemoveElement
  <2> QED BY <2>1, <2>2
<1>2. ASSUME NEW i \in Announced PROVE \E c \in T : Of(i, c)
  <2>1. i \in DOMAIN wire /\ wire[i].type \in StopEvents
    BY DEF Announced, StopEvents
  <2>2. PICK g \in Goroutines : g = wire[i].from
    BY <2>1, FromGoroutines DEF HandlerInv
  <2>3. Reported(g) /\ Told(g)
    BY <2>1, <2>2 DEF OwnInv, Told, Tells
  <2>4. CASE g = Runner
    <3>1. PICK c \in Goroutines : Kind(c) = "launch"
      BY <2>3, <2>4 DEF Reported, Spawned
    <3>2. c \in Commanded
      BY <3>1, KindType DEF HandlerInv, Commanded
    <3>3. Teller(c) = g
      BY <2>4, <3>1 DEF Teller
    <3> QED BY <2>2, <2>3, <3>2, <3>3
  <2>5. CASE g # Runner
    <3>1. Kind(g) \in {"continue", "next"}
      BY <2>3, <2>5, KindType DEF Reported, HandlerInv
    <3>2. g \in Commanded
      BY <3>1, KindType DEF HandlerInv, Commanded
    <3>3. Teller(g) = g
      BY <3>1 DEF Teller
    <3> QED BY <2>2, <2>3, <3>2, <3>3
  <2> QED BY <2>4, <2>5
<1> DEFINE f == [i \in Announced |-> CHOOSE c \in T : Of(i, c)]
<1>3. \A i \in Announced : f[i] \in T /\ Of(i, f[i])
  BY <1>2
<1>4. f \in [Announced -> T]
  BY <1>3
<1> HIDE DEF f, T
<1>5. PICK i \in Announced, j \in Announced : i # j /\ f[i] = f[j]
  BY <1>1, <1>4, FS_PigeonHole
<1>6. wire[i].from = wire[j].from
  BY <1>3, <1>5
<1>7. i \in DOMAIN wire /\ j \in DOMAIN wire
        /\ wire[i].type \in StopEvents /\ wire[j].type \in StopEvents
  BY DEF Announced, StopEvents
<1>8. QED BY <1>5, <1>6, <1>7 DEF OwnInv, Tells

(***************************************************************************)
(* A client that has been told of every stop, and not of the end, sees a   *)
(* debuggee that nobody moves: whoever told was no longer running it, and  *)
(* all have told.  It is so with any client, orderly or not.               *)
(***************************************************************************)
THEOREM ToldIsQuiet == Spec => []QuietWhenTold
<1>1. HandlerInv /\ OwnInv => QuietWhenTold
  <2> SUFFICES ASSUME HandlerInv, OwnInv, ToldStopped, NEW g \in Goroutines, busy[g] # "idle"
               PROVE  FALSE
    BY DEF QuietWhenTold
  <2>1. Cardinality(Announced) = Cardinality(Commanded)
    BY DEF ToldStopped
  <2>2. todo[g] \in {HeldReturn, ToReturn} /\ todo[g] \in Rest(Kind(g))
    BY DEF HandlerInv, ShapeInv, ShapeOf
  <2>3. todo[g] # << >> /\ Head(todo[g]) = "return"
    BY <2>2, HeadOfContinue, HeadOfOthers, ShapesDiffer DEF Held
  <2>4. Kind(g) \in {"continue", "next", "runner"}
    BY <2>2, <2>3, Places
  <2>5. \E r \in Commanded : Teller(r) = g
    <3>1. CASE g = Runner
      <4>1. PICK c \in Goroutines : Kind(c) = "launch"
        BY <2>3, <3>1 DEF HandlerInv, LaunchInv, Spawned
      <4>2. c \in Commanded
        BY <4>1, KindType DEF HandlerInv, Commanded
      <4> QED BY <3>1, <4>1, <4>2 DEF Teller
    <3>2. CASE g # Runner
      <4>1. Kind(g) \in {"continue", "next"}
        BY <2>4, <3>2, KindType DEF HandlerInv
      <4>2. g \in Commanded
        BY <4>1, KindType DEF HandlerInv, Commanded
      <4> QED BY <4>1, <4>2 DEF Teller
    <3> QED BY <3>1, <3>2
  <2>6. Told(g)
    BY <2>1, <2>5, CountedIsTold
  <2>7. todo[g] \in {<< >>, HeldUnlock}
    BY <2>6 DEF OwnInv, Told, Tells, Reported
  <2> QED BY <2>3, <2>7, HeadOfContinue
<1>2. QED BY <1>1, HandlerInvariantHolds, OwnInvariantHolds, PTL
=============================================================================

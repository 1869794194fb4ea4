--------------------- MODULE MonkeyHandlerClientProofs ---------------------
(***************************************************************************)
(* What an orderly client of MonkeyHandler can rely on besides.            *)
(***************************************************************************)
EXTENDS MonkeyHandlerEventProofs

-----------------------------------------------------------------------------
(***************************************************************************)
(* An orderly client.  It commands and examines only a debuggee that has   *)
(* left the start, for it waits to be told of the launch's stop; and of    *)
(* at most one command it has not been told.                               *)
(***************************************************************************)
Examining == {"continue", "next", "stackTrace", "scopes", "variables"}

Owing(g) == Kind(g) \in {"launch", "continue", "next"} /\ ~Told(Teller(g))

OrderInv ==
  /\ \A g \in Goroutines : Kind(g) \in Examining => Launched /\ machine # "OFF"
  /\ \A g \in Goroutines :
       Kind(g) \in {"continue", "next"} => \E l \in Goroutines : Kind(l) = "launch"
  /\ \A g, h \in Goroutines : Owing(g) /\ Owing(h) => g = h

\* One request is asked at a time, when the client may ask it.
LEMMA OneIsAsked ==
  ASSUME HandlerInv, [Next]_vars, NEW g \in Goroutines, Kind(g)' # Kind(g)
  PROVE  /\ Ask /\ UNCHANGED <<wire, machine, failed>>
         /\ \A h \in Goroutines \ {g} : Kind(h)' = Kind(h)
         /\ Care # "careless" => InOrder(Kind(g)')
         /\ Kind(g)' = "launch" => ~\E l \in Goroutines : Kind(l) = "launch"
<1>1. Ask /\ UNCHANGED <<wire, machine, failed>>
  BY KindGrows DEF handlerVars
<1>2. PICK kind \in Kinds \ {"hangup", "garbage"}, frame \in 1 .. MaxDepth :
        /\ kind = "launch" => ~Asked({"launch"})
        /\ Care # "careless" => InOrder(kind)
        /\ HandleRequest([kind |-> kind, frame |-> frame], Handler[kind])
  BY <1>1 DEF Ask
<1> PICK a : a = Len(requests) + 1
  OBVIOUS
<1>3. /\ Kind(a)' = kind
      /\ \A h \in Goroutines \ {a} : Kind(h)' = Kind(h)
  BY <1>2, AskedKind DEF HandlerInv
<1>4. a = g
  BY <1>3
<1>5. \A l \in Goroutines : Kind(l) = "launch" => Asked({"launch"})
  BY KindType DEF HandlerInv, Asked
<1>6. QED BY <1>1, <1>2, <1>3, <1>4, <1>5

\* The client has been told of all the commands before it goes on.
LEMMA AskedWhenTold ==
  ASSUME HandlerInv, DebuggeeInv, OwnInv, NEW k \in Examining, InOrder(k), Care = "orderly"
  PROVE  /\ Launched /\ machine # "OFF"
         /\ \E l \in Goroutines : Kind(l) = "launch"
         /\ \A g \in Goroutines : ~Owing(g)
<1>1. Asked({"launch"}) /\ ToldStopped
  BY DEF InOrder, Examining
<1>2. PICK l \in DOMAIN requests : requests[l].kind = "launch"
  BY <1>1 DEF Asked
<1>3. l \in Goroutines /\ l \in Commanded /\ Kind(l) = "launch"
  BY <1>2, FiniteCounts DEF Commanded, HandlerInv
<1>4. \A r \in Commanded : Told(Teller(r))
  BY <1>1, CountedIsTold DEF ToldStopped
<1>5. Told(Runner)
  BY <1>3, <1>4 DEF Teller
<1>6. Launched /\ machine # "OFF"
  BY <1>5 DEF Told, Tells, DebuggeeInv, SoundMessages, MessageTrue
<1>7. \A g \in Goroutines : ~Owing(g)
  BY <1>4, KindType DEF Owing, Commanded, HandlerInv
<1>8. QED BY <1>3, <1>6, <1>7

LEMMA ToldStays ==
  ASSUME HandlerInv, [Next]_vars
  PROVE  /\ \A g : Told(g) => Told(g)'
         /\ \A g \in Goroutines : Kind(g)' = Kind(g) /\ Owing(g)' => Owing(g)
<1>1. \A g : Told(g) => Told(g)'
  BY WireGrows DEF Told, Tells
<1>2. ASSUME NEW g \in Goroutines, Kind(g)' = Kind(g), Owing(g)' PROVE Owing(g)
  <2>1. PICK t : t = Teller(g)
    OBVIOUS
  <2>2. Teller(g)' = t
    BY <1>2, <2>1 DEF Teller
  <2>3. ~Told(t)'
    BY <1>2, <2>2 DEF Owing, Told
  <2> QED BY <1>1, <1>2, <2>1, <2>3 DEF Owing
<1>3. QED BY <1>1, <1>2

LEMMA OrderStays ==
  ASSUME HandlerInv, DebuggeeInv, OwnInv, OrderInv, [Next]_vars, Care = "orderly"
  PROVE  OrderInv'
<1>1. ASSUME NEW g \in Goroutines, Kind(g)' \in Examining
      PROVE  /\ Launched' /\ machine' # "OFF"
             /\ Kind(g)' \in {"continue", "next"} => (\E l \in Goroutines : Kind(l) = "launch")'
  <2>1. CASE Kind(g)' = Kind(g)
    <3>1. Launched' /\ machine' # "OFF"
      BY <1>1, <2>1, DebuggeeStable DEF OrderInv
    <3>2. ASSUME Kind(g)' \in {"continue", "next"}
          PROVE  (\E l \in Goroutines : Kind(l) = "launch")'
      <4>1. PICK l \in Goroutines : Kind(l) = "launch"
        BY <2>1, <3>2 DEF OrderInv
      <4>2. Kind(l)' = "launch"
        BY <4>1, OwnSteps DEF Commanding
      <4> QED BY <4>2
    <3> QED BY <3>1, <3>2
  <2>2. CASE Kind(g)' # Kind(g)
    <3>1. PICK k : k = Kind(g)'
      OBVIOUS
    <3>2. InOrder(k) /\ UNCHANGED <<machine, failed>>
      BY <2>2, <3>1, OneIsAsked
    <3>3. Launched /\ machine # "OFF" /\ \E l \in Goroutines : Kind(l) = "launch"
      BY <1>1, <3>1, <3>2, AskedWhenTold
    <3>4. PICK l \in Goroutines : Kind(l) = "launch"
      BY <3>3
    <3>5. Kind(l)' = "launch"
      BY <3>4, OwnSteps DEF Commanding
    <3> QED BY <3>2, <3>3, <3>5 DEF Launched
  <2> QED BY <2>1, <2>2
<1>2. ASSUME NEW g \in Goroutines, NEW h \in Goroutines, Kind(g)' # Kind(g), h # g,
             Owing(g)', Owing(h)'
      PROVE  FALSE
  <2>1. PICK k : k = Kind(g)'
    OBVIOUS
  <2>2. InOrder(k) /\ Kind(h)' = Kind(h) /\ (k = "launch" => ~\E l \in Goroutines : Kind(l) = "launch")
    BY <1>2, <2>1, OneIsAsked
  <2>3. Owing(h) /\ k \in {"launch", "continue", "next"}
    BY <1>2, <2>1, <2>2, ToldStays DEF Owing
  <2>4. CASE k = "launch"
    <3>1. Kind(h) \in {"launch", "continue", "next"}
      BY <2>3 DEF Owing
    <3> QED BY <2>2, <2>4, <3>1 DEF OrderInv
  <2>5. CASE k \in {"continue", "next"}
    BY <2>2, <2>3, <2>5, AskedWhenTold DEF Examining
  <2> QED BY <2>3, <2>4, <2>5
<1>3. ASSUME NEW g \in Goroutines, NEW h \in Goroutines, Owing(g)', Owing(h)'
      PROVE  g = h
  BY <1>2, <1>3, ToldStays DEF OrderInv
<1>4. ASSUME NEW g \in Goroutines, Kind(g)' \in {"continue", "next"}
      PROVE  (\E l \in Goroutines : Kind(l) = "launch")'
  BY <1>1, <1>4 DEF Examining
<1>5. QED BY <1>1, <1>3, <1>4 DEF OrderInv

LEMMA OrderInvariantHolds ==
  ASSUME Care = "orderly"
  PROVE  Spec => [](HandlerInv /\ DebuggeeInv /\ OwnInv /\ OrderInv)
<1>1. Init => OrderInv
  <2> SUFFICES ASSUME Init PROVE OrderInv
    OBVIOUS
  <2>1. DOMAIN requests = {}
    BY DEF Init, SessionInit
  <2>2. \A g : Kind(g) \in {"runner", "none"}
    BY <2>1 DEF Kind
  <2> QED BY <2>2 DEF OrderInv, Examining, Owing
<1>2. HandlerInv /\ DebuggeeInv /\ OwnInv /\ OrderInv /\ [Next]_vars => OrderInv'
  BY OrderStays
<1>3. QED BY <1>1, <1>2, DebuggeeInvariantHolds, OwnInvariantHolds, PTL DEF Spec

-----------------------------------------------------------------------------
(***************************************************************************)
(* The lock.  It is left behind by the early return of OnContinueRequest   *)
(* when the debuggee is still at the start, where an orderly client does   *)
(* not continue.                                                           *)
(***************************************************************************)
LockInv == \A g \in bpSetMux : bpSetMux = {g} /\ Kind(g) = "continue" /\ todo[g] \in Held

LEMMA HolderGoesOn ==
  ASSUME HandlerInv, NEW g \in Goroutines, Kind(g) = "continue", todo[g] \in Held,
         machine # "OFF", CommandStep(g)
  PROVE  todo'[g] \in Held \/ bpSetMux' = {}
<1> USE DEF Commanding
<1>1. TypeOK /\ ShapeInv
  BY DEF HandlerInv
<1>2. ASSUME NEW s, NEW t, Shifts(g, s, t) PROVE todo[g] = s /\ todo'[g] = t
  BY <1>1, <1>2 DEF Shifts, TypeOK
<1>3. ASSUME (ReadSource(g) /\ ~Breaks(Unread)) \/ StartMachine(g) \/ Spawns(g) PROVE FALSE
  BY <1>1, <1>3, ReadSourceShifts, StartMachineShifts, SpawnShifts DEF Spawns
<1>4. ASSUME Lock(g) PROVE todo'[g] \in Held
  BY <1>1, <1>2, <1>4, LockShifts DEF Held
<1>5. ASSUME Unlock(g) PROVE bpSetMux' = {}
  BY <1>5 DEF Unlock
<1>6. ASSUME NEW command \in {"run", "step"}, Begin(g, command), ~Breaks("noMachine")
      PROVE  todo'[g] \in Held
  BY <1>1, <1>2, <1>6, BeginShifts DEF Held
<1>7. ASSUME Continues(g) PROVE todo'[g] \in Held
  BY <1>7 DEF Continues
<1>8. ASSUME Return(g) PROVE todo'[g] \in Held
  BY <1>1, <1>2, <1>8, ReturnShifts DEF Held
<1>9. ASSUME IsOff(g) PROVE todo'[g] \in Held
  BY <1>1, <1>2, <1>9, IsOffShifts DEF Held
<1>10. ASSUME ProduceStopEvent(g) PROVE todo'[g] \in Held
  BY <1>1, <1>2, <1>10, StopEventShifts DEF Held
<1>11. ASSUME NEW m \in Messages, Sends(g, m) PROVE todo'[g] \in Held
  <2>1. \/ Shifts(g, OnContinue, Locking) \/ Shifts(g, HeldEvent(m), HeldUnlock)
    BY <1>1, <1>11, SendShifts DEF Sends
  <2>2. ~Shifts(g, OnContinue, Locking)
    BY <1>2, HeldDiffers
  <2> QED BY <1>2, <2>1, <2>2 DEF Held
<1>12. QED BY <1>3, <1>4, <1>5, <1>6, <1>7, <1>8, <1>9, <1>10, <1>11 DEF CommandStep, Spawns, Sends

\* Who takes and gives back the lock.
LEMMA LockSteps ==
  ASSUME HandlerInv, [Next]_vars
  PROVE  UNCHANGED bpSetMux \/ bpSetMux' = {} \/ \E g \in Goroutines : Lock(g)
<1>1. ASSUME Aside \/ Ask \/ Writer PROVE UNCHANGED bpSetMux
  BY <1>1 DEF Aside, commandVars, Ask, Writer, handlerVars
<1>2. ASSUME NEW g \in Goroutines, CommandStep(g)
      PROVE  UNCHANGED bpSetMux \/ bpSetMux' = {} \/ Lock(g)
  BY <1>2 DEF CommandStep, ReadSource, StartMachine, Spawn, Unlock, Begin, Continues, Return,
     IsOff, ProduceStopEvent, Breaks, handlerVars
<1>3. QED BY <1>1, <1>2, StepCases

LEMMA LockStays ==
  ASSUME HandlerInv, OrderInv, LockInv, [Next]_vars
  PROVE  LockInv'
<1>1. ASSUME UNCHANGED bpSetMux, bpSetMux' # {} PROVE LockInv'
  <2>1. PICK g \in Goroutines : bpSetMux = {g} /\ Kind(g) = "continue" /\ todo[g] \in Held
    BY <1>1 DEF LockInv, HandlerInv, TypeOK
  <2>2. machine # "OFF"
    BY <2>1 DEF OrderInv, Examining
  <2>3. Kind(g)' = Kind(g) /\ (todo'[g] = todo[g] \/ CommandStep(g))
    BY <2>1, OwnSteps DEF Commanding, Kind
  <2>4. todo'[g] \in Held
    BY <1>1, <2>1, <2>2, <2>3, HolderGoesOn
  <2> QED BY <1>1, <2>1, <2>3, <2>4 DEF LockInv
<1>2. ASSUME bpSetMux' = {} PROVE LockInv'
  BY <1>2 DEF LockInv
<1>3. ASSUME NEW g \in Goroutines, Lock(g) PROVE LockInv'
  <2>1. Kind(g) = "continue" /\ Shifts(g, Locking, HeldRun) /\ bpSetMux' = {g}
          /\ UNCHANGED requests
    BY <1>3, LockShifts DEF HandlerInv, Lock, OnlyTodo
  <2>2. todo'[g] = HeldRun /\ Kind(g)' = "continue"
    BY <2>1, KindStays DEF Shifts, HandlerInv, TypeOK
  <2> QED BY <2>1, <2>2 DEF LockInv, Held
<1>4. QED BY <1>1, <1>2, <1>3, LockSteps

(***************************************************************************)
(* With an orderly client the lock does not outlive its holder: no         *)
(* goroutine of OnContinueRequest returns, or finishes, before it unlocks. *)
(***************************************************************************)
THEOREM LockIsGivenBack ==
  ASSUME Care = "orderly"
  PROVE  Spec => []LockHasHolder
<1>1. Init => LockInv
  BY DEF Init, LockInv
<1>2. HandlerInv /\ OrderInv /\ LockInv /\ [Next]_vars => LockInv'
  BY LockStays
<1>3. HandlerInv /\ LockInv => LockHasHolder
  <2> SUFFICES ASSUME HandlerInv, LockInv, NEW g \in bpSetMux PROVE g \in active
    BY DEF LockHasHolder
  <2>1. todo[g] # << >> /\ g \in Goroutines
    BY HeldDiffers DEF LockInv, HandlerInv, TypeOK
  <2> QED BY <2>1 DEF HandlerInv, ShapeInv, ShapeOf
<1>4. QED BY <1>1, <1>2, <1>3, OrderInvariantHolds, PTL DEF Spec

-----------------------------------------------------------------------------
(***************************************************************************)
(* The failure.  From the exception on, no goroutine is about to announce  *)
(* anything but the end: one that was before would owe a stop of its own.  *)
(***************************************************************************)
Fails == \E i \in DOMAIN wire : wire[i].type = "exception"

FinalInv ==
  /\ Fails =>
       /\ \A g \in Goroutines : todo[g] # << >> => Head(todo[g]) \notin {"stopped", "exception"}
       /\ \A i \in DOMAIN outgoing : outgoing[i].type \notin {"stopped", "exception"}
  /\ FailureIsFinal

\* An event is what ProduceStopEvent has made of the state.
LEMMA EventsAreProduced ==
  ASSUME HandlerInv, [Next]_vars, NEW g \in Goroutines,
         todo'[g] # todo[g], todo'[g] # << >>, Head(todo'[g]) \in StopEvents
  PROVE  ProduceStopEvent(g) /\ \E e \in Stops : e = StopEvent /\ Head(todo'[g]) = e
<1> USE DEF Commanding
<1>1. TypeOK /\ ShapeInv
  BY DEF HandlerInv
<1>2. Kind(g)' \in {"continue", "next", "runner"}
  <2>1. todo'[g] \in Rest(Kind(g)')
    BY HandlerStep DEF HandlerInv, ShapeInv, ShapeOf
  <2> QED BY <2>1, StopEventsAreStops, Places
<1>3. Kind(g)' = Kind(g)
  <2>1. ASSUME Kind(g)' # Kind(g) PROVE FALSE
    <3>1. todo'[g] = Handler[Kind(g)'] /\ Kind(g)' \in Kinds
      BY <2>1, KindGrows
    <3>2. Head(todo'[g]) = "response"
      BY <1>2, <3>1, HandlerAssumption, HeadOfContinue, HeadOfOthers DEF Handler
    <3> QED BY <3>2 DEF StopEvents
  <2> QED BY <2>1
<1>4. ASSUME NEW s, NEW t, Shifts(g, s, t) PROVE todo'[g] = t
  BY <1>1, <1>4 DEF Shifts, TypeOK
<1>5. {"startMachine", "spawnRun", "response", "run", "return", "isOff", "stopEvent",
       "unlock", "step", "lock", "spawnReport"} \cap StopEvents = {}
  BY DEF StopEvents
<1>6. ASSUME NEW h \in Goroutines, Spawns(h), g = Runner PROVE FALSE
  <2>1. todo'[g] \in {LaunchRun, LaunchReport}
    BY <1>1, <1>6, SpawnShifts DEF Spawns, TypeOK
  <2> QED BY <1>5, <2>1, HeadOfOthers
<1>7. CommandStep(g)
  BY <1>2, <1>3, <1>6, OwnSteps
<1>8. ASSUME (ReadSource(g) /\ ~Breaks(Unread)) \/ StartMachine(g) \/ Spawns(g) PROVE FALSE
  BY <1>1, <1>2, <1>3, <1>8, ReadSourceShifts, StartMachineShifts, SpawnShifts DEF Spawns
<1>9. ASSUME Lock(g) \/ Unlock(g) PROVE FALSE
  BY <1>1, <1>4, <1>5, <1>9, LockShifts, HeadOfContinue
<1>10. ASSUME NEW command \in {"run", "step"}, Begin(g, command), ~Breaks("noMachine") PROVE FALSE
  BY <1>1, <1>4, <1>5, <1>10, BeginShifts, HeadOfContinue, HeadOfOthers
<1>11. ASSUME Continues(g) PROVE FALSE
  BY <1>11 DEF Continues
<1>12. ASSUME Return(g) PROVE FALSE
  BY <1>1, <1>4, <1>5, <1>12, ReturnShifts, HeadOfContinue, HeadOfOthers
<1>13. ASSUME IsOff(g) PROVE FALSE
  <2>1. todo'[g] \in {HeldReport, ToReport}
    BY <1>1, <1>4, <1>13, IsOffShifts
  <2> QED BY <1>5, <2>1, HeadOfContinue, HeadOfOthers
<1>14. ASSUME NEW m \in Messages, Sends(g, m) PROVE FALSE
  <2>1. todo'[g] \in {Locking, ToStep, HeldUnlock}
    BY <1>1, <1>2, <1>3, <1>4, <1>14, SendShifts DEF Sends
  <2> QED BY <1>5, <2>1, HeadOfContinue, HeadOfOthers
<1>15. ProduceStopEvent(g)
  BY <1>7, <1>8, <1>9, <1>10, <1>11, <1>12, <1>13, <1>14 DEF CommandStep, Spawns, Sends
<1>16. PICK e \in Stops :
         e = StopEvent /\ (Shifts(g, HeldReport, HeldEvent(e)) \/ Shifts(g, ToReport, ToSend(e)))
  BY <1>1, <1>15, StopEventShifts
<1>17. Head(todo'[g]) = e
  BY <1>4, <1>16, HeadOfContinue, HeadOfOthers
<1>18. QED BY <1>15, <1>16, <1>17

\* A goroutine that has still to announce a stop owes it.
LEMMA PendingOwes ==
  ASSUME HandlerInv, OwnInv, NEW g \in Goroutines, Kind(g) \in {"continue", "next", "runner"},
         g = Runner => Spawned, ~Told(g)
  PROVE  \E c \in Goroutines : Owing(c) /\ Teller(c) = g
<1>1. CASE g = Runner
  <2>1. PICK c \in Goroutines : Kind(c) = "launch"
    BY <1>1 DEF Spawned
  <2> QED BY <1>1, <2>1 DEF Owing, Teller
<1>2. CASE g # Runner
  <2>1. Kind(g) \in {"continue", "next"}
    BY <1>2, KindType DEF HandlerInv
  <2> QED BY <2>1 DEF Owing, Teller
<1>3. QED BY <1>1, <1>2

LEMMA FailingStays ==
  ASSUME HandlerInv, DebuggeeInv, FinalInv, [Next]_vars, Fails
  PROVE  /\ \A g \in Goroutines : todo'[g] # << >> => Head(todo'[g]) \notin {"stopped", "exception"}
         /\ \A i \in DOMAIN outgoing' : outgoing'[i].type \notin {"stopped", "exception"}
<1>1. terminateOnNextStep
  BY DEF Fails, DebuggeeInv, SoundMessages, MessageTrue, EventTrue
<1>2. ASSUME NEW g \in Goroutines, todo'[g] # << >>, Head(todo'[g]) \in {"stopped", "exception"}
      PROVE  FALSE
  <2>1. CASE todo'[g] = todo[g]
    BY <1>2, <2>1 DEF FinalInv
  <2>2. CASE todo'[g] # todo[g]
    <3>1. \E e \in Stops : e = StopEvent /\ Head(todo'[g]) = e
      BY <1>2, <2>2, EventsAreProduced DEF StopEvents
    <3>2. StopEvent = "terminated"
      BY <1>1, StopEventType DEF HandlerInv, TypeOK
    <3> QED BY <1>2, <3>1, <3>2
  <2> QED BY <2>1, <2>2
<1>3. ASSUME UNCHANGED outgoing
      PROVE  \A i \in DOMAIN outgoing' : outgoing'[i].type \notin {"stopped", "exception"}
  BY <1>3 DEF FinalInv
<1>4. ASSUME Writer PROVE DOMAIN outgoing' = {}
  BY <1>4, Written DEF HandlerInv
<1>5. ASSUME NEW g \in Goroutines, NEW m \in Messages, Sends(g, m)
      PROVE  \A i \in DOMAIN outgoing' : outgoing'[i].type \notin {"stopped", "exception"}
  <2>1. m \notin {"stopped", "exception"}
    BY <1>5, SentStops DEF FinalInv
  <2>2. \A i \in DOMAIN outgoing' : outgoing'[i] = [from |-> g, type |-> m]
    BY <1>5, SentStops
  <2> QED BY <2>1, <2>2
<1>6. QED BY <1>2, <1>3, <1>4, <1>5, MessageSteps

LEMMA FinalStays ==
  ASSUME HandlerInv, DebuggeeInv, OwnInv, OrderInv, FinalInv, [Next]_vars
  PROVE  FinalInv'
<1>1. ASSUME ~Writer PROVE UNCHANGED wire
  BY <1>1, MessageSteps, SentStops
<1>2. ASSUME ~Writer PROVE FinalInv'
  <2>1. Fails' = Fails /\ FailureIsFinal'
    BY <1>1, <1>2 DEF Fails, FinalInv, FailureIsFinal
  <2> QED BY <2>1, FailingStays DEF FinalInv
<1>3. ASSUME Writer PROVE FinalInv'
  <2>1. PICK m \in Message :
          /\ outgoing = <<m>> /\ outgoing' = << >>
          /\ DOMAIN wire = 1 .. Len(wire) /\ Len(wire) \in Nat
          /\ DOMAIN wire' = 1 .. (Len(wire) + 1)
          /\ \A i \in DOMAIN wire : i \in DOMAIN wire' /\ wire'[i] = wire[i]
          /\ wire'[Len(wire) + 1] = m
          /\ UNCHANGED todo
    BY <1>3, Written DEF HandlerInv
  <2>2. 1 \in DOMAIN outgoing /\ outgoing[1] = m
    BY <2>1
  <2>3. \A i \in DOMAIN wire' : i \in DOMAIN wire \/ i = Len(wire) + 1
    BY <2>1
  <2>4. FailureIsFinal'
    <3> SUFFICES ASSUME NEW i \in DOMAIN wire', NEW j \in DOMAIN wire',
                        wire'[i].type = "exception", i < j
                 PROVE  wire'[j].type \notin {"stopped", "exception"}
      BY DEF FailureIsFinal
    <3>1. i \in DOMAIN wire
      BY <2>1
    <3>2. CASE j \in DOMAIN wire
      BY <2>1, <3>1, <3>2 DEF FinalInv, FailureIsFinal
    <3>3. CASE j = Len(wire) + 1
      <4>1. Fails
        BY <2>1, <3>1 DEF Fails
      <4> QED BY <2>1, <2>2, <3>3, <4>1 DEF FinalInv
    <3> QED BY <2>3, <3>2, <3>3
  <2>5. ASSUME m.type = "exception",
               NEW g \in Goroutines, todo[g] # << >>, Head(todo[g]) \in {"stopped", "exception"}
        PROVE  FALSE
    <3>1. Head(todo[g]) \in Stops /\ todo[g] \in Rest(Kind(g))
      BY <2>5 DEF Stops, HandlerInv, ShapeInv, ShapeOf
    <3>2. Kind(g) \in {"continue", "next", "runner"}
      BY <2>5, <3>1, Places
    <3>3. todo[g] \notin {<< >>, HeldUnlock}
      BY <2>5, HeadOfContinue
    <3>4. ~Told(g)
      BY <3>3 DEF OwnInv, Told, Tells, Reported
    <3>5. g = Runner => Spawned
      BY <2>5 DEF HandlerInv, LaunchInv
    <3>6. PICK h \in Goroutines : h = m.from
      BY <2>1, <2>2 DEF Message
    <3>7. Reported(h) /\ ~Told(h)
      BY <2>2, <2>5, <3>6 DEF OwnInv, StopEvents
    <3>8. \E c \in Goroutines : Owing(c) /\ Teller(c) = g
      BY <3>2, <3>4, <3>5, PendingOwes
    <3>9. \E c \in Goroutines : Owing(c) /\ Teller(c) = h
      BY <3>7, PendingOwes DEF Reported
    <3>10. g = h
      BY <3>8, <3>9 DEF OrderInv
    <3> QED BY <3>3, <3>7, <3>10 DEF Reported
  <2>6. Fails' => Fails \/ m.type = "exception"
    BY <2>1, <2>3 DEF Fails
  <2>7. DOMAIN outgoing' = {}
    BY <2>1
  <2>8. ASSUME Fails'
        PROVE  \A g \in Goroutines :
                 todo'[g] # << >> => Head(todo'[g]) \notin {"stopped", "exception"}
    <3>1. CASE Fails
      BY <3>1, FailingStays
    <3>2. CASE m.type = "exception"
      BY <2>1, <2>5, <3>2
    <3> QED BY <2>6, <2>8, <3>1, <3>2
  <2> QED BY <2>4, <2>7, <2>8 DEF FinalInv
<1>4. QED BY <1>2, <1>3

(***************************************************************************)
(* To an orderly client an exception is final: two goroutines never both   *)
(* have one to announce, and terminateOnNextStep, set with the first,      *)
(* makes every later event the end.                                        *)
(***************************************************************************)
THEOREM ExceptionsAreFinal ==
  ASSUME Care = "orderly"
  PROVE  Spec => []FailureIsFinal
<1>1. Init => FinalInv
  <2> SUFFICES ASSUME Init PROVE FinalInv
    OBVIOUS
  <2>1. DOMAIN wire = {}
    BY DEF Init, SessionInit
  <2> QED BY <2>1 DEF FinalInv, Fails, FailureIsFinal
<1>2. HandlerInv /\ DebuggeeInv /\ OwnInv /\ OrderInv /\ FinalInv /\ [Next]_vars => FinalInv'
  BY FinalStays
<1>3. FinalInv => FailureIsFinal
  BY DEF FinalInv
<1>4. QED BY <1>1, <1>2, <1>3, OrderInvariantHolds, PTL DEF Spec

-----------------------------------------------------------------------------
(***************************************************************************)
(* The requests of an orderly client that do not command the debuggee.     *)
(***************************************************************************)

\* A step of another leaves a goroutine where it is, or takes its signal.
LEMMA AnotherGoes ==
  ASSUME HandlerInv, NEW g \in Goroutines, NEW h \in Goroutines, h # g, g # Runner, Goroutine(h)
  PROVE  \/ todo'[g] = todo[g]
         \/ At(g, "blockedOnStopDebug") /\ todo'[g] = Tail(todo[g])
<1>1. todo \in [Goroutines -> Seq(Steps)]
  BY DEF HandlerInv, TypeOK
<1>2. ASSUME NEW s, todo' = [todo EXCEPT ![h] = s] PROVE todo'[g] = todo[g]
  BY <1>1, <1>2
<1>3. ASSUME Goes(h) \/ Returns(h) \/ \E s : Instead(h, s) PROVE todo'[g] = todo[g]
  BY <1>2, <1>3 DEF Goes, Returns, Instead
<1>4. ASSUME Spawns(h) PROVE todo'[g] = todo[g]
  BY <1>1, <1>4 DEF Spawns, Spawn
<1>5. ASSUME Poll(h)
      PROVE  todo'[g] = todo[g] \/ (At(g, "blockedOnStopDebug") /\ todo'[g] = Tail(todo[g]))
  <2>1. ASSUME NEW k \in Requests, At(k, "blockedOnStopDebug"),
               todo' = [todo EXCEPT ![h] = << >>, ![k] = Tail(@)]
        PROVE  todo'[g] = todo[g] \/ (At(g, "blockedOnStopDebug") /\ todo'[g] = Tail(todo[g]))
    <3>1. k # h
      BY <1>5, <2>1 DEF Poll, At
    <3>2. CASE k = g
      BY <1>1, <2>1, <3>1, <3>2 DEF Goroutines
    <3>3. CASE k # g
      BY <1>1, <2>1, <3>1, <3>3 DEF Goroutines
    <3> QED BY <3>2, <3>3
  <2> QED BY <1>3, <1>5, <2>1 DEF Poll
<1>6. \/ Goes(h) \/ Returns(h) \/ (\E s : Instead(h, s)) \/ Spawns(h) \/ Poll(h) \/ UNCHANGED todo
  <2> USE DEF Breaks, Panics
  <2>1. ASSUME SetSource(h) \/ ReadSource(h) \/ StartMachine(h) \/ Lock(h) \/ Unlock(h)
        PROVE  Goes(h) \/ (\E s : Instead(h, s)) \/ UNCHANGED todo
    BY <2>1 DEF SetSource, ReadSource, StartMachine, Lock, Unlock
  <2>2. ASSUME \/ Begin(h, "run") \/ Begin(h, "step") \/ Continues(h) \/ Return(h) \/ Crash(h)
               \/ IsOff(h) \/ ProduceStopEvent(h)
        PROVE  Goes(h) \/ Returns(h) \/ (\E s : Instead(h, s)) \/ UNCHANGED todo
    BY <2>2 DEF Begin, Continues, Return, Crash, IsOff, ProduceStopEvent
  <2>3. ASSUME \/ CollectFrames(h) \/ ReadFrame(h) \/ ReadErrors(h) \/ Block(h) \/ SignalClosed(h)
               \/ (\E m \in Messages : Send(h, m)) \/ Finish(h) \/ FatalRequest(h)
        PROVE  Goes(h) \/ (\E s : Instead(h, s)) \/ UNCHANGED todo
    BY <2>3 DEF CollectFrames, ReadFrame, ReadErrors, Block, SignalClosed, Send, Finish,
       FatalRequest
  <2> QED BY <2>1, <2>2, <2>3 DEF Goroutine, Spawns
<1>7. QED BY <1>3, <1>4, <1>5, <1>6

\* The steps of a goroutine that does not command.
LEMMA AsideGoes ==
  ASSUME HandlerInv, [Next]_vars, NEW g \in Goroutines, Kind(g) \notin Commanding,
         Kind(g)' = Kind(g)
  PROVE  \/ todo'[g] = todo[g]
         \/ /\ todo[g] # << >>
            /\ \/ todo'[g] = Tail(todo[g])
               \/ Head(todo[g]) = "pollStopDebug" /\ todo'[g] = << >>
               \/ /\ Head(todo[g]) = "signalStopDebug"
                  /\ todo'[g] = <<"blockedOnStopDebug">> \o Tail(todo[g])
<1> DEFINE P ==
             \/ todo'[g] = todo[g]
             \/ /\ todo[g] # << >>
                /\ \/ todo'[g] = Tail(todo[g])
                   \/ Head(todo[g]) = "pollStopDebug" /\ todo'[g] = << >>
                   \/ /\ Head(todo[g]) = "signalStopDebug"
                      /\ todo'[g] = <<"blockedOnStopDebug">> \o Tail(todo[g])
<1>1. TypeOK /\ ShapeInv /\ g # Runner
  BY DEF HandlerInv, Kind, Commanding
<1>2. ASSUME Ask PROVE P
  <2>1. PICK kind \in Kinds \ {"hangup", "garbage"}, frame \in 1 .. MaxDepth :
          HandleRequest([kind |-> kind, frame |-> frame], Handler[kind])
    BY <1>2 DEF Ask
  <2> PICK a : a = Len(requests) + 1
    OBVIOUS
  <2>2. Kind(a) = "none" /\ Kind(a)' = kind /\ \A h \in Goroutines \ {a} : todo'[h] = todo[h]
    BY <1>1, <1>2, <2>1, AskedKind
  <2>3. kind # "none"
    BY HandlerAssumption
  <2> QED BY <2>2, <2>3
<1>3. ASSUME Hangup \/ Garbage \/ Writer \/ Shutdown \/ UNCHANGED vars PROVE P
  <2>1. UNCHANGED todo
    BY <1>3 DEF Hangup, Garbage, Writer, Shutdown, EndOfInput, Fatal, SendFromQueue,
       CloseQueue, Exit, vars, sessionVars
  <2> QED BY <2>1
<1>4. ASSUME NEW h \in Goroutines \ {g}, Goroutine(h) PROVE P
  BY <1>1, <1>4, AnotherGoes DEF At
<1>5. ASSUME Goroutine(g) PROVE P
  <2>1. ASSUME NEW step, At(g, step)
        PROVE  /\ todo[g] # << >> /\ Head(todo[g]) = step /\ step \in AsideSteps
               /\ Goes(g) => todo'[g] = Tail(todo[g])
               /\ Returns(g) => todo'[g] = << >>
               /\ Instead(g, <<"blockedOnStopDebug">>) =>
                    todo'[g] = <<"blockedOnStopDebug">> \o Tail(todo[g])
    <3>1. todo[g] # << >> /\ Head(todo[g]) = step /\ step \in AsideSteps
      BY <1>1, <2>1, Here, Places
    <3>2. Goes(g) => todo'[g] = Tail(todo[g])
      BY <1>1, <2>1, Here DEF TypeOK
    <3>3. /\ Returns(g) => todo'[g] = << >>
          /\ Instead(g, <<"blockedOnStopDebug">>) =>
                    todo'[g] = <<"blockedOnStopDebug">> \o Tail(todo[g])
      BY <1>1 DEF TypeOK, Returns, Instead
    <3> QED BY <3>1, <3>2, <3>3
  <2>2. ASSUME UNCHANGED todo PROVE P
    BY <2>2
  <2>3. ASSUME SetSource(g) PROVE P
    BY <2>1, <2>3 DEF SetSource
  <2>4. ASSUME CollectFrames(g) PROVE P
    <3>1. At(g, "collectFrames") /\ (Goes(g) \/ UNCHANGED todo)
      BY <2>4 DEF CollectFrames, Breaks, Panics
    <3> QED BY <2>1, <2>2, <3>1
  <2>5. ASSUME ReadFrame(g) PROVE P
    <3>1. At(g, "readFrame") /\ (Goes(g) \/ UNCHANGED todo)
      BY <2>5 DEF ReadFrame, Breaks, Panics
    <3> QED BY <2>1, <2>2, <3>1
  <2>6. ASSUME ReadErrors(g) PROVE P
    <3>1. At(g, "readErrors") /\ (Goes(g) \/ UNCHANGED todo)
      BY <2>6 DEF ReadErrors, Breaks, Panics
    <3> QED BY <2>1, <2>2, <3>1
  <2>7. ASSUME Block(g) PROVE P
    BY <2>1, <2>7 DEF Block
  <2>8. ASSUME SignalClosed(g) \/ Crash(g) \/ Continues(g) \/ Finish(g) \/ FatalRequest(g) PROVE P
    BY <2>2, <2>8 DEF SignalClosed, Breaks, Panics, Crash, Continues, Finish, FatalRequest
  <2>9. ASSUME Poll(g) PROVE P
    <3>1. At(g, "pollStopDebug")
      BY <2>9 DEF Poll
    <3>2. ASSUME NEW k \in Requests, At(k, "blockedOnStopDebug"),
                 todo' = [todo EXCEPT ![g] = << >>, ![k] = Tail(@)]
          PROVE  todo'[g] = << >>
      <4>1. k # g
        BY <3>1, <3>2 DEF At
      <4> QED BY <1>1, <3>2, <4>1 DEF TypeOK, Goroutines
    <3>3. Goes(g) \/ todo'[g] = << >>
      BY <2>1, <2>9, <3>1, <3>2 DEF Poll
    <3> QED BY <2>1, <3>1, <3>3
  <2>10. ASSUME NEW m \in Messages, Send(g, m) PROVE P
    <3>1. CASE Panics("sendOnClosedSendQueue")
      BY <2>2, <3>1 DEF Panics
    <3>2. CASE ~Panics("sendOnClosedSendQueue")
      <4>1. At(g, m) /\ Goes(g)
        BY <2>10, <3>2 DEF Send
      <4> QED BY <2>1, <4>1
    <3> QED BY <3>1, <3>2
  <2>11. ASSUME \/ ReadSource(g) \/ StartMachine(g) \/ Spawns(g) \/ Lock(g) \/ Unlock(g)
                \/ Begin(g, "run") \/ Begin(g, "step") \/ Return(g)
                \/ IsOff(g) \/ ProduceStopEvent(g)
         PROVE  FALSE
    <3>1. \E step \in {"readSource", "startMachine", "spawnRun", "spawnReport", "lock", "unlock",
                       "run", "step", "return", "isOff", "stopEvent"} : At(g, step)
      BY <2>11 DEF ReadSource, StartMachine, Spawns, Spawn, Lock, Unlock, Begin, Return, IsOff,
         ProduceStopEvent
    <3> QED BY <2>1, <3>1 DEF AsideSteps
  <2> QED BY <1>5, <2>3, <2>4, <2>5, <2>6, <2>7, <2>8, <2>9, <2>10, <2>11 DEF Goroutine, Spawns
<1>6. QED BY <1>2, <1>3, <1>4, <1>5 DEF Next

\* Who collects frames and who reads errors.
Own(kind) ==
  CASE kind = "stackTrace"    -> {"collectFrames"}
    [] kind = "exceptionInfo" -> {"readErrors"}
    [] OTHER                  -> {}

AsideRest(kind) == Seq((AsideSteps \ {"collectFrames", "readErrors"}) \cup Own(kind))

\* What such a request has left, and after a step.
LEMMA AsideCloses ==
  ASSUME NEW k, NEW s \in AsideRest(k), s # << >>
  PROVE  /\ Tail(s) \in AsideRest(k)
         /\ <<"blockedOnStopDebug">> \o Tail(s) \in AsideRest(k)
         /\ Head(s) = "collectFrames" => k = "stackTrace"
         /\ Head(s) = "readErrors" => k = "exceptionInfo"
<1> PICK P : P = (AsideSteps \ {"collectFrames", "readErrors"}) \cup Own(k)
  OBVIOUS
<1>1. s \in Seq(P) /\ AsideRest(k) = Seq(P)
  BY DEF AsideRest
<1>2. /\ "blockedOnStopDebug" \in P
      /\ "collectFrames" \in P => k = "stackTrace"
      /\ "readErrors" \in P => k = "exceptionInfo"
  BY DEF AsideSteps, Own
<1>3. Head(s) \in P /\ Tail(s) \in Seq(P)
  BY <1>1, HeadTailProperties
<1>4. <<"blockedOnStopDebug">> \in Seq(P)
  BY <1>2
<1>5. <<"blockedOnStopDebug">> \o Tail(s) \in Seq(P)
  BY <1>3, <1>4, ConcatProperties
<1>6. QED BY <1>1, <1>2, <1>3, <1>5

LEMMA NothingIsAside == \A k : << >> \in AsideRest(k)
<1>1. \A P : << >> \in Seq(P)
  BY EmptySeq
<1>2. QED BY <1>1 DEF AsideRest

\* The handlers begin so.
LEMMA HandlersAreAside ==
  ASSUME NEW kind \in Kinds \ {"hangup", "garbage"}, kind \notin Commanding
  PROVE  Handler[kind] \in AsideRest(kind)
<1>1. CASE kind = "stackTrace"
  BY <1>1 DEF Handler, AsideRest, Own, OnStackTrace, AsideSteps
<1>2. CASE kind = "exceptionInfo"
  BY <1>2 DEF Handler, AsideRest, Own, OnExceptionInfo, AsideSteps
<1>3. CASE kind = "initialize"
  BY <1>3 DEF Handler, AsideRest, OnInitialize, AsideSteps
<1>4. CASE kind = "setBreakpoints"
  BY <1>4 DEF Handler, AsideRest, OnSetBreakpoints, AsideSteps
<1>5. CASE kind = "configurationDone"
  BY <1>5 DEF Handler, AsideRest, OnConfigurationDone, AsideSteps
<1>6. CASE kind = "scopes"
  BY <1>6 DEF Handler, AsideRest, OnScopes, AsideSteps
<1>7. CASE kind = "variables"
  BY <1>7 DEF Handler, AsideRest, OnVariables, AsideSteps
<1>8. CASE kind = "disconnect"
  BY <1>8 DEF Handler, AsideRest, OnDisconnect, AsideSteps
<1>9. CASE kind = "other"
  BY <1>9 DEF Handler, AsideRest, OnOther, AsideSteps
<1>10. CASE kind = "unknown"
  BY <1>10 DEF Handler, AsideRest, OnUnknown, AsideSteps
<1>11. kind \in {"initialize", "setBreakpoints", "configurationDone", "stackTrace", "scopes",
                 "variables", "exceptionInfo", "disconnect", "other", "unknown"}
  BY HandlerAssumption DEF Commanding
<1>12. QED BY <1>1, <1>2, <1>3, <1>4, <1>5, <1>6, <1>7, <1>8, <1>9, <1>10, <1>11

(***************************************************************************)
(* The inductive invariant: the requests that do not command have only     *)
(* their own steps left, and the debuggee has failed when its exception is *)
(* asked for.                                                              *)
(***************************************************************************)
Unready == machine = "none" /\ failed

AsideOf(g) == Kind(g) \notin Commanding => todo[g] \in AsideRest(Kind(g))
KnownOf(g) == Kind(g) = "exceptionInfo" => failed

PanicInv ==
  /\ \A g \in Goroutines : AsideOf(g)
  /\ \A g \in Goroutines : KnownOf(g)
  /\ PanicsExplained

\* A program that did not compile stays so.
LEMMA UnreadyStays ==
  ASSUME HandlerInv, [Next]_vars
  PROVE  Unready => Unready'
<1>1. ASSUME Unready, ~UNCHANGED machine PROVE FALSE
  <2>1. ASSUME NEW g \in Goroutines, StartMachine(g) PROVE FALSE
    BY <1>1, <2>1 DEF StartMachine, Target!Start, Unready
  <2>2. ASSUME Target!Moved PROVE FALSE
    BY <1>1, <2>2 DEF Target!Moved, Target!Moves, Unready
  <2>3. ASSUME NEW g \in Goroutines, CommandStep(g)
        PROVE  UNCHANGED machine \/ StartMachine(g) \/ Target!Moved
    BY <2>3 DEF CommandStep, ReadSource, Spawn, Lock, Unlock, Begin, Continues, Return, IsOff,
       ProduceStopEvent, Target!Begin, Target!Continues, Target!Ends, handlerVars, Breaks
  <2>4. ASSUME Aside \/ Ask \/ Writer PROVE UNCHANGED machine
    BY <2>4 DEF Aside, commandVars, Ask, Writer, handlerVars
  <2> QED BY <1>1, <2>1, <2>2, <2>3, <2>4, StepCases
<1>2. QED BY <1>1, DebuggeeStable DEF Unready

\* Why a handler finds no machine or no errors.
LEMMA HandlerChanges ==
  ASSUME [Next]_vars
  PROVE  \/ UNCHANGED panic \/ panic' \notin Dereferences
         \/ \E g \in Goroutines :
              /\ UNCHANGED <<machine, failed>>
              /\ \/ (At(g, "run") \/ At(g, "step")) /\ machine = "none"
                 \/ At(g, "collectFrames") /\ machine = "none" /\ ~failed
                 \/ At(g, "readErrors") /\ ~failed
<1> DEFINE Quiet == UNCHANGED panic \/ panic' \notin Dereferences
           Why(g) ==
             /\ UNCHANGED handlerVars
             /\ \/ (At(g, "run") \/ At(g, "step")) /\ machine = "none"
                \/ At(g, "collectFrames") /\ machine = "none" /\ ~failed
                \/ At(g, "readErrors") /\ ~failed
<1>1. ASSUME NEW why, Breaks(why), why \notin Dereferences PROVE Quiet
  BY <1>1 DEF Breaks, Panics
<1>2. ASSUME NEW g \in Goroutines,
             \/ SetSource(g) \/ StartMachine(g) \/ Spawns(g) \/ Lock(g) \/ Unlock(g)
             \/ Continues(g) \/ Return(g) \/ Crash(g) \/ IsOff(g) \/ ProduceStopEvent(g)
             \/ Block(g) \/ Poll(g)
      PROVE  Quiet
  <2>1. SetSource(g) \/ Lock(g) \/ Unlock(g) \/ ProduceStopEvent(g) => UNCHANGED panic
    BY DEF SetSource, Lock, Unlock, ProduceStopEvent
  <2>2. Spawns(g) \/ IsOff(g) \/ Block(g) \/ Poll(g) => UNCHANGED panic
    BY DEF Spawns, Spawn, IsOff, Block, Poll
  <2>3. StartMachine(g) => UNCHANGED panic
    BY DEF StartMachine, Target!Start
  <2>4. Target!Moved => UNCHANGED panic
    BY DEF Target!Moved
  <2>5. Continues(g) \/ Return(g) => UNCHANGED panic
    BY <2>4 DEF Continues, Return, Target!Continues, Target!Ends
  <2>6. Crash(g) => Quiet
    BY DEF Crash, Target!Dies, Dereferences
  <2> QED BY <1>2, <2>1, <2>2, <2>3, <2>5, <2>6
<1>3. ASSUME NEW g \in Goroutines, ReadSource(g) PROVE Quiet
  <2>1. Unread \notin Dereferences
    BY DEF Unread, Dereferences
  <2> QED BY <1>1, <1>3, <2>1 DEF ReadSource
<1>4. ASSUME NEW g \in Goroutines, NEW command \in {"run", "step"}, Begin(g, command)
      PROVE  Quiet \/ Why(g)
  BY <1>4 DEF Begin, Target!Begin, Breaks
<1>5. ASSUME NEW g \in Goroutines, CollectFrames(g) PROVE Quiet \/ Why(g)
  <2>1. "program" \notin Dereferences
    BY DEF Dereferences
  <2> QED BY <1>1, <1>5, <2>1 DEF CollectFrames, Breaks
<1>6. ASSUME NEW g \in Goroutines, ReadFrame(g) PROVE Quiet
  <2>1. "noFrame" \notin Dereferences
    BY DEF Dereferences
  <2> QED BY <1>1, <1>6, <2>1 DEF ReadFrame
<1>7. ASSUME NEW g \in Goroutines, ReadErrors(g) PROVE Quiet \/ Why(g)
  BY <1>7 DEF ReadErrors, Breaks
<1>8. ASSUME NEW g \in Goroutines, SignalClosed(g) PROVE Quiet
  <2>1. "sendOnClosedStopDebug" \notin Dereferences
    BY DEF Dereferences
  <2> QED BY <1>1, <1>8, <2>1 DEF SignalClosed
<1>9. ASSUME NEW g \in Goroutines, NEW m \in Messages, Send(g, m) PROVE Quiet
  BY <1>9 DEF Send, Panics, Dereferences
<1>10. ASSUME NEW g \in Goroutines, Finish(g) \/ FatalRequest(g) PROVE Quiet
  BY <1>10 DEF Finish, FatalRequest
<1>11. ASSUME Ask \/ Hangup \/ Garbage \/ Writer \/ Shutdown \/ UNCHANGED vars PROVE Quiet
  <2>1. ASSUME Ask \/ Hangup \/ Garbage \/ Writer \/ Shutdown PROVE UNCHANGED panic
    BY <2>1 DEF Ask, HandleRequest, Hangup, Garbage, Writer, Shutdown, EndOfInput, Fatal,
       SendFromQueue, CloseQueue, Exit
  <2>2. UNCHANGED vars => UNCHANGED panic
    BY DEF vars, sessionVars
  <2> QED BY <1>11, <2>1, <2>2
<1>12. Quiet \/ \E g \in Goroutines : Why(g)
  BY <1>2, <1>3, <1>4, <1>5, <1>6, <1>7, <1>8, <1>9, <1>10, <1>11 DEF Next, Goroutine, Spawns
<1>13. CASE \E g \in Goroutines : Why(g)
  BY <1>13 DEF handlerVars
<1>14. QED BY <1>12, <1>13

LEMMA AsideStays ==
  ASSUME HandlerInv, PanicInv, [Next]_vars, NEW g \in Goroutines
  PROVE  AsideOf(g)'
<1>1. CASE Kind(g)' # Kind(g)
  <2>1. PICK k : k = Kind(g)'
    OBVIOUS
  <2>2. k \in Kinds \ {"hangup", "garbage"} /\ todo'[g] = Handler[k]
    BY <1>1, <2>1, KindGrows
  <2> QED BY <2>1, <2>2, HandlersAreAside DEF AsideOf
<1>2. CASE Kind(g)' = Kind(g) /\ Kind(g) \in Commanding
  BY <1>2 DEF AsideOf
<1>3. CASE Kind(g)' = Kind(g) /\ Kind(g) \notin Commanding
  <2>1. PICK k : k = Kind(g)
    OBVIOUS
  <2>2. todo[g] \in AsideRest(k)
    BY <1>3, <2>1 DEF PanicInv, AsideOf
  <2>3. todo'[g] \in AsideRest(k)
    BY <1>3, <2>2, AsideGoes, AsideCloses, NothingIsAside
  <2> QED BY <1>3, <2>1, <2>3 DEF AsideOf
<1>4. QED BY <1>1, <1>2, <1>3

\* An orderly client asks about an exception of which it has been told.
LEMMA KnownStays ==
  ASSUME HandlerInv, DebuggeeInv, PanicInv, [Next]_vars, Care = "orderly", NEW g \in Goroutines
  PROVE  KnownOf(g)'
<1>1. ASSUME Kind(g)' # Kind(g), Kind(g)' = "exceptionInfo" PROVE failed'
  <2>1. InOrder("exceptionInfo") /\ UNCHANGED failed
    BY <1>1, OneIsAsked
  <2>2. PICK i \in DOMAIN wire : wire[i].type = "exception"
    BY <2>1 DEF InOrder, Announced
  <2>3. failed
    BY <2>2 DEF DebuggeeInv, SoundMessages, MessageTrue, EventTrue
  <2> QED BY <2>1, <2>3
<1>2. CASE Kind(g)' = Kind(g)
  BY <1>2, DebuggeeStable DEF PanicInv, KnownOf
<1>3. QED BY <1>1, <1>2 DEF KnownOf

\* Whose step it is that reads the errors or the frames.
LEMMA CollectorLooks ==
  ASSUME HandlerInv, PanicInv, NEW h \in Goroutines, NEW step, At(h, step)
  PROVE  /\ step = "collectFrames" => Kind(h) = "stackTrace"
         /\ step = "readErrors" => Kind(h) = "exceptionInfo"
<1>1. CASE step \in {"collectFrames", "readErrors"}
  <2>1. todo[h] # << >> /\ Head(todo[h]) = step /\ todo[h] \in Rest(Kind(h))
    BY Here DEF HandlerInv
  <2>2. Kind(h) \notin Commanding
    BY <1>1, <2>1, Places DEF AsideSteps
  <2>3. todo[h] \in AsideRest(Kind(h))
    BY <2>2 DEF PanicInv, AsideOf
  <2> QED BY <2>1, <2>3, AsideCloses
<1>2. QED BY <1>1

\* The handlers panic as the theorem says.
LEMMA PanicsStay ==
  ASSUME HandlerInv, DebuggeeInv, OrderInv, PanicInv, [Next]_vars
  PROVE  PanicsExplained'
<1>1. CASE UNCHANGED panic
  BY <1>1, UnreadyStays DEF PanicInv, PanicsExplained, Unready
<1>2. CASE panic' \notin Dereferences
  BY <1>2 DEF PanicsExplained
<1>3. ASSUME NEW g \in Goroutines, UNCHANGED <<machine, failed>>,
             \/ (At(g, "run") \/ At(g, "step")) /\ machine = "none"
             \/ At(g, "collectFrames") /\ machine = "none" /\ ~failed
             \/ At(g, "readErrors") /\ ~failed
      PROVE  Unready
  <2>1. ASSUME NEW step, At(g, step)
        PROVE todo[g] # << >> /\ Head(todo[g]) = step /\ todo[g] \in Rest(Kind(g))
    BY <2>1, Here DEF HandlerInv
  <2>2. ASSUME At(g, "run") \/ At(g, "step"), machine = "none" PROVE Unready
    <3>1. Kind(g) \in {"continue", "next", "runner"}
      BY <2>1, <2>2, Places
    <3>2. CASE Kind(g) = "runner"
      <4>1. Launched
        BY <2>1, <2>2, <3>2 DEF DebuggeeInv, SoundFor, MayTake
      <4> QED BY <2>2, <4>1 DEF Launched, Unready
    <3>3. CASE Kind(g) \in {"continue", "next"}
      BY <2>2, <3>3 DEF OrderInv, Examining, Launched, Unready
    <3> QED BY <3>1, <3>2, <3>3
  <2>3. ASSUME At(g, "collectFrames"), machine = "none", ~failed PROVE FALSE
    <3>1. Kind(g) = "stackTrace"
      BY <2>3, CollectorLooks
    <3> QED BY <2>3, <3>1 DEF OrderInv, Examining, Launched
  <2>4. ASSUME At(g, "readErrors"), ~failed PROVE FALSE
    <3>1. Kind(g) = "exceptionInfo"
      BY <2>4, CollectorLooks
    <3> QED BY <2>4, <3>1 DEF PanicInv, KnownOf
  <2> QED BY <1>3, <2>2, <2>3, <2>4
<1>4. QED BY <1>1, <1>2, <1>3, HandlerChanges DEF PanicsExplained, Unready

LEMMA PanicStays ==
  ASSUME HandlerInv, DebuggeeInv, OrderInv, PanicInv, [Next]_vars, Care = "orderly"
  PROVE  PanicInv'
<1>1. (\A g \in Goroutines : AsideOf(g))'
  BY AsideStays
<1>2. (\A g \in Goroutines : KnownOf(g))'
  BY KnownStays
<1>3. PanicsExplained'
  BY PanicsStay
<1>4. QED BY <1>1, <1>2, <1>3 DEF PanicInv

(***************************************************************************)
(* With an orderly client a handler finds no machine only after a program  *)
(* that did not compile (OnLaunchRequest goes on without one), and none    *)
(* looks for errors that are not there.  However many requests the client  *)
(* leaves unanswered, and whatever order their goroutines run in.          *)
(***************************************************************************)
THEOREM HandlersPanicUncompiled ==
  ASSUME Care = "orderly"
  PROVE  Spec => []PanicsExplained
<1>1. Init => PanicInv
  <2> SUFFICES ASSUME Init PROVE PanicInv
    OBVIOUS
  <2>1. requests = << >> /\ panic = "none" /\ todo = [g \in Goroutines |-> << >>]
    BY DEF Init, SessionInit
  <2>2. \A g : Kind(g) \in {"runner", "none"}
    BY <2>1 DEF Kind
  <2>3. \A g \in Goroutines : AsideOf(g) /\ KnownOf(g)
    BY <2>1, <2>2, NothingIsAside DEF AsideOf, KnownOf
  <2>4. PanicsExplained
    BY <2>1 DEF PanicsExplained, Dereferences
  <2> QED BY <2>3, <2>4 DEF PanicInv
<1>2. HandlerInv /\ DebuggeeInv /\ OwnInv /\ OrderInv /\ PanicInv /\ [Next]_vars => PanicInv'
  BY PanicStays
<1>3. PanicInv => PanicsExplained
  BY DEF PanicInv
<1>4. QED BY <1>1, <1>2, <1>3, OrderInvariantHolds, PTL DEF Spec

-----------------------------------------------------------------------------
(***************************************************************************)
(* The path of the source.  As long as it is missing, the requests that    *)
(* set it have done nothing yet and told the client nothing.               *)
(***************************************************************************)
Spoken(g) == \/ \E i \in DOMAIN wire : wire[i].from = g
             \/ \E i \in DOMAIN outgoing : outgoing[i].from = g

SourceOf(g) ==
  /\ Kind(g) = "none" => todo[g] = << >> /\ ~Spoken(g)
  /\ Kind(g) = "setBreakpoints" => source \/ (todo[g] = OnSetBreakpoints /\ ~Spoken(g))
  /\ Kind(g) = "launch" => \E b \in Goroutines : Kind(b) = "setBreakpoints"

SourceInv == (\A g \in Goroutines : SourceOf(g)) /\ LaunchKnowsSource

LEMMA HeadOfSetBreakpoints ==
  OnSetBreakpoints # << >> /\ Head(OnSetBreakpoints) = "setSource"
BY DEF OnSetBreakpoints

\* Nothing moves after a panic.
LEMMA DeadIsStill ==
  ASSUME [Next]_vars, panic # "none"
  PROVE  UNCHANGED vars
<1>1. ~Alive /\ \A g, step : ~At(g, step)
  BY DEF Alive, At
<1>2. ASSUME NEW g \in Goroutines, Goroutine(g) PROVE FALSE
  <2>1. ~(SetSource(g) \/ ReadSource(g) \/ StartMachine(g) \/ Lock(g) \/ Unlock(g))
    BY <1>1 DEF SetSource, ReadSource, StartMachine, Lock, Unlock
  <2>2. ~(Spawn(g, "spawnRun", LaunchRun) \/ Spawn(g, "spawnReport", LaunchReport))
    BY <1>1 DEF Spawn
  <2>3. ~(Begin(g, "run") \/ Begin(g, "step") \/ Continues(g) \/ Return(g) \/ Crash(g))
    BY <1>1 DEF Begin, Continues, Return, Crash
  <2>4. ~(IsOff(g) \/ ProduceStopEvent(g) \/ CollectFrames(g) \/ ReadFrame(g) \/ ReadErrors(g))
    BY <1>1 DEF IsOff, ProduceStopEvent, CollectFrames, ReadFrame, ReadErrors
  <2>5. ~(Block(g) \/ SignalClosed(g) \/ Poll(g) \/ (\E m \in Messages : Send(g, m)))
    BY <1>1 DEF Block, SignalClosed, Poll, Send
  <2>6. ~(Finish(g) \/ FatalRequest(g))
    BY <1>1 DEF Finish, FatalRequest
  <2> QED BY <1>2, <2>1, <2>2, <2>3, <2>4, <2>5, <2>6 DEF Goroutine
<1>3. ~(Ask \/ Hangup \/ Garbage \/ Writer \/ Shutdown)
  BY <1>1 DEF Ask, HandleRequest, Hangup, EndOfInput, Garbage, Fatal, Writer, SendFromQueue,
     Shutdown, CloseQueue, Exit
<1>4. QED BY <1>2, <1>3 DEF Next

\* Who finds the source missing.
LEMMA SourceMissed ==
  ASSUME [Next]_vars, panic' = "noSourceFile", panic # "noSourceFile"
  PROVE  /\ ~source /\ UNCHANGED <<requests, wire>>
         /\ \E g \in Goroutines : At(g, "readSource")
<1> DEFINE Quiet == UNCHANGED panic \/ panic' # "noSourceFile"
<1>1. ASSUME NEW g \in Goroutines,
             \/ SetSource(g) \/ StartMachine(g) \/ Spawns(g) \/ Lock(g) \/ Unlock(g)
             \/ IsOff(g) \/ ProduceStopEvent(g) \/ Block(g) \/ Poll(g)
             \/ Finish(g) \/ FatalRequest(g)
      PROVE  Quiet
  <2>1. SetSource(g) \/ Lock(g) \/ Unlock(g) \/ ProduceStopEvent(g) => UNCHANGED panic
    BY DEF SetSource, Lock, Unlock, ProduceStopEvent
  <2>2. Spawns(g) \/ IsOff(g) \/ Block(g) \/ Poll(g) => UNCHANGED panic
    BY DEF Spawns, Spawn, IsOff, Block, Poll
  <2>3. StartMachine(g) \/ Finish(g) \/ FatalRequest(g) => UNCHANGED panic
    BY DEF StartMachine, Target!Start, Finish, FatalRequest
  <2> QED BY <1>1, <2>1, <2>2, <2>3
<1>2. ASSUME NEW g \in Goroutines,
             Begin(g, "run") \/ Begin(g, "step") \/ Continues(g) \/ Return(g) \/ Crash(g)
      PROVE  Quiet
  <2>1. Begin(g, "run") \/ Begin(g, "step") => Quiet
    BY DEF Begin, Target!Begin, Breaks, Panics
  <2>2. Continues(g) \/ Return(g) => UNCHANGED panic
    BY DEF Continues, Return, Target!Continues, Target!Ends, Target!Moved
  <2>3. Crash(g) => Quiet
    BY DEF Crash, Target!Dies
  <2> QED BY <1>2, <2>1, <2>2, <2>3
<1>3. ASSUME NEW g \in Goroutines,
             CollectFrames(g) \/ ReadFrame(g) \/ ReadErrors(g) \/ SignalClosed(g)
      PROVE  Quiet
  BY <1>3 DEF CollectFrames, ReadFrame, ReadErrors, SignalClosed, Breaks, Panics
<1>4. ASSUME NEW g \in Goroutines, NEW m \in Messages, Send(g, m) PROVE Quiet
  BY <1>4 DEF Send, Panics
<1>5. ASSUME Ask \/ Hangup \/ Garbage \/ Writer \/ Shutdown \/ UNCHANGED vars PROVE Quiet
  <2>1. ASSUME Ask \/ Hangup \/ Garbage \/ Writer \/ Shutdown PROVE UNCHANGED panic
    BY <2>1 DEF Ask, HandleRequest, Hangup, Garbage, Writer, Shutdown, EndOfInput, Fatal,
       SendFromQueue, CloseQueue, Exit
  <2>2. UNCHANGED vars => UNCHANGED panic
    BY DEF vars, sessionVars
  <2> QED BY <1>5, <2>1, <2>2
<1>6. PICK g \in Goroutines : ReadSource(g)
  BY <1>1, <1>2, <1>3, <1>4, <1>5 DEF Next, Goroutine, Spawns
<1>7. At(g, "readSource") /\ Breaks(Unread)
  BY <1>6 DEF ReadSource
<1>8. ~source /\ UNCHANGED <<requests, wire>>
  BY <1>7 DEF Breaks, Panics, Unread
<1>9. QED BY <1>7, <1>8

\* The path stays, and a request that sets it does so before anything else.
LEMMA SourceStays ==
  ASSUME [Next]_vars, source
  PROVE  source'
<1>1. ASSUME NEW g \in Goroutines, SetSource(g) PROVE source'
  BY <1>1 DEF SetSource
<1>2. ASSUME NEW g \in Goroutines,
             \/ StartMachine(g) \/ Spawns(g) \/ Lock(g) \/ Unlock(g) \/ Continues(g) \/ Return(g)
             \/ Crash(g) \/ ProduceStopEvent(g)
      PROVE  UNCHANGED source
  BY <1>2 DEF StartMachine, Spawns, Spawn, Lock, Unlock, Continues, Return, Crash,
     ProduceStopEvent, handlerVars
<1>3. ASSUME NEW g \in Goroutines, ReadSource(g) \/ Begin(g, "run") \/ Begin(g, "step")
      PROVE  UNCHANGED source
  BY <1>3 DEF ReadSource, Begin, Breaks, handlerVars
<1>4. ASSUME NEW g \in Goroutines,
             \/ IsOff(g) \/ CollectFrames(g) \/ ReadFrame(g) \/ ReadErrors(g)
             \/ Block(g) \/ SignalClosed(g) \/ Poll(g)
      PROVE  UNCHANGED source
  BY <1>4 DEF IsOff, CollectFrames, ReadFrame, ReadErrors, Block, SignalClosed, Poll, Breaks,
     handlerVars
<1>5. UNCHANGED handlerVars \/ UNCHANGED vars => UNCHANGED source
  BY DEF handlerVars, vars
<1>6. Ask \/ Hangup \/ Garbage \/ Writer \/ Shutdown => UNCHANGED handlerVars
  BY DEF Ask, Hangup, Garbage, Writer, Shutdown
<1>7. QED BY <1>1, <1>2, <1>3, <1>4, <1>5, <1>6 DEF Next, Goroutine, Spawns

LEMMA SourceIsSet ==
  ASSUME HandlerInv, [Next]_vars, NEW g \in Goroutines, Kind(g) = "setBreakpoints",
         todo[g] = OnSetBreakpoints, todo'[g] # todo[g]
  PROVE  source'
<1>1. g # Runner /\ Kind(g)' = Kind(g)
  BY KindGrows DEF Kind
<1>2. \A step : At(g, step) => step = "setSource"
  BY HeadOfSetBreakpoints DEF At
<1>3. ASSUME Ask PROVE FALSE
  <2>1. PICK kind \in Kinds \ {"hangup", "garbage"}, frame \in 1 .. MaxDepth :
          HandleRequest([kind |-> kind, frame |-> frame], Handler[kind])
    BY <1>3 DEF Ask
  <2> PICK a : a = Len(requests) + 1
    OBVIOUS
  <2>2. Kind(a) = "none" /\ \A h \in Goroutines \ {a} : todo'[h] = todo[h]
    BY <1>3, <2>1, AskedKind DEF HandlerInv
  <2> QED BY <2>2
<1>4. ASSUME Hangup \/ Garbage \/ Writer \/ Shutdown \/ UNCHANGED vars PROVE UNCHANGED todo
  BY <1>4 DEF Hangup, Garbage, Writer, Shutdown, EndOfInput, Fatal, SendFromQueue,
     CloseQueue, Exit, vars, sessionVars
<1>5. ASSUME NEW h \in Goroutines \ {g}, Goroutine(h) PROVE FALSE
  BY <1>1, <1>2, <1>5, AnotherGoes
<1>6. Goroutine(g)
  BY <1>3, <1>4, <1>5 DEF Next
<1>7. ASSUME ~SetSource(g) PROVE FALSE
  <2>1. ~(ReadSource(g) \/ StartMachine(g) \/ Lock(g) \/ Unlock(g) \/ Spawns(g))
    BY <1>2 DEF ReadSource, StartMachine, Lock, Unlock, Spawns, Spawn
  <2>2. ~(Begin(g, "run") \/ Begin(g, "step") \/ Continues(g) \/ Return(g) \/ Crash(g))
    BY <1>2 DEF Begin, Continues, Return, Crash
  <2>3. ~(IsOff(g) \/ ProduceStopEvent(g) \/ CollectFrames(g) \/ ReadFrame(g) \/ ReadErrors(g))
    BY <1>2 DEF IsOff, ProduceStopEvent, CollectFrames, ReadFrame, ReadErrors
  <2>4. ~(Block(g) \/ SignalClosed(g) \/ Poll(g))
    BY <1>2 DEF Block, SignalClosed, Poll
  <2>5. \A m \in Messages : ~Send(g, m)
    BY <1>2 DEF Send, Messages, Events
  <2>6. Finish(g) \/ FatalRequest(g) => UNCHANGED todo
    BY DEF Finish, FatalRequest
  <2> QED BY <1>6, <1>7, <2>1, <2>2, <2>3, <2>4, <2>5, <2>6 DEF Goroutine, Spawns
<1>8. QED BY <1>7 DEF SetSource

\* Who speaks up, sends a message.
LEMMA SpeakersSend ==
  ASSUME HandlerInv, [Next]_vars, NEW g \in Goroutines, Spoken(g)', ~Spoken(g)
  PROVE  \E m \in Messages : At(g, m)
<1>1. CASE UNCHANGED <<outgoing, wire>>
  BY <1>1 DEF Spoken
<1>2. ASSUME Writer PROVE FALSE
  <2>1. PICK m \in Message :
          /\ outgoing = <<m>> /\ outgoing' = << >>
          /\ DOMAIN wire = 1 .. Len(wire) /\ Len(wire) \in Nat
          /\ DOMAIN wire' = 1 .. (Len(wire) + 1)
          /\ \A i \in DOMAIN wire : wire'[i] = wire[i]
          /\ wire'[Len(wire) + 1] = m
    BY <1>2, Written DEF HandlerInv
  <2>2. PICK i \in DOMAIN wire' : wire'[i].from = g
    BY <2>1 DEF Spoken
  <2>3. CASE i \in DOMAIN wire
    BY <2>1, <2>2, <2>3 DEF Spoken
  <2>4. CASE i = Len(wire) + 1
    <3>1. m.from = g /\ 1 \in DOMAIN outgoing /\ outgoing[1] = m
      BY <2>1, <2>2, <2>4
    <3> QED BY <3>1 DEF Spoken
  <2> QED BY <2>1, <2>2, <2>3, <2>4
<1>3. ASSUME NEW h \in Goroutines, NEW m \in Messages, Sends(h, m) PROVE At(g, m)
  <2>1. At(h, m) /\ outgoing' = <<[from |-> h, type |-> m]>> /\ UNCHANGED wire
    BY <1>3 DEF Sends, Send
  <2>2. PICK i \in DOMAIN outgoing' : outgoing'[i].from = g
    BY <2>1 DEF Spoken
  <2>3. h = g
    BY <2>1, <2>2
  <2> QED BY <2>1, <2>3
<1>4. QED BY <1>1, <1>2, <1>3, MessageSteps

LEMMA SourceOfStays ==
  ASSUME HandlerInv, SourceInv, [Next]_vars, Care # "careless", NEW g \in Goroutines
  PROVE  SourceOf(g)'
<1>1. "setSource" \notin Messages
  BY DEF Messages, Events
<1>2. ASSUME NEW b \in Goroutines, Kind(b) = "setBreakpoints" PROVE Kind(b)' = "setBreakpoints"
  BY <1>2, KindGrows
<1>3. CASE Kind(g)' # Kind(g)
  <2>1. PICK k : k = Kind(g)'
    OBVIOUS
  <2>2. /\ Kind(g) = "none" /\ k \in Kinds \ {"hangup", "garbage"} /\ k # "none"
        /\ todo'[g] = Handler[k] /\ UNCHANGED <<outgoing, wire>>
    BY <1>3, <2>1, KindGrows, HandlerAssumption
  <2>3. ~Spoken(g)'
    BY <2>2 DEF SourceInv, SourceOf, Spoken
  <2>4. k = "setBreakpoints" => todo'[g] = OnSetBreakpoints
    BY <2>2 DEF Handler
  <2>5. ASSUME k = "launch" PROVE (\E b \in Goroutines : Kind(b) = "setBreakpoints")'
    <3>1. Asked({"setBreakpoints"})
      BY <1>3, <2>1, <2>5, OneIsAsked DEF InOrder
    <3>2. PICK b \in DOMAIN requests : requests[b].kind = "setBreakpoints"
      BY <3>1 DEF Asked
    <3>3. DOMAIN requests = 1 .. Len(requests) /\ Len(requests) \in Nat /\ Len(requests) <= MaxRequests
      BY LenProperties DEF HandlerInv, TypeOK
    <3>4. b \in Goroutines
      BY <3>2, <3>3, SessionAssumption DEF Goroutines, Requests
    <3>5. Kind(b) = "setBreakpoints"
      BY <3>2, <3>4, KindType DEF HandlerInv
    <3>6. Kind(b)' = "setBreakpoints"
      BY <1>2, <3>4, <3>5
    <3> QED BY <3>4, <3>6
  <2> QED BY <2>1, <2>2, <2>3, <2>4, <2>5 DEF SourceOf
<1>4. CASE Kind(g)' = Kind(g)
  <2>1. ASSUME Kind(g) = "none" PROVE todo'[g] = << >> /\ ~Spoken(g)'
    <3>1. todo[g] = << >> /\ ~Spoken(g)
      BY <2>1 DEF SourceInv, SourceOf
    <3>2. todo'[g] = todo[g]
      BY <1>4, <2>1, <3>1, AsideGoes DEF Commanding
    <3>3. ~Spoken(g)'
      BY <3>1, SpeakersSend DEF At
    <3> QED BY <3>1, <3>2, <3>3
  <2>2. ASSUME Kind(g) = "setBreakpoints", ~source'
        PROVE  todo'[g] = OnSetBreakpoints /\ ~Spoken(g)'
    <3>1. ~source
      BY <2>2, SourceStays
    <3>2. todo[g] = OnSetBreakpoints /\ ~Spoken(g)
      BY <2>2, <3>1 DEF SourceInv, SourceOf
    <3>3. todo'[g] = todo[g]
      BY <2>2, <3>2, SourceIsSet
    <3>4. ~Spoken(g)'
      BY <1>1, <3>2, SpeakersSend, HeadOfSetBreakpoints DEF At
    <3> QED BY <3>2, <3>3, <3>4
  <2>3. ASSUME Kind(g) = "launch" PROVE (\E b \in Goroutines : Kind(b) = "setBreakpoints")'
    <3>1. PICK b \in Goroutines : Kind(b) = "setBreakpoints"
      BY <2>3 DEF SourceInv, SourceOf
    <3>2. Kind(b)' = "setBreakpoints"
      BY <1>2, <3>1
    <3> QED BY <3>2
  <2> QED BY <1>4, <2>1, <2>2, <2>3 DEF SourceOf
<1>5. QED BY <1>3, <1>4

\* The launch that finds the source missing comes after a request that sets it.
LEMMA OvertakerIsLaunch ==
  ASSUME HandlerInv, SourceInv, ~source, NEW g \in Goroutines, At(g, "readSource")
  PROVE  \E r \in Unanswered : requests[r].kind = "setBreakpoints"
<1>1. todo[g] # << >> /\ Head(todo[g]) = "readSource" /\ todo[g] \in Rest(Kind(g))
  BY Here DEF HandlerInv
<1>2. Kind(g) = "launch"
  BY <1>1, Places
<1>3. PICK b \in Goroutines : Kind(b) = "setBreakpoints"
  BY <1>2 DEF SourceInv, SourceOf
<1>4. b \in DOMAIN requests /\ requests[b].kind = "setBreakpoints"
  BY <1>3, KindType DEF HandlerInv
<1>5. ~Spoken(b)
  BY <1>3 DEF SourceInv, SourceOf
<1>6. ~Answered(b)
  BY <1>5 DEF Spoken, Answered
<1>7. QED BY <1>4, <1>6 DEF Unanswered

LEMMA LaunchKnowsStays ==
  ASSUME HandlerInv, SourceInv, [Next]_vars
  PROVE  LaunchKnowsSource'
<1>1. CASE panic' # "noSourceFile"
  BY <1>1 DEF LaunchKnowsSource
<1>2. CASE panic = "noSourceFile"
  <2>1. UNCHANGED <<panic, requests, wire>>
    BY <1>2, DeadIsStill DEF vars, sessionVars
  <2> QED BY <2>1 DEF SourceInv, LaunchKnowsSource, Unanswered, Answered
<1>3. CASE panic' = "noSourceFile" /\ panic # "noSourceFile"
  <2>1. ~source /\ UNCHANGED <<requests, wire>> /\ \E g \in Goroutines : At(g, "readSource")
    BY <1>3, SourceMissed
  <2>2. \E r \in Unanswered : requests[r].kind = "setBreakpoints"
    BY <2>1, OvertakerIsLaunch
  <2> QED BY <2>1, <2>2 DEF LaunchKnowsSource, Unanswered, Answered
<1>4. QED BY <1>1, <1>2, <1>3

(***************************************************************************)
(* With a client that sets breakpoints before it launches, however many    *)
(* requests it leaves unanswered, a launch misses the path of the source   *)
(* only while the client has no answer to a setBreakpoints request.        *)
(***************************************************************************)
THEOREM LaunchesKnowTheSource ==
  ASSUME Care # "careless"
  PROVE  Spec => []LaunchKnowsSource
<1>1. Init => SourceInv
  <2> SUFFICES ASSUME Init PROVE SourceInv
    OBVIOUS
  <2>1. /\ requests = << >> /\ panic = "none" /\ todo = [g \in Goroutines |-> << >>]
        /\ outgoing = << >> /\ wire = << >>
    BY DEF Init, SessionInit
  <2>2. \A g : Kind(g) \in {"runner", "none"} /\ ~Spoken(g)
    BY <2>1 DEF Kind, Spoken
  <2>3. \A g \in Goroutines : SourceOf(g)
    BY <2>1, <2>2 DEF SourceOf
  <2> QED BY <2>1, <2>3 DEF SourceInv, LaunchKnowsSource
<1>2. HandlerInv /\ SourceInv /\ [Next]_vars => SourceInv'
  <2> SUFFICES ASSUME HandlerInv, SourceInv, [Next]_vars PROVE SourceInv'
    OBVIOUS
  <2>1. (\A g \in Goroutines : SourceOf(g))'
    BY SourceOfStays
  <2> QED BY <2>1, LaunchKnowsStays DEF SourceInv
<1>3. SourceInv => LaunchKnowsSource
  BY DEF SourceInv
<1>4. QED BY <1>1, <1>2, <1>3, HandlerInvariantHolds, PTL DEF Spec

=============================================================================

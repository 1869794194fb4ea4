---------------------- MODULE MonkeyDriverCommandProofs ----------------------
(***************************************************************************)
(* Theorems about what the commands of MonkeyDriver do, for every program  *)
(* the compiler may emit: where they stop, what they report, and that the  *)
(* driver implements DebugTarget.                                          *)
(***************************************************************************)
EXTENDS MonkeyDriverProofs

-----------------------------------------------------------------------------
(***************************************************************************)
(* How one instruction changes the depth and the position.                 *)
(***************************************************************************)

\* It moves within the function, past its start, or enters another or returns.
LEMMA RunOpShape ==
  ASSUME NEW fs, ValidFrames(fs), CanFetch(fs),
         NEW r \in RunOp(Advance(fs)), r.out # "panic"
  PROVE  \/ \E n \in Nat \ {0} : r.frames = MoveTo(fs, n)
         \/ \E n \in Nat \ {0}, g \in Fns :
              /\ r.frames = Append(MoveTo(fs, n), NewFrame(g))
              /\ Fetched(fs).op = "call" /\ n = Current(fs).ip + Fetched(fs).width
              /\ Len(fs) < MaxFrames
         \/ Len(fs) > 1 /\ r.frames = SubSeq(Advance(fs), 1, Len(Advance(fs)) - 1)
<1> DEFINE as == Advance(fs)
           c == Fetched(fs)
           n == Current(fs).ip + c.width
           next == MoveTo(as, Current(as).ip + c.width - 1)
<1>1. fs \in Seq(Frame) /\ fs # << >>
  BY DEF ValidFrames
<1>2. /\ Current(fs).ip \in Nat
      /\ Current(as).fn = Current(fs).fn
      /\ Current(as).ip = Current(fs).ip + 1
  BY <1>1, AdvanceType
<1>3. c \in Cell /\ c.op # "operand" /\ c.width \in Nat \ {0} /\ c.to \in Nat /\ c.fn \in Fns
  BY FetchValid DEF Cell
<1>4. Code[Current(as).fn][Current(as).ip] = c
  BY <1>2 DEF Fetched
<1>5. /\ c.op \in {"jump", "branch"} => c.to \in Nat \ {0}
      /\ c.op = "return" => Len(fs) > 1
  <2>1. c.op \in {"jump", "branch"} => Current(fs).ip < c.to
    BY FetchValid
  <2>2. c.op = "return" => Len(fs) > 1
    BY FetchValid
  <2> HIDE DEF c
  <2> QED BY <1>2, <1>3, <2>1, <2>2
<1> HIDE DEF c
<1>6. Current(as).ip + c.width - 1 = n /\ n \in Nat \ {0}
  BY <1>2, <1>3
<1>7. next = MoveTo(fs, n) /\ MoveTo(as, c.to) = MoveTo(fs, c.to)
  BY <1>1, <1>3, <1>6, MoveAfterAdvance
<1>8. RunOp(as) =
         CASE c.op \in {"plain", "pop"} -> {Outcome(next, "ok")}
           [] c.op = "risky"  -> {Outcome(next, "ok"), Outcome(next, "error")}
           [] c.op = "call"   -> IF Len(as) < MaxFrames
                                 THEN {Outcome(Append(next, NewFrame(c.fn)), "ok")}
                                 ELSE {Outcome(as, "panic")}
           [] c.op = "return" -> {Outcome(SubSeq(as, 1, Len(as) - 1), "ok")}
           [] c.op = "jump"   -> {Outcome(MoveTo(as, c.to), "ok")}
           [] c.op = "branch" -> {Outcome(next, "ok"), Outcome(MoveTo(as, c.to), "ok")}
  BY <1>4 DEF RunOp
<1>9. c.op \in {"plain", "pop", "risky", "call", "return", "jump", "branch"}
  BY <1>3 DEF Cell, Ops
<1> HIDE DEF next, as, n
<1>10. CASE c.op \in {"plain", "pop", "risky"}
  <2>1. r.frames = next
    BY <1>8, <1>10 DEF Outcome, as
  <2> QED BY <2>1, <1>6, <1>7
<1>11. CASE c.op = "call"
  <2>1. r.frames = Append(next, NewFrame(c.fn)) /\ Len(as) < MaxFrames
    BY <1>8, <1>11 DEF Outcome, as
  <2>2. Len(as) = Len(fs)
    BY <1>1, AdvanceType DEF as
  <2> QED BY <2>1, <2>2, <1>3, <1>6, <1>7, <1>11 DEF c, n
<1>12. CASE c.op = "return"
  <2>1. r.frames = SubSeq(as, 1, Len(as) - 1)
    BY <1>8, <1>12 DEF Outcome, as
  <2> QED BY <2>1, <1>5, <1>12 DEF as
<1>13. CASE c.op \in {"jump", "branch"}
  <2>1. r.frames = next \/ r.frames = MoveTo(as, c.to)
    BY <1>8, <1>13 DEF Outcome, as
  <2> QED BY <2>1, <1>5, <1>6, <1>7, <1>13
<1>14. QED BY <1>9, <1>10, <1>11, <1>12, <1>13

\* The depth changes by one at most, a new frame is at its start, and Main has
\* left its start for good.
LEMMA RunOpDepth ==
  ASSUME NEW fs, ValidFrames(fs), CanFetch(fs),
         NEW r \in RunOp(Advance(fs)), r.out # "panic"
  PROVE  /\ CallDepth(fs) \in Nat /\ CallDepth(r.frames) \in Nat
         /\ CallDepth(r.frames) >= CallDepth(fs) - 1
         /\ CallDepth(r.frames) <= CallDepth(fs) + 1
         /\ CallDepth(r.frames) = CallDepth(fs) + 1 => Current(r.frames).ip = 0
         /\ VMState(r.frames) \in {"STOPPED", "DONE"}
<1> DEFINE gs == r.frames
           as == Advance(fs)
<1>1. /\ fs \in Seq(Frame) /\ fs # << >> /\ Len(fs) \in Nat \ {0} /\ DOMAIN fs = 1 .. Len(fs)
  BY EmptySeq, LenProperties DEF ValidFrames
<1>2. CASE \E n \in Nat \ {0} : gs = MoveTo(fs, n)
  <2>1. PICK n \in Nat \ {0} : gs = MoveTo(fs, n)
    BY <1>2
  <2>2. Len(gs) = Len(fs) /\ gs[Len(fs)] = [fn |-> Current(fs).fn, ip |-> n]
    BY <1>1, <2>1, MoveToType
  <2>3. Current(gs).ip = n
    BY <2>2 DEF Current
  <2> HIDE DEF gs
  <2>4. VMState(gs) \in {"STOPPED", "DONE"}
    BY <2>1, <2>3 DEF VMState
  <2>5. CallDepth(gs) = CallDepth(fs) /\ CallDepth(fs) \in Nat
    BY <1>1, <2>2 DEF CallDepth
  <2> QED BY <2>4, <2>5 DEF gs
<1>3. CASE \E n \in Nat \ {0}, g \in Fns : gs = Append(MoveTo(fs, n), NewFrame(g))
  <2>1. PICK n \in Nat \ {0}, g \in Fns : gs = Append(MoveTo(fs, n), NewFrame(g))
    BY <1>3
  <2>2. MoveTo(fs, n) \in Seq(Frame) /\ Len(MoveTo(fs, n)) = Len(fs)
    BY <1>1, MoveToType
  <2>3. NewFrame(g) \in Frame /\ NewFrame(g).ip = 0
    BY DEF NewFrame, Frame
  <2>4. Len(gs) = Len(fs) + 1 /\ gs[Len(fs) + 1] = NewFrame(g)
    BY <2>1, <2>2, <2>3, AppendProperties
  <2>5. Current(gs).ip = 0
    BY <2>3, <2>4 DEF Current
  <2> HIDE DEF gs
  <2>6. VMState(gs) = "STOPPED"
    <3>1. Len(gs) > 1
      BY <1>1, <2>4
    <3> QED BY <3>1 DEF VMState
  <2> QED BY <1>1, <2>4, <2>5, <2>6 DEF CallDepth, gs
<1>4. CASE Len(fs) > 1 /\ gs = SubSeq(as, 1, Len(as) - 1)
  <2>1. /\ as \in Seq(Frame) /\ Len(as) = Len(fs)
        /\ \A i \in 1 .. Len(fs) - 1 : as[i] = fs[i]
    BY <1>1, AdvanceType
  <2>2. Len(as) - 1 \in Nat \ {0} /\ Len(as) - 1 <= Len(as)
    BY <1>1, <1>4, <2>1
  <2>3. /\ Len(gs) = Len(fs) - 1
        /\ \A i \in 1 .. Len(fs) - 1 : gs[i] = as[i]
    <3> DEFINE n == Len(as) - 1
    <3>1. n \in Nat /\ n <= Len(as) /\ gs = SubSeq(as, 1, n) /\ n = Len(fs) - 1
      BY <1>4, <2>1, <2>2
    <3> HIDE DEF as, n, gs
    <3>2. Len(gs) = n /\ \A i \in 1 .. n : gs[i] = as[i]
      BY <2>1, <3>1, PrefixProperties
    <3> QED BY <3>1, <3>2
  <2>4. Len(gs) \in 1 .. Len(fs) - 1 /\ Len(gs) \in 1 .. Len(fs) /\ Len(gs) < Len(fs)
    <3>1. Len(fs) \in Nat /\ Len(fs) > 1
      BY <1>1, <1>4
    <3> HIDE DEF gs, as
    <3> QED BY <2>3, <3>1
  <2>5. Current(gs) = fs[Len(gs)]
    <3> HIDE DEF gs, as
    <3> QED BY <2>1, <2>3, <2>4 DEF Current
  <2>6. Current(gs).ip > 0 /\ Current(gs).ip \in Nat
    <3> HIDE DEF gs
    <3> QED BY <2>4, <2>5, ValidFrame
  <2> HIDE DEF gs
  <2>7. VMState(gs) \in {"STOPPED", "DONE"}
    BY <2>6 DEF VMState
  <2>8. CallDepth(gs) = CallDepth(fs) - 1 /\ CallDepth(gs) \in Nat /\ CallDepth(fs) \in Nat
    BY <1>1, <2>3, <2>4 DEF CallDepth
  <2> QED BY <2>7, <2>8 DEF gs
<1>5. QED BY <1>2, <1>3, <1>4, RunOpShape

\* The machine can fetch exactly until it is done.
LEMMA DoneAtEnd ==
  ASSUME NEW fs, ValidFrames(fs)
  PROVE  CanFetch(fs) <=> VMState(fs) # "DONE"
<1> DEFINE f == Current(fs).fn
           k == Current(fs).ip
<1>1. fs \in Seq(Frame) /\ Len(fs) \in Nat \ {0} /\ Len(fs) \in 1 .. Len(fs)
  <2>1. fs \in Seq(Frame) /\ fs # << >>
    BY DEF ValidFrames
  <2>2. Len(fs) \in Nat \ {0}
    BY <2>1, EmptySeq
  <2> QED BY <2>1, <2>2
<1>2. /\ f \in Fns /\ k \in Nat /\ Boundary(f, k)
      /\ Len(fs) > 1 => k < Len(Code[f])
      /\ Len(fs) = 1 => f = Main
  BY <1>1, ValidFrame DEF Current
<1>3. Len(Code[f]) \in Nat \ {0} /\ k <= Len(Code[f])
  <2>1. Code[f] \in Seq(Cell) /\ Len(Code[f]) > 0
    BY <1>2, CodeAssumption
  <2>2. Len(Code[f]) \in Nat
    BY <2>1, LenProperties
  <2> QED BY <1>2, <2>1, <2>2 DEF Boundary
<1>4. CASE Len(fs) > 1
  BY <1>2, <1>4 DEF CanFetch, VMState
<1>5. CASE Len(fs) = 1
  <2>1. f = Main
    BY <1>2, <1>5
  <2> HIDE DEF f, k
  <2>2. VMState(fs) = IF k = 0 THEN "OFF" ELSE IF k = Len(Code[f]) THEN "DONE" ELSE "STOPPED"
    BY <1>5, <2>1 DEF VMState, k
  <2>3. CanFetch(fs) <=> k < Len(Code[f])
    BY DEF CanFetch, f, k
  <2> QED BY <1>2, <1>3, <2>2, <2>3
<1>6. QED
  <2>1. Len(fs) > 1 \/ Len(fs) = 1
    <3>1. \A n \in Nat \ {0} : n > 1 \/ n = 1
      OBVIOUS
    <3> QED BY <1>1, <3>1
  <2> QED BY <1>4, <1>5, <2>1

-----------------------------------------------------------------------------
(***************************************************************************)
(* The invariant about a command in progress.                              *)
(***************************************************************************)

\* A step that has not left the start of the program began there.
StartInv ==
  frames # << >> /\ VMState(frames) = "OFF" /\ IsStep =>
    cmd.depth = 0 /\ (cmd.op # "out" => cmd.line = SourceLocation(frames))

\* A step out goes no further than one frame up.
OutInv == cmd.op = "out" => CallDepth(frames) >= cmd.depth - 1

\* A step into goes no further than one frame down, to its start.
IntoInv ==
  cmd.op = "into" =>
    /\ CallDepth(frames) <= cmd.depth + 1
    /\ CallDepth(frames) = cmd.depth + 1 => Current(frames).ip = 0

\* Only a step over is taken to leave a breakpoint, and a run that has left it
\* has forgotten it.
LeavingInv ==
  /\ cmd.leaving => cmd.op = "over"
  /\ cmd.op = "run" /\ stoppedOnBreakpoint => hasErrors

CommandInv == StartInv /\ OutInv /\ IntoInv /\ LeavingInv

\* What a command in progress, and one that returns, is.
LEMMA CommandTyped ==
  ASSUME IInv
  PROVE  /\ cmd.op \in RunOps /\ cmd.depth \in Nat /\ cmd.line \in Nat
         /\ cmd.leaving \in BOOLEAN /\ stoppedOnBreakpoint \in BOOLEAN
         /\ hasErrors \in BOOLEAN
BY DEF IInv, TypeOK, RunType

LEMMA RunFields ==
  ASSUME NEW op, NEW line, NEW depth, NEW bps, NEW leaving
  PROVE  /\ Run(op, line, depth, bps, leaving).op = op
         /\ Run(op, line, depth, bps, leaving).line = line
         /\ Run(op, line, depth, bps, leaving).depth = depth
         /\ Run(op, line, depth, bps, leaving).bps = bps
         /\ Run(op, line, depth, bps, leaving).leaving = leaving
BY DEF Run

LEMMA ReturnsFields ==
  ASSUME NEW err, NEW hit, Returns(err, hit)
  PROVE  \/ /\ cmd.leaving
            /\ cmd'.op = "run" /\ ~cmd'.leaving /\ result' = result
         \/ /\ ~cmd.leaving
            /\ cmd'.op = "none" /\ ~cmd'.leaving
            /\ result' = [run |-> cmd, err |-> err, hit |-> hit]
<1>1. NoRun.op = "none" /\ ~NoRun.leaving
  BY DEF NoRun, Run
<1>2. RunFor(cmd.bps).op = "run" /\ ~RunFor(cmd.bps).leaving
  BY DEF RunFor, Run
<1>3. QED BY <1>1, <1>2 DEF Returns

\* A command that returns keeps the invariant if the flag is right.
LEMMA ReturnsKeepsCommandInv ==
  ASSUME NEW err, NEW hit, Returns(err, hit),
         cmd.leaving => ~stoppedOnBreakpoint' \/ hasErrors'
  PROVE  CommandInv'
<1>1. /\ cmd'.op \in {"run", "none"} /\ ~cmd'.leaving
      /\ cmd'.op = "run" => cmd.leaving
  BY ReturnsFields
<1>2. QED BY <1>1 DEF CommandInv, StartInv, OutInv, IntoInv, LeavingInv, IsStep

\* So does what leaves the command and the machine alone.
LEMMA IdleKeepsCommandInv ==
  ASSUME CommandInv, UNCHANGED <<frames, cmd, stoppedOnBreakpoint, hasErrors>>
  PROVE  CommandInv'
BY DEF CommandInv, StartInv, OutInv, IntoInv, LeavingInv, IsStep

LEMMA StartsKeepsCommandInv ==
  ASSUME IInv, frames # << >>, NEW op \in {"over", "into", "out"}, NEW line, NEW depth,
         NEW bps, NEW leaving \in BOOLEAN,
         depth = CallDepth(frames), op # "out" => line = SourceLocation(frames),
         leaving => op = "over",
         Starts(Run(op, line, depth, bps, leaving))
  PROVE  CommandInv'
<1>1. /\ cmd'.op = op /\ cmd'.line = line /\ cmd'.depth = depth /\ cmd'.leaving = leaving
      /\ frames' = frames
  BY RunFields DEF Starts, vmVars
<1>2. depth \in Nat /\ Len(frames) \in Nat
  <2>1. Len(frames) \in Nat \ {0}
    BY EmptySeq DEF IInv, TypeOK
  <2> QED BY <2>1 DEF CallDepth
<1>3. VMState(frames) = "OFF" => depth = 0
  <2>1. VMState(frames) = "OFF" => ~(Len(frames) > 1)
    BY DEF VMState
  <2>2. depth = Len(frames) - 1
    BY DEF CallDepth
  <2> QED BY <1>2, <2>1, <2>2
<1>4. StartInv'
  BY <1>1, <1>3 DEF StartInv
<1>5. CallDepth(frames)' = depth
  BY <1>1 DEF CallDepth
<1>6. OutInv' /\ IntoInv'
  BY <1>1, <1>2, <1>5 DEF OutInv, IntoInv
<1>7. LeavingInv'
  BY <1>1 DEF LeavingInv
<1>8. QED BY <1>4, <1>6, <1>7 DEF CommandInv

\* A finished run forgets its breakpoint if it was a step.
LEMMA FlagAfterStep ==
  ASSUME IInv, CommandInv, NEW hit \in BOOLEAN, cmd.leaving,
         stoppedOnBreakpoint' = FlagAfter(hit)
  PROVE  ~stoppedOnBreakpoint'
BY CommandTyped DEF CommandInv, LeavingInv, FlagAfter, IsStep

LEMMA ExecutesKeepsCommandInv ==
  ASSUME IInv, CommandInv, Executes
  PROVE  CommandInv'
<1>1. CASE Dies
  BY <1>1, IdleKeepsCommandInv DEF Dies, Panic, driverVars
<1>2. CASE ~Dies
  <2>1. frames # << >> /\ CanFetch(frames) /\ ValidFrames(frames) /\ ~Met(Advance(frames))
    BY DEF Executes, Running, IInv
  <2>2. PICK r \in RunOp(Advance(frames)) :
          /\ r.out # "panic"
          /\ frames' = r.frames
          /\ hasErrors' = (hasErrors \/ r.out = "error")
          /\ stoppedOnBreakpoint' = (stoppedOnBreakpoint /\ cmd.op # "run")
          /\ IF r.out = "error" THEN Returns(TRUE, FALSE) ELSE UNCHANGED <<cmd, result>>
    BY <1>2 DEF Executes
  <2>3. CASE r.out = "error"
    BY <2>2, <2>3, ReturnsKeepsCommandInv
  <2>4. CASE r.out # "error"
    <3>1. cmd' = cmd /\ hasErrors' = hasErrors
      BY <2>2, <2>4, CommandTyped
    <3>2. /\ CallDepth(frames) \in Nat /\ CallDepth(frames') \in Nat
          /\ CallDepth(frames') >= CallDepth(frames) - 1
          /\ CallDepth(frames') <= CallDepth(frames) + 1
          /\ CallDepth(frames') = CallDepth(frames) + 1 => Current(frames').ip = 0
          /\ VMState(frames') \in {"STOPPED", "DONE"}
      BY <2>1, <2>2, RunOpDepth
    <3>3. CallDepth(Advance(frames)) = CallDepth(frames)
      BY <2>1, AdvanceType DEF ValidFrames, CallDepth
    <3>4. cmd.depth \in Nat
      BY CommandTyped
    <3>5. StartInv'
      BY <3>2 DEF StartInv
    <3>6. OutInv'
      <4>1. ASSUME cmd.op = "out" PROVE CallDepth(frames') >= cmd.depth - 1
        <5>1. ~(CallDepth(frames) < cmd.depth)
          BY <2>1, <3>3, <4>1 DEF Met
        <5> QED BY <3>2, <3>4, <5>1
      <4> QED BY <3>1, <4>1 DEF OutInv, CallDepth
    <3>7. IntoInv'
      <4>1. ASSUME cmd.op = "into"
            PROVE  /\ CallDepth(frames') <= cmd.depth + 1
                   /\ CallDepth(frames') = cmd.depth + 1 => Current(frames').ip = 0
        <5>1. ~(CallDepth(frames) > cmd.depth)
          BY <2>1, <3>3, <4>1 DEF Met
        <5> QED BY <3>2, <3>4, <5>1
      <4> QED BY <3>1, <4>1 DEF IntoInv, CallDepth, Current
    <3>8. LeavingInv'
      BY <2>2, <3>1 DEF CommandInv, LeavingInv
    <3> QED BY <3>5, <3>6, <3>7, <3>8 DEF CommandInv
  <2> QED BY <2>3, <2>4
<1>3. QED BY <1>1, <1>2

LEMMA NextCommandInv == IInv /\ CommandInv /\ [Next]_vars => CommandInv'
<1> SUFFICES ASSUME IInv, CommandInv, [Next]_vars PROVE CommandInv'
  OBVIOUS
<1>1. ASSUME Dies PROVE CommandInv'
  BY <1>1, IdleKeepsCommandInv DEF Dies, Panic, driverVars
<1>2. ASSUME NEW lines \in SUBSET BreakLines, SetBreakPoints(lines) PROVE CommandInv'
  BY <1>2, IdleKeepsCommandInv DEF SetBreakPoints, vmVars
<1>3. ASSUME NEW ok \in Compiles, StartVM(ok) PROVE CommandInv'
  <2>1. cmd' = cmd /\ cmd.op = "none"
    BY <1>3 DEF StartVM, Idle
  <2>2. ~cmd.leaving
    BY <2>1 DEF CommandInv, LeavingInv
  <2> QED BY <2>1, <2>2 DEF CommandInv, StartInv, OutInv, IntoInv, LeavingInv, IsStep
<1>4. ASSUME NEW op \in {"over", "into"}, CanStep, Starts(StepFrom(op, {}, FALSE))
      PROVE  CommandInv'
  BY <1>4, StartsKeepsCommandInv DEF CanStep, StepFrom
<1>5. ASSUME StepOut PROVE CommandInv'
  <2>1. CASE frames # << >> /\ Starts(Run("out", 0, CallDepth(frames), {}, FALSE))
    <3> DEFINE depth == CallDepth(frames)
    <3>1. depth = CallDepth(frames) /\ Starts(Run("out", 0, depth, {}, FALSE))
      BY <2>1
    <3> HIDE DEF depth
    <3> QED BY <2>1, <3>1, StartsKeepsCommandInv
  <2> QED BY <1>1, <1>5, <2>1 DEF StepOut, OutDepth
<1>6. ASSUME RunWithBreakpoints PROVE CommandInv'
  <2>1. CASE stoppedOnBreakpoint /\ CanStep /\ Starts(StepFrom("over", breakpoints, TRUE))
    <3> DEFINE line == SourceLocation(frames)
               depth == CallDepth(frames)
    <3>1. Starts(Run("over", line, depth, breakpoints, TRUE))
      BY <2>1 DEF StepFrom
    <3>2. depth = CallDepth(frames) /\ line = SourceLocation(frames) /\ frames # << >>
      BY <2>1 DEF CanStep
    <3> HIDE DEF line, depth
    <3> QED BY <3>1, <3>2, StartsKeepsCommandInv
  <2>2. CASE ~stoppedOnBreakpoint /\ Starts(RunFor(breakpoints))
    <3>1. cmd'.op = "run" /\ ~cmd'.leaving /\ stoppedOnBreakpoint' = stoppedOnBreakpoint
      BY <2>2 DEF Starts, RunFor, Run
    <3> QED BY <2>2, <3>1 DEF CommandInv, StartInv, OutInv, IntoInv, LeavingInv, IsStep
  <2> QED BY <1>1, <1>6, <2>1, <2>2 DEF RunWithBreakpoints
<1>7. ASSUME NEW line \in UntilLines, RunUntilBreakPoint(line) PROVE CommandInv'
  <2>1. cmd'.op = "until" /\ ~cmd'.leaving
    BY <1>7 DEF RunUntilBreakPoint, Starts, Run
  <2> QED BY <2>1 DEF CommandInv, StartInv, OutInv, IntoInv, LeavingInv, IsStep
<1>8. ASSUME CollectFrames PROVE CommandInv'
  BY <1>1, <1>8, IdleKeepsCommandInv DEF CollectFrames, vmVars
<1>9. ASSUME RunsOut PROVE CommandInv'
  BY <1>9, ReturnsKeepsCommandInv, FlagAfterStep DEF RunsOut
<1>10. ASSUME Stops PROVE CommandInv'
  BY <1>10, ReturnsKeepsCommandInv, FlagAfterStep DEF Stops
<1>11. ASSUME UNCHANGED vars PROVE CommandInv'
  BY <1>11, IdleKeepsCommandInv DEF vars
<1>12. ASSUME StepOver \/ StepInto PROVE CommandInv'
  BY <1>1, <1>4, <1>12 DEF StepOver, StepInto
<1>13. QED
  BY <1>1, <1>2, <1>3, <1>5, <1>6, <1>7, <1>8, <1>9, <1>10, <1>11, <1>12,
     ExecutesKeepsCommandInv DEF Next, Iterate, LosesLocation

LEMMA InitCommandInv == Init => CommandInv
BY DEF Init, VMInit, NoRun, Run, CommandInv, StartInv, OutInv, IntoInv, LeavingInv, IsStep

(***************************************************************************)
(* The inductive invariant holds in every state: how far a command in      *)
(* progress may have taken the machine from where it was issued.           *)
(***************************************************************************)
THEOREM CommandInvariantHolds == Spec => [](IInv /\ CommandInv)
BY InvariantHolds, InitCommandInv, NextCommandInv, PTL DEF Spec

-----------------------------------------------------------------------------
(***************************************************************************)
(* Where a command stops.                                                  *)
(***************************************************************************)

\* A command that stops keeps the depth and the line its condition has seen.
LEMMA StopPosition ==
  ASSUME NEW fs, ValidFrames(fs), CanFetch(fs),
         frames' = StopFrames(Advance(fs))
  PROVE  /\ CallDepth(Advance(fs)) = CallDepth(fs) /\ CallDepth(frames)' = CallDepth(fs)
         /\ NextLine' = SourceLocation(Advance(fs))
         /\ frames' = fs \/ VMState(frames') = "DONE"
<1> DEFINE as == Advance(fs)
<1>1. /\ fs \in Seq(Frame) /\ fs # << >> /\ Len(as) = Len(fs)
  BY AdvanceType DEF ValidFrames
<1>2. VMState(fs) # "DONE"
  BY DoneAtEnd
<1>3. CASE frames' = fs
  BY <1>1, <1>2, <1>3 DEF NextLine, CallDepth
<1>4. CASE frames' = as /\ VMState(as) = "DONE"
  BY <1>1, <1>4 DEF NextLine, CallDepth, SourceLocation
<1>5. QED BY <1>3, <1>4, StopFramesValid

\* A command that stops has stopped where it was asked to.
LEMMA StopsAsAsked ==
  ASSUME IInv, CommandInv, Stops
  PROVE  StopsWhereAsked'
<1>1. /\ frames # << >> /\ CanFetch(frames) /\ ValidFrames(frames)
      /\ Met(Advance(frames)) /\ cmd.op # "none"
      /\ frames' = StopFrames(Advance(frames))
      /\ Returns(FALSE, TRUE)
  BY DEF Stops, Running, IInv
<1>2. /\ CallDepth(Advance(frames)) = CallDepth(frames)
      /\ CallDepth(frames)' = CallDepth(frames)
      /\ NextLine' = SourceLocation(Advance(frames))
      /\ frames' = frames \/ VMState(frames') = "DONE"
  BY <1>1, StopPosition
<1>3. CASE cmd.leaving
  BY <1>1, <1>3, ReturnsFields DEF StopsWhereAsked, Idle
<1>4. CASE ~cmd.leaving
  <2>1. result'.run = cmd /\ result'.hit /\ ~result'.err
    <3>1. result' = [run |-> cmd, err |-> FALSE, hit |-> TRUE]
      BY <1>1, <1>4, ReturnsFields
    <3> QED BY <3>1
  <2>2. /\ CallDepth(frames) \in Nat /\ cmd.depth \in Nat /\ cmd.op \in RunOps
        /\ CallDepth(frames)' > 0 => VMState(frames') # "DONE"
    <3>1. Len(frames) \in Nat \ {0}
      BY <1>1, EmptySeq DEF ValidFrames
    <3>2. CallDepth(frames)' > 0 => VMState(frames)' # "DONE"
      <4>1. Len(frames') \in Nat /\ CallDepth(frames)' = Len(frames') - 1
        <5>1. ValidFrames(frames')
          BY <1>1, StopFramesValid
        <5> QED BY <5>1, LenProperties DEF ValidFrames, CallDepth
      <4>2. CallDepth(frames)' > 0 => Len(frames') > 1
        BY <4>1
      <4> QED BY <4>2 DEF VMState
    <3>3. cmd.depth \in Nat /\ cmd.op \in RunOps
      BY CommandTyped
    <3> QED BY <3>1, <3>2, <3>3 DEF CallDepth
  <2>3. CASE cmd.op = "over"
    BY <1>1, <1>2, <2>1, <2>3 DEF Met, Elsewhere, StopsWhereAsked
  <2>4. CASE cmd.op = "into"
    <3>1. \/ SourceLocation(Advance(frames)) # cmd.line /\ CallDepth(frames) <= cmd.depth
          \/ CallDepth(frames) > cmd.depth
      BY <1>1, <1>2, <2>4 DEF Met, Elsewhere
    <3>2. CASE SourceLocation(Advance(frames)) # cmd.line /\ CallDepth(frames) <= cmd.depth
      BY <1>2, <2>1, <2>4, <3>2 DEF StopsWhereAsked
    <3>3. CASE CallDepth(frames) > cmd.depth
      <4>1. /\ CallDepth(frames) <= cmd.depth + 1
            /\ CallDepth(frames) = cmd.depth + 1 => Current(frames).ip = 0
        BY <2>4 DEF CommandInv, IntoInv
      <4>2. CallDepth(frames) = cmd.depth + 1 /\ CallDepth(frames) > 0
        BY <2>2, <3>3, <4>1
      <4>3. frames' = frames
        BY <1>2, <2>2, <4>2
      <4> QED BY <1>2, <2>1, <2>4, <4>1, <4>2, <4>3 DEF StopsWhereAsked
    <3> QED BY <3>1, <3>2, <3>3
  <2>5. CASE cmd.op = "out"
    <3>1. CallDepth(frames) < cmd.depth
      BY <1>1, <1>2, <2>5 DEF Met
    <3>2. CallDepth(frames) >= cmd.depth - 1
      BY <2>5 DEF CommandInv, OutInv
    <3>3. CallDepth(frames) = cmd.depth - 1
      BY <2>2, <3>1, <3>2
    <3> QED BY <1>2, <2>1, <2>5, <3>3 DEF StopsWhereAsked
  <2>6. CASE cmd.op \in {"run", "until"}
    BY <1>1, <1>2, <2>1, <2>6 DEF Met, StopsWhereAsked
  <2> QED BY <1>1, <2>2, <2>3, <2>4, <2>5, <2>6 DEF RunOps
<1>5. QED BY <1>3, <1>4

\* A command that is issued starts a run, of its kind, on a machine at rest.
LEMMA CommandIssued ==
  ASSUME \/ StepOver \/ StepInto \/ StepOut \/ RunWithBreakpoints
         \/ \E line \in UntilLines : RunUntilBreakPoint(line),
         ~Dies
  PROVE  /\ Idle /\ frames # << >>
         /\ cmd'.op \in RunOps \ {"none"} /\ cmd'.leaving \in BOOLEAN
         /\ cmd'.leaving => cmd'.op = "over"
         /\ UNCHANGED <<vmVars, hasErrors, breakpoints, stoppedOnBreakpoint,
                        debugFrames, result>>
<1>1. ASSUME NEW op \in RunOps \ {"none"}, NEW line, NEW depth, NEW bps,
             NEW leaving \in BOOLEAN,
             leaving => op = "over", Idle, frames # << >>,
             Starts(Run(op, line, depth, bps, leaving))
      PROVE  /\ Idle /\ frames # << >>
             /\ cmd'.op \in RunOps \ {"none"} /\ cmd'.leaving \in BOOLEAN
             /\ cmd'.leaving => cmd'.op = "over"
             /\ UNCHANGED <<vmVars, hasErrors, breakpoints, stoppedOnBreakpoint,
                            debugFrames, result>>
  BY <1>1 DEF Starts, Run
<1>2. CASE StepOver \/ StepInto
  BY <1>1, <1>2 DEF StepOver, StepInto, CanStep, StepFrom, RunOps
<1>3. CASE StepOut
  BY <1>1, <1>3 DEF StepOut, RunOps
<1>4. CASE RunWithBreakpoints
  BY <1>1, <1>4 DEF RunWithBreakpoints, CanStep, StepFrom, RunFor, RunOps
<1>5. CASE \E line \in UntilLines : RunUntilBreakPoint(line)
  BY <1>1, <1>5 DEF RunUntilBreakPoint, RunOps
<1>6. QED BY <1>2, <1>3, <1>4, <1>5

\* Every step keeps it.
LEMMA NextStopsWhereAsked ==
  IInv /\ CommandInv /\ StopsWhereAsked /\ [Next]_vars => StopsWhereAsked'
<1> SUFFICES ASSUME IInv, CommandInv, StopsWhereAsked, [Next]_vars PROVE StopsWhereAsked'
  OBVIOUS
<1>1. ASSUME UNCHANGED <<frames, crashed, cmd, result>> PROVE StopsWhereAsked'
  BY <1>1 DEF StopsWhereAsked, Idle, NextLine
<1>2. ASSUME Dies PROVE StopsWhereAsked'
  BY <1>2 DEF Dies, Panic, StopsWhereAsked, Idle
<1>3. ASSUME NEW ok \in Compiles, StartVM(ok) PROVE StopsWhereAsked'
  <2>1. result.run.op = "none"
    BY <1>3 DEF StartVM, IInv
  <2> QED BY <1>3, <2>1 DEF StartVM, StopsWhereAsked
<1>4. ASSUME RunsOut PROVE StopsWhereAsked'
  <2>1. /\ Returns(FALSE, FALSE) /\ frames' = frames /\ VMState(frames) = "DONE"
    <3>1. ValidFrames(frames) /\ ~CanFetch(frames)
      BY <1>4 DEF RunsOut, Running, IInv
    <3> QED BY <1>4, <3>1, DoneAtEnd DEF RunsOut, vmVars
  <2>2. CASE cmd.leaving
    BY <2>1, <2>2, ReturnsFields DEF StopsWhereAsked, Idle
  <2>3. CASE ~cmd.leaving
    <3>1. result' = [run |-> cmd, err |-> FALSE, hit |-> FALSE]
      BY <2>1, <2>3, ReturnsFields
    <3>2. ~result'.hit
      BY <3>1
    <3> QED BY <2>1, <3>2 DEF StopsWhereAsked
  <2> QED BY <2>2, <2>3
<1>5. ASSUME Executes PROVE StopsWhereAsked'
  <2>1. CASE Dies
    BY <1>2, <2>1
  <2>2. CASE ~Dies
    <3>1. Returns(TRUE, FALSE) \/ (UNCHANGED cmd /\ cmd.op # "none")
      BY <1>5, <2>2 DEF Executes, Running
    <3>2. CASE Returns(TRUE, FALSE) /\ ~cmd.leaving
      <4>1. result' = [run |-> cmd, err |-> TRUE, hit |-> FALSE]
        BY <3>2, ReturnsFields
      <4>2. result'.err
        BY <4>1
      <4> QED BY <4>2 DEF StopsWhereAsked
    <3>3. CASE Returns(TRUE, FALSE) /\ cmd.leaving
      BY <3>3, ReturnsFields DEF StopsWhereAsked, Idle
    <3>4. CASE UNCHANGED cmd /\ cmd.op # "none"
      BY <3>4 DEF StopsWhereAsked, Idle
    <3> QED BY <3>1, <3>2, <3>3, <3>4
  <2> QED BY <2>1, <2>2
<1>6. ASSUME StepOver \/ StepInto \/ StepOut \/ RunWithBreakpoints
             \/ \E line \in UntilLines : RunUntilBreakPoint(line)
      PROVE  StopsWhereAsked'
  <2>1. CASE ~Dies
    BY <1>6, <2>1, CommandIssued DEF StopsWhereAsked, Idle
  <2> QED BY <1>2, <2>1
<1>7. QED
  BY <1>1, <1>2, <1>3, <1>4, <1>5, <1>6, StopsAsAsked
     DEF Next, Iterate, SetBreakPoints, CollectFrames, LosesLocation, vars, vmVars

(***************************************************************************)
(* For every program, every command that meets its condition leaves the    *)
(* machine where it was asked to: a step over, into or out relative to     *)
(* the line and depth it was issued at, a run in front of one of the       *)
(* breakpoints it was given.  A command that does not ends the program.    *)
(***************************************************************************)
THEOREM CommandsStopWhereAsked == Spec => []StopsWhereAsked
<1>1. Init => StopsWhereAsked
  BY DEF Init, NoResult, NoRun, Run, StopsWhereAsked
<1>2. QED BY <1>1, NextStopsWhereAsked, CommandInvariantHolds, PTL DEF Spec

-----------------------------------------------------------------------------
(***************************************************************************)
(* The flag by which a run knows that it starts on a breakpoint.           *)
(***************************************************************************)

\* A command that returns without an error leaves no stale flag.
LEMMA ReturnedFlag ==
  ASSUME IInv, CommandInv, StopsWhereAsked', NEW hit \in BOOLEAN,
         Returns(FALSE, hit), stoppedOnBreakpoint' = FlagAfter(hit),
         hasErrors' = hasErrors, Running
  PROVE  FlagIsCurrent'
<1>1. CASE cmd.leaving
  BY <1>1, ReturnsFields DEF FlagIsCurrent, Idle
<1>2. CASE ~cmd.leaving
  <2>1. /\ result'.run = cmd /\ ~result'.err
        /\ result'.hit <=> hit
    <3>1. result' = [run |-> cmd, err |-> FALSE, hit |-> hit]
      BY <1>2, ReturnsFields
    <3> QED BY <3>1
  <2>2. CASE IsStep
    <3>1. ~stoppedOnBreakpoint'
      BY <2>2, CommandTyped DEF FlagAfter, IsStep
    <3> QED BY <3>1 DEF FlagIsCurrent
  <2>3. CASE cmd.op = "until"
    BY <2>1, <2>3 DEF FlagIsCurrent
  <2>4. CASE cmd.op = "run" /\ hit
    <3>1. Idle' => NextLine' \in result'.run.bps
      BY <2>1, <2>4 DEF StopsWhereAsked
    <3> QED BY <2>1, <2>4, <3>1 DEF FlagIsCurrent
  <2>5. CASE cmd.op = "run" /\ ~hit
    <3>1. stoppedOnBreakpoint' => hasErrors'
      BY <2>5, CommandTyped DEF FlagAfter, CommandInv, LeavingInv
    <3> QED BY <3>1 DEF FlagIsCurrent
  <2> QED BY <2>2, <2>3, <2>4, <2>5, CommandTyped DEF IsStep, RunOps, Running
<1>3. QED BY <1>1, <1>2

\* Every step keeps the flag current.
LEMMA NextFlagIsCurrent ==
  IInv /\ CommandInv /\ FlagIsCurrent /\ StopsWhereAsked' /\ [Next]_vars => FlagIsCurrent'
<1> SUFFICES ASSUME IInv, CommandInv, FlagIsCurrent, StopsWhereAsked', [Next]_vars
             PROVE  FlagIsCurrent'
  OBVIOUS
<1>1. ASSUME UNCHANGED <<frames, crashed, hasErrors, stoppedOnBreakpoint, cmd, result>>
      PROVE  FlagIsCurrent'
  BY <1>1 DEF FlagIsCurrent, Idle, NextLine
<1>2. ASSUME Dies PROVE FlagIsCurrent'
  BY <1>2 DEF Dies, Panic, FlagIsCurrent, Idle
<1>3. ASSUME NEW ok \in Compiles, StartVM(ok) PROVE FlagIsCurrent'
  <2>1. /\ ~hasErrors /\ Idle /\ result.run.op = "none"
        /\ stoppedOnBreakpoint' = stoppedOnBreakpoint /\ result' = result
    BY <1>3 DEF StartVM, IInv
  <2>2. ~stoppedOnBreakpoint
    BY <2>1 DEF FlagIsCurrent
  <2> QED BY <2>1, <2>2 DEF FlagIsCurrent
<1>4. ASSUME RunsOut PROVE FlagIsCurrent'
  BY <1>4, ReturnedFlag DEF RunsOut
<1>5. ASSUME Stops PROVE FlagIsCurrent'
  BY <1>5, ReturnedFlag DEF Stops
<1>6. ASSUME Executes PROVE FlagIsCurrent'
  <2>1. CASE Dies
    BY <1>2, <2>1
  <2>2. CASE ~Dies
    <3>1. PICK r \in RunOp(Advance(frames)) :
            /\ hasErrors' = (hasErrors \/ r.out = "error")
            /\ IF r.out = "error" THEN Returns(TRUE, FALSE) ELSE UNCHANGED <<cmd, result>>
      BY <1>6, <2>2 DEF Executes
    <3>2. CASE r.out = "error"
      BY <3>1, <3>2 DEF FlagIsCurrent
    <3>3. CASE r.out # "error"
      BY <1>6, <3>1, <3>3 DEF Executes, Running, FlagIsCurrent, Idle
    <3> QED BY <3>2, <3>3
  <2> QED BY <2>1, <2>2
<1>7. ASSUME StepOver \/ StepInto \/ StepOut \/ RunWithBreakpoints
             \/ \E line \in UntilLines : RunUntilBreakPoint(line)
      PROVE  FlagIsCurrent'
  <2>1. CASE ~Dies
    <3>1. cmd'.op # "none"
      BY <1>7, <2>1, CommandIssued
    <3> QED BY <3>1 DEF FlagIsCurrent, Idle
  <2> QED BY <1>2, <2>1
<1>8. QED
  BY <1>1, <1>2, <1>3, <1>4, <1>5, <1>6, <1>7
     DEF Next, Iterate, SetBreakPoints, CollectFrames, LosesLocation, vars, vmVars

(***************************************************************************)
(* For every program, as long as nothing has failed, stoppedOnBreakpoint   *)
(* is only set while the machine rests in front of a line of the           *)
(* breakpoints that the last run was given: the step with which the next   *)
(* run starts leaves a breakpoint and never jumps over anything else.      *)
(***************************************************************************)
THEOREM FlagStaysCurrent == Spec => []FlagIsCurrent
<1>1. Init => FlagIsCurrent
  BY DEF Init, FlagIsCurrent
<1>2. QED
  BY <1>1, NextFlagIsCurrent, CommandInvariantHolds, CommandsStopWhereAsked, PTL DEF Spec

-----------------------------------------------------------------------------
(***************************************************************************)
(* The driver implements DebugTarget.                                      *)
(***************************************************************************)

\* No byte precedes the first: before and at it the line is the same.
LEMMA FirstLine ==
  ASSUME NEW f \in Fns
  PROVE  Len(Code[f]) \in Nat \ {0} /\ Lines[f][0] = Lines[f][1]
<1>1. Code[f] \in Seq(Cell) /\ Len(Code[f]) > 0
  BY CodeAssumption
<1>2. Len(Code[f]) \in Nat \ {0} /\ DOMAIN Code[f] = 1 .. Len(Code[f])
  <2>1. Len(Code[f]) \in Nat /\ DOMAIN Code[f] = 1 .. Len(Code[f])
    BY <1>1, LenProperties
  <2> QED BY <1>1, <2>1
<1>3. 0 \in 0 .. Len(Code[f]) /\ 1 \in 0 .. Len(Code[f])
  BY <1>2
<1>4. {i \in DOMAIN Code[f] : i >= 0 /\ Code[f][i].line # 0} =
      {i \in DOMAIN Code[f] : i >= 1 /\ Code[f][i].line # 0}
  BY <1>2
<1> DEFINE mapped(ip) == {i \in DOMAIN Code[f] : i >= ip /\ Code[f][i].line # 0}
           first(S) == IF S = {} THEN NoLine
                       ELSE Code[f][CHOOSE i \in S : \A j \in S : i <= j].line
<1>5. FirstMapped(f, 0) = FirstMapped(f, 1)
  <2>1. FirstMapped(f, 0) = first(mapped(0)) /\ FirstMapped(f, 1) = first(mapped(1))
    BY DEF FirstMapped
  <2>2. mapped(0) = mapped(1)
    BY <1>4
  <2> HIDE DEF mapped, first
  <2> QED BY <2>1, <2>2
<1>6. QED BY <1>2, <1>3, <1>5 DEF Lines

\* What the state of a machine says of its frames.
LEMMA MachineStates ==
  ASSUME NEW fs, ValidFrames(fs)
  PROVE  /\ VMState(fs) \in {"OFF", "STOPPED", "DONE"}
         /\ VMState(fs) = "OFF" => /\ Len(fs) = 1
                                   /\ Current(fs).fn = Main /\ Current(fs).ip = 0
<1>1. fs \in Seq(Frame) /\ fs # << >> /\ Len(fs) \in Nat \ {0}
  BY EmptySeq DEF ValidFrames
<1>2. Len(fs) > 1 \/ Len(fs) = 1
  BY <1>1
<1>3. Len(fs) = 1 => Current(fs).fn = Main
  BY DEF ValidFrames, Current
<1>4. QED BY <1>2, <1>3 DEF VMState

\* A step that stops has left the start of the program.
LEMMA StepLeavesStart ==
  ASSUME IInv, CommandInv, Stops, IsStep
  PROVE  VMState(frames') # "OFF"
<1> DEFINE as == Advance(frames)
<1>1. /\ frames # << >> /\ CanFetch(frames) /\ ValidFrames(frames) /\ Met(as)
      /\ frames' = StopFrames(as)
  BY DEF Stops, Running, IInv
<1>2. /\ Len(as) = Len(frames) /\ Len(frames) \in Nat \ {0}
      /\ Current(as).fn = Current(frames).fn
      /\ Current(as).ip = Current(frames).ip + 1
  BY <1>1, AdvanceType DEF ValidFrames
<1>3. CASE VMState(as) = "DONE"
  BY <1>1, <1>3 DEF StopFrames
<1>4. CASE VMState(as) # "DONE"
  <2>1. frames' = frames
    BY <1>1, <1>4, StopFramesValid
  <2>2. ASSUME VMState(frames) = "OFF" PROVE FALSE
    <3>1. /\ Len(frames) = 1 /\ Current(frames).fn = Main /\ Current(frames).ip = 0
      BY <1>1, <2>2, MachineStates
    <3>2. cmd.depth = 0 /\ (cmd.op # "out" => cmd.line = SourceLocation(frames))
      BY <1>1, <2>2 DEF CommandInv, StartInv
    <3>3. CallDepth(as) = 0
      BY <1>2, <3>1 DEF CallDepth
    <3>4. SourceLocation(as) = SourceLocation(frames)
      <4>1. SourceLocation(frames) = Lines[Main][0]
        BY <2>2, <3>1 DEF SourceLocation
      <4>2. SourceLocation(as) = Lines[Main][1]
        BY <1>2, <1>4, <3>1 DEF SourceLocation
      <4> QED BY <4>1, <4>2, FirstLine, CodeAssumption
    <3>5. CASE cmd.op = "out"
      BY <1>1, <3>2, <3>3, <3>5 DEF Met
    <3>6. CASE cmd.op \in {"over", "into"}
      <4>1. cmd.line = SourceLocation(as)
        BY <3>2, <3>4, <3>6
      <4>2. ~Elsewhere(SourceLocation(as), CallDepth(as))
        BY <4>1 DEF Elsewhere
      <4>3. ~(CallDepth(as) > cmd.depth)
        BY <3>2, <3>3
      <4>4. CASE cmd.op = "over"
        BY <1>1, <4>2, <4>4 DEF Met
      <4>5. CASE cmd.op = "into"
        BY <1>1, <4>2, <4>3, <4>5 DEF Met
      <4> QED BY <3>6, <4>4, <4>5
    <3> QED BY <3>5, <3>6 DEF IsStep
  <2> QED BY <2>1, <2>2
<1>5. QED BY <1>3, <1>4

\* The variables of the target.
Machine == IF frames = << >> THEN "none" ELSE VMState(frames)
Busy == [g \in {"driver"} |-> Command]
Alive == IF crashed THEN "program" ELSE "none"

\* What a command does when it goes on or returns, in the target's terms.
LEMMA ReturnsTarget ==
  ASSUME IInv, CommandInv, Running, NEW err, NEW hit, Returns(err, hit),
         crashed' = crashed, hasErrors' \in {hasErrors, TRUE},
         frames # << >>, frames' # << >>,
         Machine' \in Target!Moves,
         IsStep /\ ~cmd.leaving => Machine' # "OFF"
  PROVE  Target!Continues("driver") \/ Target!Ends("driver")
<1>1. Target!Moved /\ Alive = "none"
  BY DEF Target!Moved, Machine, Running, Alive
<1>2. CASE cmd.leaving
  <2>1. Command = "run" /\ Command' = "run"
    BY <1>2, ReturnsFields DEF Command, Running
  <2>2. Target!Continues("driver")
    BY <1>1, <2>1 DEF Target!Continues, Running
  <2> QED BY <2>2
<1>3. CASE ~cmd.leaving
  <2>1. Command' = "idle" /\ Command \in {"run", "step"}
    BY <1>3, ReturnsFields DEF Command, Running
  <2>2. Command = "step" => IsStep
    BY <1>3, CommandTyped DEF Command, IsStep, Running, RunOps
  <2>3. Busy' = [Busy EXCEPT !["driver"] = "idle"] /\ Busy["driver"] = Command
    BY <2>1 DEF Busy
  <2>4. Target!Ends("driver")
    BY <1>1, <1>3, <2>1, <2>2, <2>3 DEF Target!Ends, Running, Machine, Busy
  <2> QED BY <2>4
<1>4. QED BY <1>2, <1>3

\* A run that starts is a command that begins.
LEMMA IssuedTarget ==
  ASSUME IInv, Idle, frames # << >>, cmd'.op \in RunOps \ {"none"},
         UNCHANGED <<frames, crashed, hasErrors>>
  PROVE  \E command \in Target!Commands : Target!Begin("driver", command)
<1>1. Command = "idle" /\ Command' \in Target!Commands
  BY DEF Idle, Command, Target!Commands
<1>2. Busy["driver"] = "idle" /\ Busy' = [Busy EXCEPT !["driver"] = Command']
  BY <1>1 DEF Busy
<1>3. Machine # "none" /\ UNCHANGED <<Machine, hasErrors, Alive>>
  <2>1. VMState(frames) # "none"
    BY MachineStates DEF IInv
  <2> QED BY <2>1 DEF Machine, Alive
<1>4. Target!Begin("driver", Command')
  BY <1>2, <1>3 DEF Target!Begin, Machine, Busy, Alive, Idle
<1>5. QED BY <1>1, <1>4

\* A panic is a panic.
LEMMA DiesTarget ==
  ASSUME ~crashed, Dies
  PROVE  Target!Dies
<1>1. UNCHANGED <<Machine, hasErrors, Busy>>
  BY DEF Dies, Panic, driverVars, Machine, Busy, Command
<1>2. Alive = "none" /\ Alive' = "program"
  BY DEF Dies, Panic, Alive
<1>3. QED BY <1>1, <1>2 DEF Target!Dies, Machine, Busy, Alive

\* An iteration of the loop goes on, returns or panics.
LEMMA IterateTarget ==
  ASSUME IInv, CommandInv, Iterate
  PROVE  Target!Continues("driver") \/ Target!Ends("driver") \/ Target!Dies
<1>1. ~crashed /\ Running /\ frames # << >> /\ ValidFrames(frames)
  BY DEF Iterate, RunsOut, LosesLocation, Stops, Executes, Running, IInv
<1>2. Machine = VMState(frames) /\ Machine \in {"OFF", "STOPPED", "DONE"}
  BY <1>1, MachineStates DEF Machine
<1>3. Machine \in Target!Moves
  BY <1>2 DEF Target!Moves, Machine
<1>4. CASE RunsOut
  <2>1. VMState(frames) = "DONE"
    BY <1>1, <1>4, DoneAtEnd DEF RunsOut
  <2>2. Machine' = Machine /\ frames' = frames /\ Machine # "OFF"
        /\ Returns(FALSE, FALSE) /\ crashed' = crashed /\ hasErrors' = hasErrors
    BY <1>2, <1>4, <2>1 DEF RunsOut, vmVars, Machine
  <2> QED BY <1>1, <1>3, <2>2, ReturnsTarget
<1>5. CASE LosesLocation
  BY <1>1, <1>5, DiesTarget DEF LosesLocation
<1>6. CASE Stops
  <2>1. /\ CanFetch(frames) /\ frames' = StopFrames(Advance(frames))
        /\ Returns(FALSE, TRUE) /\ crashed' = crashed /\ hasErrors' = hasErrors
    BY <1>6 DEF Stops
  <2>2. frames' # << >> /\ (frames' = frames \/ VMState(frames') = "DONE")
    BY <1>1, <2>1, StopFramesValid DEF ValidFrames
  <2>3. Machine' \in Target!Moves
    <3>1. CASE frames' = frames
      BY <1>3, <3>1 DEF Machine
    <3>2. CASE VMState(frames') = "DONE"
      BY <1>2, <2>2, <3>2 DEF Target!Moves, Machine
    <3> QED BY <2>2, <3>1, <3>2
  <2>4. IsStep => Machine' # "OFF"
    BY <1>6, <2>2, StepLeavesStart DEF Machine
  <2> QED BY <1>1, <2>1, <2>2, <2>3, <2>4, ReturnsTarget
<1>7. CASE Executes
  <2>1. CASE Dies
    BY <1>1, <2>1, DiesTarget
  <2>2. CASE ~Dies
    <3>1. PICK r \in RunOp(Advance(frames)) :
            /\ r.out # "panic"
            /\ frames' = r.frames
            /\ hasErrors' = (hasErrors \/ r.out = "error")
            /\ IF r.out = "error" THEN Returns(TRUE, FALSE) ELSE UNCHANGED <<cmd, result>>
            /\ crashed' = crashed
      BY <1>7, <2>2 DEF Executes
    <3>2. CanFetch(frames)
      BY <1>7 DEF Executes
    <3>3. VMState(frames') \in {"STOPPED", "DONE"} /\ VMState(frames) # "DONE"
      BY <1>1, <3>1, <3>2, RunOpDepth, DoneAtEnd
    <3>4. frames' # << >>
      BY <1>1, <3>1, <3>2, RunOpValid DEF ValidFrames
    <3>5. Machine' \in Target!Moves /\ Machine' # "OFF"
      BY <1>2, <3>3, <3>4 DEF Target!Moves, Machine
    <3>6. hasErrors' \in {hasErrors, TRUE}
      BY <3>1, CommandTyped
    <3>7. CASE r.out = "error"
      BY <1>1, <3>1, <3>4, <3>5, <3>6, <3>7, ReturnsTarget
    <3>8. CASE r.out # "error"
      <4>1. Command # "idle" /\ Busy["driver"] = Command /\ Busy' = Busy
        BY <1>1, <3>1, <3>8 DEF Command, Running, Busy
      <4>2. Target!Moved
        BY <3>1, <3>5, <3>6 DEF Target!Moved, Machine
      <4>3. Target!Continues("driver")
        BY <1>1, <4>1, <4>2 DEF Target!Continues, Busy
      <4> QED BY <4>3
    <3> QED BY <3>7, <3>8
  <2> QED BY <2>1, <2>2
<1>8. QED BY <1>4, <1>5, <1>6, <1>7 DEF Iterate

\* Every step of the driver is a step of the target, or leaves it as it is.
LEMMA NextTarget ==
  IInv /\ CommandInv /\ [Next]_vars => [Target!TargetNext]_(Target!targetVars)
<1> SUFFICES ASSUME IInv, CommandInv, [Next]_vars
             PROVE  Target!TargetNext \/ UNCHANGED Target!targetVars
  OBVIOUS
<1>1. ASSUME UNCHANGED <<frames, crashed, hasErrors, cmd>> PROVE UNCHANGED Target!targetVars
  <2>1. UNCHANGED <<Machine, hasErrors, Busy, Alive>>
    BY <1>1 DEF Machine, Busy, Command, Alive
  <2> QED BY <2>1 DEF Target!targetVars, Machine, Busy, Alive
<1>2. ASSUME Dies, ~crashed PROVE Target!TargetNext
  BY <1>2, DiesTarget DEF Target!TargetNext
<1>3. ASSUME NEW ok \in Compiles, StartVM(ok) PROVE Target!TargetNext
  <2>1. ok \in BOOLEAN
    BY DriverAssumption
  <2>2. Machine = "none" /\ Alive = "none" /\ Alive' = Alive /\ Busy' = Busy /\ ~hasErrors
    BY <1>3 DEF StartVM, Load, vmVars, Idle, Machine, Alive, Busy, Command
  <2>3. CASE ok
    <3>1. frames' = <<NewFrame(Main)>> /\ hasErrors' = hasErrors
      BY <1>3, <2>3 DEF StartVM, Load
    <3>2. Machine' = "OFF"
      BY <3>1 DEF Machine, VMState, NewFrame, Current
    <3>3. Target!Start(ok)
      BY <2>2, <2>3, <3>1, <3>2 DEF Target!Start, Machine, Alive, Busy
    <3> QED BY <2>1, <3>3 DEF Target!TargetNext
  <2>4. CASE ~ok
    <3>1. hasErrors' = TRUE /\ Machine' = Machine
      BY <1>3, <2>4 DEF StartVM, vmVars, Machine
    <3>2. Target!Start(ok)
      BY <2>2, <2>4, <3>1 DEF Target!Start, Machine, Alive, Busy
    <3> QED BY <2>1, <3>2 DEF Target!TargetNext
  <2> QED BY <2>3, <2>4
<1>4. ASSUME StepOver \/ StepInto \/ StepOut \/ RunWithBreakpoints
             \/ \E line \in UntilLines : RunUntilBreakPoint(line)
      PROVE  Target!TargetNext
  <2>1. CASE ~Dies
    <3>1. \E command \in Target!Commands : Target!Begin("driver", command)
      BY <1>4, <2>1, CommandIssued, IssuedTarget DEF vmVars
    <3> QED BY <3>1 DEF Target!TargetNext
  <2>2. CASE Dies
    <3>1. ~crashed
      BY <1>4 DEF StepOver, StepInto, StepOut, RunWithBreakpoints, RunUntilBreakPoint, Idle
    <3> QED BY <1>2, <2>2, <3>1
  <2> QED BY <2>1, <2>2
<1>5. ASSUME Iterate PROVE Target!TargetNext
  BY <1>5, IterateTarget DEF Target!TargetNext
<1>6. ASSUME CollectFrames PROVE Target!TargetNext \/ UNCHANGED Target!targetVars
  BY <1>1, <1>2, <1>6 DEF CollectFrames, Idle, vmVars
<1>7. QED
  BY <1>1, <1>3, <1>4, <1>5, <1>6 DEF Next, SetBreakPoints, vars, vmVars

LEMMA InitTarget == Init => Target!TargetInit
<1> SUFFICES ASSUME Init PROVE Target!TargetInit
  OBVIOUS
<1>1. Machine = "none" /\ Alive = "none" /\ hasErrors = FALSE
  BY DEF Init, VMInit, Machine, Alive
<1>2. Command = "idle"
  BY DEF Init, NoRun, Run, Command
<1>3. Busy = [g \in {"driver"} |-> "idle"]
  BY <1>2 DEF Busy
<1>4. QED BY <1>1, <1>3 DEF Target!TargetInit, Machine, Alive, Busy

(***************************************************************************)
(* For every program, the driver keeps what the request handlers rely on:  *)
(* the state of the machine only changes while a command runs, a step      *)
(* never leaves it at the start, it never goes back to the start nor on    *)
(* from the end, and a failure is never forgotten.                         *)
(***************************************************************************)
THEOREM DriverImplementsTarget == Spec => ImplementsTarget
<1>1. QED
  BY InitTarget, NextTarget, CommandInvariantHolds, PTL
  DEF Spec, ImplementsTarget, Target!TargetSpec
=============================================================================

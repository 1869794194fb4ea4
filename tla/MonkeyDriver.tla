---------------------------- MODULE MonkeyDriver ----------------------------
(***************************************************************************)
(* src/server/driver/driver.go: the debug driver.  It turns the debugger's *)
(* commands into runs of the virtual machine under a condition that is     *)
(* evaluated after each opcode is fetched and before it is executed.  One  *)
(* action below is one iteration of such a run.                            *)
(*                                                                         *)
(* Commands are issued one at a time here; that the request handlers do    *)
(* not ensure it is the subject of the session modules.                    *)
(***************************************************************************)
EXTENDS MonkeyVM

CONSTANTS
  BreakLines,   \* the lines breakpoints are set on
  UntilLines,   \* the lines given to RunUntilBreakPoint
  Compiles      \* the outcomes StartVM may have: subset of BOOLEAN

ASSUME DriverAssumption ==
  /\ BreakLines \subseteq Nat \ {0}
  /\ UntilLines \subseteq Nat \ {0}
  /\ Compiles \subseteq BOOLEAN

VARIABLES
  hasErrors,            \* len(d.Errors) > 0
  breakpoints,          \* d.Breakpoints, as a set of lines
  stoppedOnBreakpoint,
  debugFrames,          \* d.Frames: the function and line of each frame
  cmd,                  \* the run in progress
  result                \* what the last command was asked and returned

driverVars == <<hasErrors, breakpoints, stoppedOnBreakpoint, debugFrames, cmd, result>>
vars == <<frames, corrupt, crashed, hasErrors, breakpoints, stoppedOnBreakpoint,
          debugFrames, cmd, result>>

(***************************************************************************)
(* A run: its condition (op), the line and depth the condition compares    *)
(* with, the breakpoints it was given, and whether it is the step that     *)
(* RunWithBreakpoints takes first to leave a breakpoint.                   *)
(***************************************************************************)
RunOps == {"none", "over", "into", "out", "run", "until"}
Run(op, line, depth, bps, leaving) ==
  [op |-> op, line |-> line, depth |-> depth, bps |-> bps, leaving |-> leaving]
NoRun == Run("none", 0, 0, {}, FALSE)
NoResult == [run |-> NoRun, err |-> FALSE, hit |-> FALSE]

Init ==
  /\ VMInit
  /\ hasErrors = FALSE
  /\ breakpoints = {}
  /\ stoppedOnBreakpoint = FALSE
  /\ debugFrames = << >>
  /\ cmd = NoRun
  /\ result = NoResult

State ==
  IF frames = << >> THEN "COMPILER_ERROR"
  ELSE IF hasErrors /\ VMState(frames) = "STOPPED" THEN "RUNTIME_ERROR"
  ELSE VMState(frames)

Idle == ~crashed /\ cmd.op = "none"
Running == ~crashed /\ cmd.op # "none"

-----------------------------------------------------------------------------
\* Replaces d.Breakpoints; a run in progress keeps the slice it was given.
SetBreakPoints(lines) ==
  /\ ~crashed
  /\ breakpoints' = lines
  /\ UNCHANGED <<vmVars, hasErrors, stoppedOnBreakpoint, debugFrames, cmd, result>>

\* A debug session launches its program once.
StartVM(ok) ==
  /\ Idle /\ frames = << >> /\ ~hasErrors
  /\ IF ok
     THEN Load /\ UNCHANGED hasErrors
     ELSE hasErrors' = TRUE /\ UNCHANGED vmVars
  /\ UNCHANGED <<breakpoints, stoppedOnBreakpoint, debugFrames, cmd, result>>

\* The line a step starts from; reading it panics without a machine or a line.
CanStepInCaller ==                                                    \* fault
  /\ frames # << >> /\ SourceLocation(frames) # NoLine
  /\ Len(frames) > 1 /\ SourceLocationInFrame(frames, Len(frames) - 1) # NoLine
CanStep == frames # << >> /\ SourceLocation(frames) # NoLine

StepFrom(op, bps, leaving) ==
  Run(op, SourceLocation(frames), CallDepth(frames), bps, leaving)

Starts(run) == cmd' = run /\ UNCHANGED <<vmVars, hasErrors, breakpoints,
                                         stoppedOnBreakpoint, debugFrames, result>>
Dies == Panic /\ UNCHANGED driverVars

StepOver ==
  /\ Idle
  /\ \/ CanStep /\ Starts(StepFrom("over", {}, FALSE))
     \/ ~CanStep /\ Dies

StepInto ==
  /\ Idle
  /\ \/ CanStep /\ Starts(StepFrom("into", {}, FALSE))
     \/ ~CanStep /\ Dies

\* The depth below which a step out stops.
OutDepthBelow == CallDepth(frames) - 1                                \* fault
OutDepth == CallDepth(frames)

StepOut ==
  /\ Idle
  /\ \/ frames # << >> /\ Starts(Run("out", 0, OutDepth, {}, FALSE))
     \/ frames = << >> /\ Dies

RunFor(bps) == Run("run", 0, 0, bps, FALSE)

\* Always called with d.Breakpoints; leaves the line of a breakpoint first.
RunWithBreakpoints ==
  /\ Idle
  /\ IF stoppedOnBreakpoint
     THEN \/ CanStep /\ Starts(StepFrom("over", breakpoints, TRUE))
          \/ ~CanStep /\ Dies
     ELSE \/ frames # << >> /\ Starts(RunFor(breakpoints))
          \/ frames = << >> /\ Dies

RunUntilBreakPoint(line) ==
  /\ Idle /\ frames # << >>
  /\ Starts(Run("until", line, 0, {}, FALSE))

-----------------------------------------------------------------------------
\* On another line and no deeper than where the step started.
ElsewhereAtAnyDepth(line, depth) == line # cmd.line                   \* fault
ElsewhereOnAnyLine(line, depth) == depth <= cmd.depth                 \* fault
Elsewhere(line, depth) == line # cmd.line /\ depth <= cmd.depth

\* runCondition of each command, on the frames with the opcode fetched.
Met(fs) ==
  LET line == SourceLocation(fs)
      depth == CallDepth(fs)
  IN  CASE cmd.op = "over"  -> Elsewhere(line, depth)
        [] cmd.op = "into"  -> Elsewhere(line, depth) \/ depth > cmd.depth
        [] cmd.op = "out"   -> depth < cmd.depth
        [] cmd.op = "run"   -> line \in cmd.bps
        [] cmd.op = "until" -> line = cmd.line

IsStep == cmd.op \in {"over", "into", "out"}

\* Ip-- so that the opcode is fetched again; the steps leave a finished machine.
StopFramesSkipping(fs) == fs                                          \* fault
StopFramesAlways(fs) == Rewind(fs)                                    \* fault
StopFrames(fs) ==
  IF IsStep /\ VMState(fs) = "DONE" THEN fs ELSE Rewind(fs)

\* The command returns; RunWithBreakpoints ignores what its StepOver returned.
Returns(err, hit) ==
  IF cmd.leaving
  THEN cmd' = RunFor(cmd.bps) /\ UNCHANGED result
  ELSE cmd' = NoRun /\ result' = [run |-> cmd, err |-> err, hit |-> hit]

\* stoppedOnBreakpoint once the run is over; a step clears it.
FlagKept(hit) == (cmd.op = "run" /\ hit) \/ stoppedOnBreakpoint        \* fault
FlagNeverSet(hit) == stoppedOnBreakpoint /\ ~IsStep                    \* fault
FlagAfter(hit) == (cmd.op = "run" /\ hit) \/ (stoppedOnBreakpoint /\ ~IsStep)

\* The loop of RunWithCondition ends without the condition met.
RunsOut ==
  /\ Running /\ ~CanFetch(frames)
  /\ Returns(FALSE, FALSE)
  /\ stoppedOnBreakpoint' = FlagAfter(FALSE)
  /\ UNCHANGED <<vmVars, hasErrors, breakpoints, debugFrames>>

\* The condition asks for the line of an instruction that has none.
LosesLocation ==
  /\ Running /\ CanFetch(frames)
  /\ cmd.op # "out" /\ SourceLocation(Advance(frames)) = NoLine
  /\ Dies

Stops ==
  /\ Running /\ CanFetch(frames)
  /\ cmd.op = "out" \/ SourceLocation(Advance(frames)) # NoLine
  /\ Met(Advance(frames))
  /\ frames' = StopFrames(Advance(frames))
  /\ Returns(FALSE, TRUE)
  /\ stoppedOnBreakpoint' = FlagAfter(TRUE)
  /\ UNCHANGED <<corrupt, crashed, hasErrors, breakpoints, debugFrames>>

\* The condition is not met: the instruction is executed.
Executes ==
  /\ Running /\ CanFetch(frames)
  /\ cmd.op = "out" \/ SourceLocation(Advance(frames)) # NoLine
  /\ ~Met(Advance(frames))
  /\ \E r \in RunOp(Advance(frames)) :
       \/ /\ r.out # "panic"
          /\ frames' = r.frames
          /\ corrupt' = (corrupt \/ r.out = "error")
          /\ hasErrors' = (hasErrors \/ r.out = "error")
          /\ stoppedOnBreakpoint' = (stoppedOnBreakpoint /\ cmd.op # "run")
          /\ IF r.out = "error" THEN Returns(TRUE, FALSE) ELSE UNCHANGED <<cmd, result>>
          /\ UNCHANGED <<crashed, breakpoints, debugFrames>>
       \/ (r.out = "panic" \/ corrupt) /\ Dies

FrameLineReversed(i) == SourceLocationInFrame(frames, Len(frames) + 1 - i) \* fault
FrameLine(i) == SourceLocationInFrame(frames, i)

\* StackTrace asks for every frame; one without a line panics.
CollectFrames ==
  /\ Idle /\ frames # << >>
  /\ IF \E i \in DOMAIN frames : FrameLine(i) = NoLine
     THEN Dies
     ELSE /\ debugFrames' = [i \in DOMAIN frames |->
                [fn |-> frames[i].fn, line |-> FrameLine(i)]]
          /\ UNCHANGED <<vmVars, hasErrors, breakpoints, stoppedOnBreakpoint, cmd, result>>

-----------------------------------------------------------------------------
Iterate == RunsOut \/ LosesLocation \/ Stops \/ Executes

Next ==
  \/ \E lines \in SUBSET BreakLines : SetBreakPoints(lines)
  \/ \E ok \in Compiles : StartVM(ok)
  \/ StepOver \/ StepInto \/ StepOut \/ RunWithBreakpoints
  \/ \E line \in UntilLines : RunUntilBreakPoint(line)
  \/ CollectFrames
  \/ Iterate

Spec == Init /\ [][Next]_vars

(***************************************************************************)
(* Fairness: the goroutine that runs a command is scheduled, the launch    *)
(* succeeds or fails, and the user who is not done keeps stepping or       *)
(* continuing, with whichever command.                                     *)
(***************************************************************************)
UserSteps == StepOver \/ StepInto \/ StepOut \/ RunWithBreakpoints

Progress ==
  \/ Iterate
  \/ frames # << >> /\ UserSteps
  \/ \E ok \in Compiles : StartVM(ok)

FairSpec == Spec /\ WF_vars(Progress)

-----------------------------------------------------------------------------
RunType == [op : RunOps, line : Nat, depth : Nat, bps : SUBSET BreakLines, leaving : BOOLEAN]

\* The types of the driver's fields and of the run in progress.
TypeOK ==
  /\ frames \in Seq(Frame)
  /\ corrupt \in BOOLEAN /\ crashed \in BOOLEAN
  /\ hasErrors \in BOOLEAN /\ stoppedOnBreakpoint \in BOOLEAN
  /\ breakpoints \in SUBSET BreakLines
  /\ debugFrames \in Seq([fn : Fns, line : Nat])
  /\ cmd \in RunType
  /\ result \in [run : RunType, err : BOOLEAN, hit : BOOLEAN]

(***************************************************************************)
(* The driver moves Ip itself (Ip-- when a condition is met).  Whatever    *)
(* the commands, every frame is left between two instructions, so that the *)
(* machine never executes an operand as an opcode.                         *)
(***************************************************************************)
OnBoundary == \A i \in DOMAIN frames : Boundary(frames[i].fn, frames[i].ip)

(***************************************************************************)
(* What makes OnBoundary inductive: Main is the outermost frame and no     *)
(* other, a caller has consumed its call, and a callee is never past its   *)
(* return; a run is only in progress on a machine.                         *)
(***************************************************************************)
ValidFrames(fs) ==
  /\ fs \in Seq(Frame) /\ fs # << >>
  /\ fs[1].fn = Main
  /\ \A i \in DOMAIN fs : Boundary(fs[i].fn, fs[i].ip)
  /\ \A i \in 1 .. Len(fs) - 1 : fs[i].ip > 0
  /\ \A i \in 2 .. Len(fs) : fs[i].fn # Main /\ fs[i].ip < Len(Code[fs[i].fn])

IInv ==
  /\ TypeOK
  /\ frames = << >> \/ ValidFrames(frames)
  /\ cmd.op # "none" \/ result.run.op # "none" => frames # << >>

(***************************************************************************)
(* Debugging is transparent: under any sequence of commands the machine    *)
(* executes the instructions it would execute without a debugger, none     *)
(* skipped and none repeated.                                              *)
(***************************************************************************)
Transparent == VMSpec

(***************************************************************************)
(* Where a command that met its condition leaves the machine, read from    *)
(* the machine at rest: a step over is on another line and not in a        *)
(* callee, a step into is there or at the start of the function it         *)
(* entered, a step out is in the caller, a run is in front of a line of    *)
(* the breakpoints it was GIVEN, and otherwise the program has ended.      *)
(***************************************************************************)
NextLine == IF VMState(frames) = "DONE" THEN 0 ELSE SourceLocation(Advance(frames))

StopsWhereAsked ==
  LET run == result.run
      depth == CallDepth(frames)
  IN  Idle /\ run.op # "none" /\ ~result.err =>
        CASE ~result.hit -> VMState(frames) = "DONE"
          [] result.hit /\ run.op = "over" -> NextLine # run.line /\ depth <= run.depth
          [] result.hit /\ run.op = "into" ->
               \/ NextLine # run.line /\ depth <= run.depth
               \/ depth = run.depth + 1 /\ Current(frames).ip = 0
          [] result.hit /\ run.op = "out" -> depth = run.depth - 1
          [] result.hit /\ run.op = "run" -> NextLine \in run.bps
          [] result.hit /\ run.op = "until" -> NextLine = run.line

(***************************************************************************)
(* stoppedOnBreakpoint tells the next RunWithBreakpoints to step off the   *)
(* line first.  While there is no error it is only set when the machine    *)
(* still rests in front of the breakpoint that the last run stopped at; a  *)
(* stale flag would make the next run jump over a line.                    *)
(* RunUntilBreakPoint, which no request handler calls, leaves it as it is. *)
(***************************************************************************)
FlagIsCurrent ==
  Idle /\ stoppedOnBreakpoint /\ ~hasErrors /\ result.run.op # "until" =>
    result.run.op = "run" /\ NextLine \in result.run.bps

\* No instruction that frame i has still to fetch has a line at or after it.
NoLineAhead(i) == FirstMapped(frames[i].fn, frames[i].ip + 1) = NoLine

\* Main is stopped in front of its last OpPop, which has no line.
Ending == VMState(frames) = "STOPPED" /\ VMState(Advance(frames)) = "DONE"

(***************************************************************************)
(* The driver only panics on a command before the program is compiled, on  *)
(* call depth, when it goes on with a program that has failed, and when a  *)
(* frame is past the last line of its function: a program that ends in an  *)
(* infix expression, a callee whose OpReturn has no line, a trace below    *)
(* the last call of Main or after the end.  No command stops Main in front *)
(* of its last OpPop, where the next would panic.                          *)
(***************************************************************************)
KnownPanics ==
  crashed =>
    \/ frames = << >> \/ Len(frames) = MaxFrames \/ corrupt
    \/ ~Ending /\ \E i \in DOMAIN frames : NoLineAhead(i)

(***************************************************************************)
(* A stack trace has one entry for each frame in use and its deepest entry *)
(* is on the line where the machine stopped, although the two lines are    *)
(* computed by different functions of the machine.                         *)
(***************************************************************************)
TraceMatchesStop ==
  [][debugFrames' # debugFrames =>
       /\ Len(debugFrames') = CallDepth(frames) + 1
       /\ debugFrames'[Len(debugFrames')].line = SourceLocation(frames)]_vars

(***************************************************************************)
(* The line of a machine at rest is that of the byte consumed last.  No    *)
(* instruction of one byte, where it is the one consumed last, hides that  *)
(* the next one is on another line.                                        *)
(***************************************************************************)
StallFree ==
  \A f \in Fns : \A n \in DOMAIN Code[f] :
    Boundary(f, n) /\ Code[f][n].line # 0 =>
      FirstMapped(f, n + 1) \in {Code[f][n].line, NoLine}

Ended ==
  \/ crashed
  \/ frames = << >> /\ hasErrors
  \/ frames # << >> /\ VMState(frames) = "DONE"

\* In such a program, a user who keeps stepping or continuing, in any mix, gets
\* to the end.  StepsLeaveTheirLine below is about the other programs.
ReachesEnd == StallFree => <>Ended

(***************************************************************************)
(* The driver keeps what DebugTarget promises to the request handlers: the *)
(* state that they announce to the client changes only while a command     *)
(* runs, a step never leaves the machine at its start, and the end of the  *)
(* program and its failure are final.                                      *)
(***************************************************************************)
Command ==
  IF cmd.op = "none" THEN "idle"
  ELSE IF cmd.leaving \/ cmd.op \in {"run", "until"} THEN "run" ELSE "step"

Target == INSTANCE DebugTarget WITH
  Runners <- {"driver"},
  machine <- IF frames = << >> THEN "none" ELSE VMState(frames),
  failed  <- hasErrors,
  busy    <- [g \in {"driver"} |-> Command],
  panic   <- IF crashed THEN "program" ELSE "none"

ImplementsTarget == Target!TargetSpec

-----------------------------------------------------------------------------
(***************************************************************************)
(* Expectations of the driver's tests that the code does not meet.         *)
(***************************************************************************)

\* A step over that stops has left the line it started from.
StepsLeaveTheirLine ==
  Idle /\ result.hit /\ result.run.op = "over" => SourceLocation(frames) # result.run.line

\* A run with breakpoints executes no line with a breakpoint but the one it
\* was stopped on.
NoBreakpointSkipped ==
  [][cmd.leaving /\ cmd'.leaving /\ frames' # frames =>
       \/ SourceLocation(Advance(frames)) \notin cmd.bps
       \/ SourceLocation(Advance(frames)) = cmd.line /\ CallDepth(frames) <= cmd.depth]_vars
=============================================================================

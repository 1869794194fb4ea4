# monkeylang-debug in TLA+

This directory is a verification development of monkeylang-debug, the debugger of
the Monkey language for editors that speak the Debug Adapter Protocol (DAP).
It has models of the debug server, of the debug driver inside it and of the mock
runtime the extension was made from, TLC configurations that check them on small
instances, and TLAPS proofs of what matters most for every instance.

Paths are relative to `src/`, lines are those of the commit the models were
translated from, and `PROJECT.json` names the lines of every definition.

## 1. The system

| part | source | state | operations |
|---|---|---|---|
| Server entry | `src/server/main.go` | none | opens a log and calls `StartSession` |
| DAP session | `src/server/session.go` | `sendQueue`, `sendWg`, `stopDebug`, the reader's position | `handleRequest`, `dispatchRequest`, `send`, `sendFromQueue`, the end of `StartSession` |
| Request handlers | `src/server/handler.go` | `session.source`, `bpSetMux`, `terminateOnNextStep` | one handler per request, the goroutines a launch leaves behind, `ProduceStopEvent` |
| Debug driver | `src/server/driver/driver.go` | `Breakpoints`, `Errors`, `Frames`, `stoppedOnBreakpoint`, the machine | `StartVM`, `StepOver`, `StepInto`, `StepOut`, `RunWithBreakpoints`, `RunUntilBreakPoint`, `CollectFrames`, `State` |
| Monkey machine | package `vm` of `moritz-tiesler/monkey` (external) | frames, `Ip`, call depth, operand stack | `RunWithCondition`, `RunOp`, `SourceLocation`, `State` |
| Mock runtime | `src/mockRuntime.ts` | file, lines, current line and instruction, breakpoints of four kinds, variables | `start`, `continue`, `step`, `setBreakPoint`, ... |
| Mock debug session | `src/mockDebug.ts` | variable handles, configuration notice, cancellation tokens, progress | one method per request |
| Extension | `src/extension.ts`, `src/activateMockDebug.ts`, `src/debugAdapter.ts`, `src/web-extension.ts` | one socket server in two of the run modes | registration with the editor, reading files |

How they interact. `StartSession` reads a message, adds 1 to `sendWg` and starts
a goroutine that runs the handler; handlers send responses and events over the
unbuffered `sendQueue` to one goroutine that writes them. A handler that commands
the program calls the driver, which calls the machine with a run condition; the
machine calls the condition before each instruction, and the driver, when its
condition is met, puts `Ip` back by one. When the command returns the handler reads
`State()` and produces the stop event. The mock runtime is single-threaded: a
request runs to its first `await`, and the answer to a file read is a callback of
its own; its events are sent with `setTimeout`.

What is hard in it:

* the driver manipulates the machine's `Ip` from outside, in whichever frame is
  current, and decides by a line that is computed from a position *between* two
  instructions;
* `stoppedOnBreakpoint` is remembered from one command to the next;
* each request is a goroutine of its own, some leave goroutines behind that nothing
  counts, only one command takes the lock, `stopDebug` is unbuffered;
* errors: a program that does not compile leaves no machine, one that fails at run
  time leaves a machine that can still be stepped, and both end in Go panics;
* in the mock runtime the current file is recorded before it has been read, and three
  functions share the loop of a command, each of which may send the stop; line,
  instruction and column are three fields that different requests move;
* in the mock session a launch waits for a notification that has no memory, against a
  timeout, while breakpoints requests wait for files; cancel requests may come at any
  moment; and objects, their bytes, the handles for them and the client's copies of the
  bytes are four views of one value.

What makes each part correct: the driver must execute what the machine would execute
without it and stop where the command says; the session must not send on a closed
channel, must answer, and must end; the handlers must acknowledge before they report
a stop, must not report a stop while the program still runs, and must announce each
stop; the mock runtime must send exactly one stop per command and pass no breakpoint; the
mock session must end every launch, run the lines of the file it says it runs, cancel what it is
asked to cancel and nothing else, and show memory that is the value's.
`PROJECT.json` lists the hazards behind these, at their lines. Three of the code's hazards
have no property and are named only here: a launch whose source cannot be read panics instead of answering
(handler.go:77-80, which `ReadSource` has; the code does so on purpose), the last message taken from the queue may be
unwritten when `StartSession` returns and the process ends (session.go:64; `DapSession`
has the behaviour, and nothing in the repository promises otherwise), and the condition of
the first filter option is taken whichever option names namedException (mockDebug.ts:330;
the filters are an input of the model).

## 2. The modules

| module | models |
|---|---|
| `MonkeyVM` | the machine, as far as the driver sees it. Code is a sequence of bytes, each an opcode or an operand, with its line; data is left out, so a branch may go either way and a risky instruction may fail. External. |
| `MonkeyDriver` | the driver, on `MonkeyVM`. One action per iteration of `RunWithCondition`. |
| `DebugTarget` | abstract specification: what the driver promises the handlers. |
| `DapSession` | reader, goroutines, wait group, channels, writer, shutdown. |
| `MonkeyHandler` | the handlers, on `DapSession` and on an INSTANCE of `DebugTarget`. |
| `MockSource` | the one file of the mock runtime: recorded, then read, by whoever waits for it. |
| `MockRuntime` | the mock runtime with the requests of `mockDebug.ts` that reach it, on `MockSource`. |
| `MockVariables` | `RuntimeVariable`, the handles for variables, the requests about them, the client's copies of memory. |
| `MockDebugSession` | the mock debug session where it waits, on `MockSource` and `MockVariables`. |
| `MCMonkeyDriver`, `MCMockRuntime`, `MCMockSession` | the programs, files, users and clients that TLC runs on. |
| `MonkeyDriverProofs` | theorems: the driver's frames, and that it executes what the machine would. |
| `MonkeyDriverCommandProofs` | where commands stop, the breakpoint flag, the refinement of `DebugTarget`. |
| `MonkeyDriverLineProofs` | the lines of stack traces, and panics. |
| `MonkeyHandlerProofs` | the session and the handlers with any client: the wait group, types, the lock. |
| `MonkeyHandlerEventProofs` | what they announce to any client. |
| `MonkeyHandlerClientProofs` | what only holds with a client that is orderly, or not careless. |
| `MockRuntimeProofs` | the mock runtime. |
| `MockDebugSessionProofs` | the mock debug session and its variables. |

The composition: `MonkeyDriver` implements `DebugTarget` (property
`ImplementsTarget`, an INSTANCE with a refinement mapping), and `MonkeyHandler` runs on
`DebugTarget`; so the handlers are checked against all a driver may do without the
frames and lines of the driver in the state. `MockSource` is shared: in `MockRuntime` what waits for
a read goes on to verify breakpoints and to run the program, in `MockDebugSession` it answers its
request, and there reads may also fail.

### MonkeyVM and MonkeyDriver

`frames` is the machine's frame array. `ip` counts consumed bytes: it is the Go `Ip`
plus 1, so that `Ip--` is `ip - 1`. `corrupt` says that a run-time error has left the
operand stack short, after which any instruction may panic; `crashed` that one has.
`cmd` is the command in progress with what its closure has captured (line, depth,
breakpoint slice); `result` is what the last command returned.

An iteration is `Stops` (condition met, `Ip--` by `StopFrames`), `Executes`, `RunsOut`
(the loop ends), or `LosesLocation` (the condition asks for the line of a position that has none
after it, which panics). `RunWithBreakpoints` on a breakpoint runs its own `StepOver`
first: `cmd.leaving` says so, and `Returns` then starts the run proper, whatever the
step returned, as in the code. `FlagAfter` is the bookkeeping of
`stoppedOnBreakpoint`. `SetBreakPoints` may come in the middle of a run, from another
goroutine; the run keeps the slice it was given.

Left out: values and the operand stack, `BreakpoinState` (text only), paths.

### DapSession and MonkeyHandler

A goroutine is what it still has to do: `todo[g]` is a sequence of steps, and each
handler is written as its sequence (`OnContinue == <<"response", "lock", "run", "return",
"isOff", "stopEvent", "unlock">>`). A step is an action; between two steps any other
goroutine may run. `"isOff"` is the early return of `OnContinueRequest`, which does not
unlock. `"stopEvent"` is `ProduceStopEvent`, which reads the state again. A message
step waits until the writer is free, since the channel is unbuffered, and panics if the
channel is closed. `Runner` is the goroutine that `OnLaunchRequest` leaves behind and
`sendWg` does not count. Panics of the code (a nil machine, a frame index out of range,
no errors, no source) end the process and are recorded in `panic`.

The client is a constant: `careless` sends anything in any order, `eager` sets
breakpoints before it launches and launches before it commands, but does not wait for a
stop, `orderly` also initializes first and waits for each announced stop.
`Window` is how many requests it leaves unanswered.

### MockRuntime

One action per request up to its first `await`, one (`ReadDone`) per file read that
comes back, and one per iteration of each of the three functions of a command's loop:
`ExecuteLine`, `UpdateCurrentLine`, `FindNextStatement`. Nothing else is enabled while
the loop runs (`Idle`), as JavaScript has it. A line is a record of what the runtime
looks for in it. `told` in a breakpoint is the line that the client was sent for it.
`thrown` records that `getLine` threw, which ends the command and nothing else.
Lines are numbered from 1. `Starts` and `Ends` of a line, which the code keeps in two arrays, are
how many words there are before it and up to its end.

Steps by instruction and by character (`StepInstruction`, `StepIn`, `StepInTarget`,
`StepOut`) execute nothing and stop at once. `FrameAddress` and `Disassemble` are the two queries that
must agree on addresses: what a stack trace sends and what the client finds there. An
address goes out as text and comes back through `parseInt` (`Reference`).

`user` is the set of features one user has, chosen at the start. A user has the features
that disturb each other and not all of them: source, instruction and data breakpoints with
exceptions; a second file; steps by instruction with instruction breakpoints; columns. What is left
apart this way meets in no variable (columns and breakpoints), or is known to go wrong
(a second file; section 4).

Left out: the output of log lines, the columns that `getBreakpoints` offers, and
breakpoints set from the debug console before any file is there.

### MockVariables

`heap` has every `RuntimeVariable` that was made, `variables` those the program has now,
`handles` what each reference was created for. `memory` of an object is the cached encoding,
made when it is first asked for (`Remembering`). `ConvertFromRuntime` is the whole of
`convertFromRuntime`: showing an object gives it a reference, once, and a lazy one that of a
wrapper; `Converted` does it for a list. `view` is external: the bytes a client has read for a reference and not been
told to drop by a `MemoryEvent`. The requests of the client are reads and writes of memory, sets through a
container and by expression, evaluation of variables and of values.

Encoding is two functions with `CodecAssumption`: decoding takes any bytes and inverts encoding. So bytes
that are no valid UTF-8 are a value of `Bytes` that no string encodes to. All values
without memory (numbers, booleans) are `Numbers`. A write keeps the size, since `Uint8Array.set` does.

### MockDebugSession

The launch is where it waits: `waiting` for `configurationDone` or the second to pass
(`LaunchTimeout`), `ready` (awake, and other messages of the same chunk may be handled first),
`reading` the file. `ConfigurationDoneRequest` wakes a waiting launch and is lost otherwise, as
`Subject.notify` of `await-notify` does. `ReadFails` rejects: a launch ends, a breakpoints request is
never answered. `mishaps` is history: the timeout and the failed reads there were.

A fetch of the globals is one action per second of `getGlobalVariables`; `limit` is history: what
the request had when the client cancelled it. Progress timers are equally long, so they go off in
the order in which they were set (`timers`); `asked` is history. A cancel request may name what has
ended.

`client` is the set of things the client does. One that is not `hasty` waits for its answers before it
sets more breakpoints or finishes the configuration.

## 3. The runs

| run | shows | instance |
|---|---|---|
| `driver_recursive` | `StopsWhereAsked`, `FlagIsCurrent`, `KnownPanics`, `Transparent`, `ReachesEnd` | a recursive function with a branch, 3 frames |
| `driver_failing` | `TypeOK`, `OnBoundary`, `StopsWhereAsked`, `KnownPanics`, `Transparent`, `TraceMatchesStop`, `ImplementsTarget` | a function that fails, called from two lines, and an infix expression at the end of Main, 2 frames |
| `driver_breakpoint_skipped` | `NoBreakpointSkipped` is violated | as `driver_recursive` |
| `driver_step_stalls` | `StepsLeaveTheirLine` is violated | a function whose first statement is `true` |
| `handler_orderly` | `TypeOK`, `FailureIsFinal`, `LockHasHolder`, `StopsAnnounced`, `ShutsDown` | 4 requests of 9 kinds, one unanswered at a time, orderly, fair |
| `handler_overlapping` | `QuietWhenTold`, `PanicsExplained`, `LaunchKnowsSource` | 4 requests of 6 kinds, two unanswered at a time, orderly |
| `handler_eager` | `TrackedSendersSafe`, `AcknowledgedFirst`, `ContinuesExclusive`, `TerminatedIsTrue` | 4 requests, among them a second `continue`, or the first while the launch runs; 8 kinds, eager |
| `session_closed_early` | `QueueClosedLast` is violated | a launch and the end of the input |
| `session_unanswered` | `EveryRequestAnswered` is violated | a disconnect, fair |
| `mock_runtime` | `TypeOK`, `OneStop`, `InstructionOnLine`, `FramesDisassemble`, `NoneJumped`, `NoAddressPassed`, `ThrowsUnloaded`, `ReachesEnd` | files of 5 and 2 lines, 4 users, 2 breakpoints per request, 2 reads |
| `mock_positions` | `PositionsActual` is violated | the first file |
| `mock_session` | `TypeOK`, `LinesOfSourceFile`, `FetchHonest`, `ProgressHonest`, `MemoryCoherent`, `ReferencesOwned`, `ViewCurrent`, `LaunchSettles` | 2 files, 4 reads, 5 globals, 2 fetches, 2 sequences of 3 updates; 3 strings in two sizes, bytes of each and bytes that are no text, a number; 3 objects, 4 handles; clients with and without `setExpression` |

What the properties say, in the order of importance:

* `Transparent`: under any sequence of commands the machine takes the steps it would
  take alone. An `Ip--` too many, too few, or in the wrong frame breaks it.
* `StopsWhereAsked`: each command that met its condition left the machine at a
  place that satisfies the command, read from the machine at rest. With recursion, a
  step over that looked at lines only would stop in another activation.
* `FlagIsCurrent`: the flag is only set in front of the breakpoint it is about.
* `OnBoundary`: no frame ever rests inside an instruction.
* `KnownPanics`: the circumstances of every panic, for every program. Beside the limit of the frames and
  what follows an error, it is a frame with no mapped instruction left: the program ends in an infix expression,
  the callee ends without a `return` (its `OpReturn` has no line), the last statement of Main is a call and a
  stack trace is taken below it, or the program has ended. What would be wrong is a panic of a frame that has a
  line ahead, or a command that leaves Main stopped in front of its last `OpPop`, where the next one panics.
* `ImplementsTarget`: the driver is what the handlers take it for.
* `TraceMatchesStop`: two different functions of the machine agree on the current line.
* `ReachesEnd` (driver): in a program that is `StallFree` no mix of commands can stop at the same place for ever.
  In others one can, see section 4; `MCMonkeyDriver` has TLC check that the program of the run is one.
* `TrackedSendersSafe`: no request goroutine is left when the queue is closed.
* `QuietWhenTold`: a client that waits is never told of a stop while a goroutine runs the
  program, so the unlocked steps do not race for such a client.
* `ContinuesExclusive`, `LockHasHolder`: what the lock does, and that it is given back.
* `FailureIsFinal`, `TerminatedIsTrue`: `terminateOnNextStep` and a state that is read twice.
* `PanicsExplained`: handlers that dereference what is not there, however two requests overlap. Not in it: a source
  that cannot be read (`ReadSource`), on which the code panics on purpose, and a frame that a later, smaller stack trace does not have.
* `LaunchKnowsSource`: the panic of a launch without a source path needs a launch that overtakes the goroutine of a
  setBreakpoints request; a client that has the answer to it is safe, whatever else is in the air.
* `StopsAnnounced`, `ShutsDown`: nothing waits for ever with an orderly client.
* `OneStop`, `NoneJumped`, `NoAddressPassed`, `ThrowsUnloaded`, `ReachesEnd` (mock): one stop per command,
  in the right place, past no line or address with a breakpoint, with breakpoints that change in between.
* `InstructionOnLine`: whatever moved the instruction, a stop at a line is at its first one.
* `FramesDisassemble`: the words of the stack and those at the addresses of its frames are the same.
* `LaunchSettles`: no order of launch, configuration and breakpoints leaves a launch without an answer
  or a rejection.
* `LinesOfSourceFile`: reads that are answered out of order never leave one file's lines under
  another's name, for a client that waits; the wait for `configurationDone` is what ensures it.
* `FetchHonest`, `ProgressHonest`: a cancel request reaches what it names, and nothing else.
* `MemoryCoherent`: the cached bytes are of the value, after any sets and writes.
* `ReferencesOwned`: a reference is of one variable, and a variable has one.
* `ViewCurrent`: the bytes that the client shows are those there are.

Every property has a mutant in `PROJECT.json`: a definition marked `fault` in the module, a
plausible slip in that code, under which TLC finds the property violated.

### Bounds, and why they are enough

* Driver: three frames hold a caller, a callee and a recursive activation of the same
  function, and make the limit of the frame array reachable; the two programs of the passing runs have
  every kind of instruction, operands of every position, instructions without a line, an
  expression that ends without one, a function called from two lines and an error in a callee and in Main.
  Breakpoints on a line of Main and one of the function tell apart every use of depth.
* Handlers: four requests are the two that set up and launch and two that command, the
  least that can race; the launch's goroutine is always there as a third party. More
  requests repeat these pairs. A client that sends anything in any order is left to the
  theorems, which hold for any number of requests. `handler_overlapping` has two requests in the
  air, the least that can overtake one another, and leaves out the kinds that meet no state of the
  debuggee; with one, as in `handler_orderly`, the liveness properties are within reach of TLC.
* Mock runtime: the file has every kind of line, one of each; two breakpoints per
  request are the least that can be answered at different times, two reads the least that can be
  answered out of order. The addresses are the first of a line and one inside it. `Overrun` is how far
  instruction steps go outside the program, one step being like any more; `Underrun` stops the
  column, which nothing else does.
* Mock session: two files and three reads at once besides room for the launch's; two fetches, the least
  of which one can be cancelled for the other; 5 globals stand for 10 and 3 updates for 100, so that a cancel
  comes at the first, an inner, the last and no turn; two sequences are the least of which one can be
  cancelled for the other. Requests about variables meet neither the launch nor the timers, so clients of their
  own send them. There stale bytes show: two strings have the same size, so that memory of one can be
  written over the other, and the third is what bytes that are no text decode to, and has another size than those. Three objects are an
  object value with a field, or a wrapper with its value and one more; a variable that is replaced, shown again and
  written through an old reference fits too.

Deadlock is not checked: a debuggee that has ended, a client that has hung up, a
process that has died all stop.

### Fairness

`MonkeyHandler!Fairness` is weak fairness of each goroutine, of the writer and of the
shutdown: the Go scheduler is fair to goroutines that can run. That a command returns
is included; the language has no loops and recursion is bounded by the frame array.
The client is not fair. `MonkeyDriver!FairSpec` adds a user who keeps stepping or
continuing, by any command: `ReachesEnd` is about that user, on a program that is `StallFree`. `MockRuntime!Fairness` has
the same user, a launch that arrives, and strong fairness for a file read, whose
callback waits for a moment between two commands: the event loop serves its queue in order.
`MockDebugSession!Fairness` is weak fairness of the timer of the launch, of its continuation and of the
read it waits for: a timer goes off, and the file system answers or fails. The client is not fair.

## 4. Disagreements found

Each is a run that TLC refutes; `findings` in `PROJECT.json` quotes the text that says otherwise.

* `driver_breakpoint_skipped`: the step over with which a run leaves a breakpoint runs over breakpoints in the
  functions called on its line (`driver.go:227-229`).
* `driver_step_stalls`: a step over from an instruction of one byte (the statement `true;`, `a[0];`, the
  condition of `if (true)`, an operand of an expression over several lines) stops where it started, and so does every further one
  (`driver.go:146-149`): the line at rest is that of the byte consumed last, the line after the fetch that
  of the next instruction.
* `session_closed_early`: the launch's goroutine is not counted by the wait group
  (`handler.go:104-122`) and sends on a closed channel.
* `session_unanswered`: `disconnect` blocks on `stopDebug` and is never answered
  (`handler.go:136`).
* `mock_positions`: breakpoints of a file that is not loaded yet are answered where
  they were asked for and moved afterwards (`mockRuntime.ts:471-476`).

The models also have the following, for which no run is kept: an error in the step that leaves a
breakpoint is swallowed (`driver.go:228`), and the client is told the program has terminated; a launch that is
sent before setBreakpoints is answered may read the source path before it is set, and the process panics
(`handler.go:77-80`; `LaunchKnowsSource` is about when); the line of a caller in a stack trace is
that of the next instruction with a line (`driver.go:296-297`; `driver_test.go:811-834`
expects that of the call); a launch with a breakpoint on the first line leaves the machine
`OFF` and announces nothing, and a continue that finds it so keeps the lock (an
orderly client never issues that continue, since nothing was announced); the mock
runtime stops at the same exception for ever while its filter is on, and runs past a
breakpoint on the line that a launch starts from. Of the mock parts further:

* a breakpoint in a second file replaces the lines of the program that is stopped
  (`mockRuntime.ts:643-669`), and a hasty client, a timeout or a failed read can leave the lines of one file
  under the name of another (`471-476`), of which a comment says "the one and only file" (`102`);
* an instruction breakpoint on address 0 is never met, nor backwards one inside a line (`545-546`);
  the column is not reset when the line changes (`213-235`) and can become negative (`259-262`);
  on the first line all frames have address 0 (`314`);
* `setExpressionRequest` (`mockDebug.ts:613-617`) sends no `MemoryEvent`, nor does a set that
  leaves the variable without memory (`493`), so the client shows old bytes;
* a lazy variable keeps the value it had when it was first shown, and its `memoryReference` is
  that of the wrapper, which has no memory (`857`, `893-895`);
* a progress sequence that the client cancels runs to its normal end when another one's end, or a second cancel
  request, takes the only slot (`mockDebug.ts:662`, `750`);
* cancel and disconnect requests are never answered (`745-752`, `240-242`), and a token that is set
  after its request has ended stays in the map (`747`);
* a launch that reports a compile error has already run the program (`257-267`).

## 5. What is proved

Every invariant that a passing run checks, every action property and both refinements are theorems,
for every value of the constants that the assumptions admit; what the runs add is liveness, the
mutants and the disagreements. Each proof has an inductive invariant of its own, because the
property alone is not inductive; the hard part is named below.

### The driver

For every program, line set and frame limit that satisfy `CodeAssumption`, `WellFormedCode`,
`LocationMap` and `DriverAssumption`. In `MonkeyDriverProofs`:

* `InvariantHolds`: `Spec => []IInv`. `OnBoundary` alone is not inductive: after a return the
  caller's position must be between instructions, so the invariant covers every frame; a
  caller has consumed its call, so that the `Ip--` of a step never goes below the first byte; no
  callee is past its return, so that a fetch in it exists; only Main is outermost.
  `StopFrames` undoes the fetch of the opcode in the very frame that was fetched from,
  which needs that fetch and `Ip--` are inverse (`RewindAdvance`), and one lemma per way the
  machine changes its frames (`MoveToValid`, `CallValid`, `ReturnValid`, `RunOpValid`).
* `TypeCorrect` (`TypeOK`) and `FramesOnBoundary` (`OnBoundary`), which follow.
* `DebuggingIsTransparent`: `Spec => VMSpec`, a refinement: each step of the driver is a
  step of the machine alone or leaves it as it is (`StepTransparent`).

In `MonkeyDriverCommandProofs`, from `CommandInv`, which ties the command in progress to the depth it
started at: a step out is at most one frame up (`OutInv`), a step into at most one frame down and then at its
start (`IntoInv`), a step that has executed nothing began on the current line (`StartInv`), and what leaves a
breakpoint is a step over (`LeavingInv`):

* `CommandsStopWhereAsked` (`StopsWhereAsked`), the line and depth read from the machine after
  its `Ip--`; so the position before the fetch and the one after `Ip--` have the same line (`StopPosition`).
* `FlagStaysCurrent` (`FlagIsCurrent`): what moves the machine away from its breakpoint clears the flag.
* `DriverImplementsTarget` (`ImplementsTarget`), the refinement that lets the handlers be checked on
  `DebugTarget`: each action of the driver is one of the target or a stutter (`IssuedTarget`,
  `ReturnsTarget`, `DiesTarget`, `IterateTarget`). The state that a step may leave unchanged is `OFF`: a step
  over or into that returns there has moved (`StepLeavesStart`).

In `MonkeyDriverLineProofs`, from how `SourceLocation` and the line of a trace entry search the line map in
different ways (`LineThere`, `LineBefore`, `DeepestLine`):

* `TracesMatchTheStop` (`TraceMatchesStop`).
* `PanicsAreKnown` (`KnownPanics`). `PlaceInv` adds that no command leaves Main in front of its last `OpPop`
  (`RestInv`), which is where the exception for DONE in the `Ip--` of the steps is needed, and that a run cannot stop
  at the end because no breakpoint is on line 0. That a position for which no line is found has none ahead of it, one
  byte back or not, is `FrameWithoutLine`, `MachineWithoutLine` and `FetchedWithoutLine`.

`WellFormedCode` and `LocationMap` are what the Monkey compiler emits: operands follow opcodes, jumps go
forward to an instruction, a function ends with a return, Main with a pop, and neither an operand nor a pop
has a line of its own. The constants of the runs satisfy them, as TLC evaluates.

### The session and the handlers

For any number of requests, window and depth, and any client (`Care`), in `MonkeyHandlerProofs`:

* `WaitGroupProtectsQueue` (`TrackedSendersSafe`). The invariant (`CountInv`) ties `sendWg`
  to the cardinality of the active request goroutines; with it a zero counter means none is
  left, and after the input has ended none is started.
* `HandlerTypesHold` (`TypeOK`).
* `ContinuesAreExclusive` (`ContinuesExclusive`). The invariant (`ShapeInv`) lists for each kind of handler
  what it may still have to do, and that it holds the lock exactly in the listed places between `lock` and
  `unlock`; `LaunchInv` that there is one launch and that its `Runner` comes after it. All theorems about the
  handlers rest on these (`HandlerInv`).

In `MonkeyHandlerEventProofs`, again for any client:

* `AnnouncedEndsAreTrue` (`TerminatedIsTrue`). `DebuggeeInv`: what a goroutine is about to announce, what is on
  its way and what is written are true now, and stay true, because a program that has ended or failed stays so.
* `CommandsAreAcknowledgedFirst` (`AcknowledgedFirst`). `AckInv`: whoever has yet to announce a stop has
  its response on the wire or in the queue before it.
* `ToldIsQuiet` (`QuietWhenTold`). The client compares two numbers, commands and stops; `OwnInv` says
  that each goroutine announces at most once and has then nothing left to run, and a map from stops to
  commands that is one-to-one between finite sets of the same size is onto (`CountedIsTold`).

In `MonkeyHandlerClientProofs`, with `Care = "orderly"` as a hypothesis (but for `LaunchesKnowTheSource`). `OrderInv`: at most one request
owes the client a stop, commands come after the launch, and the machine is not `OFF` for a request that
looks at it:

* `LockIsGivenBack` (`LockHasHolder`): the early return that keeps the lock is never taken.
* `ExceptionsAreFinal` (`FailureIsFinal`), by `FinalInv`: nobody is left to announce a stop.
* `LaunchesKnowTheSource` (`LaunchKnowsSource`), which needs only that the client sets breakpoints before it launches,
  and holds for any `Window`. `SourceInv`: as long as the path is missing, the requests that set it have taken no step,
  so nothing they sent is on its way or written.
* `HandlersPanicUncompiled` (`PanicsExplained`), for any `Window` and whether or not the source can be read.
  `OrderInv` has it that a command comes after a launch that is done with the machine; `PanicInv` adds that
  requests that do not command have only their own steps left, and that there is a failure when its
  exception is asked for; a program that did not compile stays so (`UnreadyStays`).

### The mock runtime

For any files that satisfy `RuntimeAssumption`, any users and bounds, in `MockRuntimeProofs`:

* `RuntimeTypesHold` (`TypeOK`), with the bounds of line, instruction and column.
* `OneStopForACommand` (`OneStop`). `LaunchInv`: one launch, no command before it.
* `NoBreakpointJumped` (`NoneJumped`). `PassInv`: in each of the three phases of the loop no line with a
  breakpoint is between where the command came from and where it is; `NearestFound` says what
  `findNextStatement` finds.
* `NoInstructionBreakpointPassed` (`NoAddressPassed`). `FindInv`: between two lines the instruction is the first of the line;
  `AddressInv`: a command that goes forwards is in front of every address it has not met. It rests on how
  many words there are before a line (`WordsAreCounted`).
* `InstructionFollowsLine` (`InstructionOnLine`), `OnlyUnreadThrows` (`ThrowsUnloaded`). `FileInv`: for
  a user who keeps to one file the current line exists as soon as the file has been read.
* `FramesAreDisassembled` (`FramesDisassemble`), from the order of `instructions` (`InstructionsAreWords`).

### The mock debug session

For any files, number of reads, requests, variables, sequences and updates, in `MockDebugSessionProofs`:

* `LinesBelong` (`LinesOfSourceFile`). The invariant (`LaunchInv`) says that the client it is about has at most one read
  outstanding, for the recorded file, and none when the program starts; it needs that a launch only gets
  `ready` with the configuration done.
* `FetchesHonest` (`FetchHonest`). The invariant (`FetchInv`) says what a token of a pending request means:
  the limit is what it has now, and everything otherwise.
* `ProgressIsHonest` (`ProgressHonest`). The invariant (`ProgressInv`) says that timers are of running sequences, one
  each, and that a slot that names a running sequence was asked for.

and for any names, values, encoding, fields and numbers of objects and handles that satisfy
`CodecAssumption` and `VariablesAssumption`:

* `MemoryIsTheValues` (`MemoryCoherent`), `ReferencesMeanOne` (`ReferencesOwned`). `VariablesInv` is about a store of
  objects and handles as a value (`StoreOK`), so that the lemmas speak of each operation of
  `convertFromRuntime` by itself (`ObjectReferred`, `ObjectRemembers`, `LazyWrapped`, `ObjectConverted`) and then of a
  whole response (`ConvertedInOrder`). What makes references unique is that a wrapper is reached through its
  reference only: no variable, field or element is one (`Proper`), so it is never given a reference again.
* `ViewStaysCurrent` (`ViewCurrent`): what can be written through one reference is shown by no other.
* `SessionTypesHold` (`TypeOK`), from all of these, with the count of updates (`CountInv`).

A response and a search are sequences of any length: such lemmas take the least place where their
claim fails (`LeastNatural`), since the induction theorems of the library are out of the provers' reach.

### Only model-checked

Liveness, which depends on fairness and is out of the prover's reach: `ReachesEnd` of the driver and of the mock
runtime, `StopsAnnounced`, `ShutsDown`, `LaunchSettles`; and the properties that are violated.

## 6. What is not modelled

* Values, text, paths, logging, the bytes of messages.
* Data races proper: steps of an eager client that run the machine together with a continue
  interleave command by command (`busy`), not memory access by memory access.
* The sleeps before the launch's goroutines run (they only make one order likely).
* The server's entry point and the extension's registration code: no state. `extension.ts` has
  factories for socket servers, which the compile-time `runMode` (`extension.ts:32`) never selects; a session
  per connection (`debugAdapter.ts:50-61`) shares nothing with another.
* Of the mock debug session: requests with constant or merely formatted answers (threads,
  completions, exception info, data breakpoint info, the number format).
* What an unhandled rejection does to the process: the session goes on, as it does in the editor.
* Several messages in one chunk, whose handlers run before each other's first continuation, except where
  `MockDebugSession` says `ready`.

## 7. Plan

Done, in this order: the machine and the driver, the abstract target, the session, the
handlers, the mock runtime, its variables, the mock debug session.

What would add most next:

1. `EditorSession`, an abstract specification of one debug session as the editor sees it
   (one stop or end per command), implemented by both `MonkeyHandler` and `MockRuntime`.
2. Theorems about `EditorSession` as a refinement, from the invariants of section 5.
3. The safety part of the liveness properties, such as that no goroutine waits for a lock or a channel
   that nobody can give it.

---------------------------- MODULE MockRuntime ----------------------------
(***************************************************************************)
(* src/mockRuntime.ts: the mock runtime, which "executes" the lines of a   *)
(* text file, with the requests of src/mockDebug.ts that reach it.         *)
(*                                                                         *)
(* JavaScript runs one callback at a time, so a request is one action up   *)
(* to its first await on a file, and the answer to that read is another.   *)
(* The loops of continue and step have no await: while one is in progress  *)
(* (Running) nothing else happens, and one action is one iteration of it.  *)
(* Lines are numbered from 1 and are 1 more than in the code.              *)
(***************************************************************************)
EXTENDS MockSource, Integers, FiniteSets, FiniteSetsExt

CONSTANTS
  Text,         \* Text[f]: the lines of file f, each a record as in Line
  Users,        \* what a user may do besides launching and going forwards by lines
  Program,      \* the file that is launched
  Names,        \* the variables of the program
  BreakLines,   \* the lines breakpoints are asked for
  Addresses,    \* the addresses instruction breakpoints are asked for
  DataTypes,    \* the sets of accesses data breakpoints are asked for
  Filters,      \* the sets of exception filters that are asked for
  MaxBreakPoints,  \* bound: breakpoints per file
  Overrun,         \* bound: how far instruction steps go outside the program
  Underrun         \* bound: how far step outs go to the left of the line

Exceptions == {"none", "unnamed", "named"}

(***************************************************************************)
(* What the runtime finds in a line: whether it is empty or starts with a  *)
(* character that moves breakpoints, whether it contains "lazy" or         *)
(* "disassembly", its words (the index of the first character, from 0 and  *)
(* without leading blanks, and the number of characters), its length with  *)
(* blanks, the variables it reads and writes in order, and the exception   *)
(* it throws.                                                              *)
(***************************************************************************)
Access == [name : Names, type : {"read", "write"}]
Line == [kind : {"text", "empty", "plus", "minus"}, lazy : BOOLEAN, disassembly : BOOLEAN,
         words : Seq([at : Nat, size : Nat \ {0}]), length : Nat,
         accesses : Seq(Access), throws : Exceptions]

Features == {"breakpoints", "otherFiles", "instructionBreakpoints", "dataBreakpoints",
             "exceptions", "reverse", "instructionSteps", "columns"}

\* The words of a line lie within it, and an empty one has none.
Fits(line) ==
  /\ \A word \in Range(line.words) : word.at + word.size <= line.length
  /\ line.kind = "empty" => line.words = << >>

\* A lazy first line that starts with "-" would make verification throw.
ASSUME RuntimeAssumption ==
  /\ Program \in Files /\ "none" \notin Files /\ IsFiniteSet(Files) /\ DOMAIN Text = Files
  /\ Users \subseteq SUBSET Features
  /\ \A f \in Files : Text[f] \in Seq(Line) /\ Len(Text[f]) > 0
  /\ \A f \in Files : \A ln \in DOMAIN Text[f] : Fits(Text[f][ln])
  /\ \A f \in Files : ~(Text[f][1].kind = "minus" /\ Text[f][1].lazy)
  /\ BreakLines \subseteq Nat \ {0} /\ Addresses \subseteq Nat
  /\ DataTypes \subseteq SUBSET {"read", "write"}
  /\ Filters \subseteq SUBSET {"named", "other"}
  /\ MaxBreakPoints \in Nat /\ MaxReads \in Nat /\ Overrun \in Nat /\ Underrun \in Nat

VARIABLES
  user,                    \* the features that the user uses
  started,                 \* the program has been launched
  currentLine, instruction,
  currentColumn,           \* {} while it is undefined
  breakPoints,             \* for each file
  instructionBreakpoints, breakAddresses,
  exceptionFilters,        \* "named" for namedException, "other" for otherExceptions
  variables,               \* the variables that have been written
  run,                     \* the command in progress, or the last one
  sent,                    \* the stop events of that command
  thrown                   \* the last command has looked at a line that does not exist

sourceVars == <<sourceFile, loaded, reads, started, user>>
positionVars == <<currentLine, instruction, currentColumn>>
breakVars == <<instructionBreakpoints, breakAddresses, exceptionFilters>>
vars == <<sourceVars, positionVars, breakPoints, breakVars, variables, run, sent, thrown>>

(***************************************************************************)
(* A breakpoint, and the line the client has been told that it is on, 0    *)
(* while it has not been told.                                             *)
(***************************************************************************)
NewBreakpoint(line) == [line |-> line, verified |-> FALSE, told |-> 0]

Phases == {"idle", "execute", "update", "find"}
NoRun == [op |-> "none", reverse |-> FALSE, phase |-> "idle", from |-> 0, first |-> 0]
Run(op, reverse, phase) ==
  [op |-> op, reverse |-> reverse, phase |-> phase, from |-> currentLine, first |-> instruction]
FineStep == [NoRun EXCEPT !.op = "fineStep"]

Init ==
  /\ SourceInit
  /\ user \in Users
  /\ started = FALSE
  /\ currentLine = 1 /\ instruction = 0 /\ currentColumn = {}
  /\ breakPoints = [f \in Files |-> << >>]
  /\ instructionBreakpoints = {} /\ breakAddresses = [n \in Names |-> {}]
  /\ exceptionFilters = {}
  /\ variables = {}
  /\ run = NoRun
  /\ sent = << >>
  /\ thrown = FALSE

Idle == run.phase = "idle"
At(phase) == run.phase = phase

Uses(feature) == feature \in user

SourceLines == IF loaded = "none" THEN << >> ELSE Text[loaded]

\* this.starts and this.ends: how many words there are before a line, and after it.
Words == UNION {{ln} \X DOMAIN SourceLines[ln].words : ln \in DOMAIN SourceLines}
Starts(ln) == Cardinality({word \in Words : word[1] < ln})
Ends(ln) == Cardinality({word \in Words : word[1] <= ln})

\* The setter of currentLine.
InstructionKept(ln) == instruction                                    \* fault
InstructionAt(ln) == Starts(ln)
MoveTo(ln) == currentLine' = ln /\ instruction' = InstructionAt(ln)

-----------------------------------------------------------------------------
(***************************************************************************)
(* Breakpoints.                                                            *)
(***************************************************************************)
\* verifyBreakpoints on one breakpoint: where it is moved to, and whether it
\* is settled there.
Verify(lines, bp) ==
  IF bp.verified \/ bp.line > Len(lines) THEN bp
  ELSE LET line == lines[bp.line]
       IN  [bp EXCEPT !.verified = ~line.lazy,
                      !.line = CASE line.kind \in {"empty", "plus"} -> bp.line + 1
                                 [] line.kind = "minus" -> bp.line - 1
                                 [] line.kind = "text" -> bp.line]

VerifyAll(lines, bps) == [i \in DOMAIN bps |-> Verify(lines, bps[i])]

VerifyTimes(lines, bps, n) ==
  LET pass[k \in 0 .. n] == IF k = 0 THEN bps ELSE VerifyAll(lines, pass[k - 1])
  IN  pass[n]

Tell(bps, indices) ==
  [i \in DOMAIN bps |-> IF i \in indices THEN [bps[i] EXCEPT !.told = bps[i].line] ELSE bps[i]]

\* A read that was to verify the breakpoints of a file no longer finds them.
Forget(file) == [i \in DOMAIN reads |->
                   IF reads[i].file = file THEN [reads[i] EXCEPT !.waiter.verifies = FALSE]
                   ELSE reads[i]]

Waiter(verifies, starts) == [verifies |-> verifies, starts |-> starts]

(***************************************************************************)
(* setBreakPointsRequest: the breakpoints of a file are replaced, by one   *)
(* call of setBreakPoint for each.  All of them are there when the first   *)
(* call verifies them.  When the file is not the current one, the first    *)
(* call makes it the current one and waits for its lines, and the others   *)
(* verify the breakpoints against the lines there are.                     *)
(***************************************************************************)
SetBreakPoints(file, lines) ==
  LET new == [i \in DOMAIN lines |-> NewBreakpoint(lines[i])]
      n == Len(lines)
  IN  /\ Idle /\ Uses(IF file = Program THEN "breakpoints" ELSE "otherFiles")
      /\ \/ /\ n = 0 \/ IsCurrent(file)
            /\ breakPoints' = [breakPoints EXCEPT ![file] =
                                 Tell(VerifyTimes(SourceLines, new, n), 1 .. n)]
            /\ reads' = Forget(file)
            /\ UNCHANGED sourceFile
         \/ /\ n > 0
            /\ LoadSource(Forget(file), file, Waiter(TRUE, "no"))
            /\ breakPoints' = [breakPoints EXCEPT ![file] =
                                 Tell(VerifyTimes(SourceLines, new, n - 1), 2 .. n)]
      /\ UNCHANGED <<loaded, started, user, positionVars, breakVars, variables, run, sent, thrown>>

\* evaluateRequest, "new": one more breakpoint in the current file.
AddBreakpoint(line) ==
  /\ Idle /\ Uses("breakpoints") /\ sourceFile # "none" /\ Len(breakPoints[sourceFile]) < MaxBreakPoints
  /\ breakPoints' = [breakPoints EXCEPT ![sourceFile] =
       Tell(VerifyAll(SourceLines, Append(@, NewBreakpoint(line))), {Len(@) + 1})]
  /\ UNCHANGED <<sourceVars, positionVars, breakVars, variables, run, sent, thrown>>

FirstOn(bps, ln) == SelectInSeq(bps, LAMBDA bp : bp.line = ln)

\* evaluateRequest, "del".
ClearBreakPoint(line) ==
  /\ Idle /\ Uses("breakpoints") /\ sourceFile # "none"
  /\ FirstOn(breakPoints[sourceFile], line) # 0
  /\ breakPoints' = [breakPoints EXCEPT ![sourceFile] = RemoveAt(@, FirstOn(@, line))]
  /\ UNCHANGED <<sourceVars, positionVars, breakVars, variables, run, sent, thrown>>

OnlyBreakVars == UNCHANGED <<sourceVars, positionVars, breakPoints, variables, run, sent, thrown>>

SetInstructionBreakpoints(addresses) ==
  /\ Idle /\ Uses("instructionBreakpoints")
  /\ instructionBreakpoints' = addresses
  /\ OnlyBreakVars /\ UNCHANGED <<breakAddresses, exceptionFilters>>

SetDataBreakpoints(name, types) ==
  /\ Idle /\ Uses("dataBreakpoints")
  /\ breakAddresses' = [n \in Names |-> IF n = name THEN types ELSE {}]
  /\ OnlyBreakVars /\ UNCHANGED <<instructionBreakpoints, exceptionFilters>>

SetExceptionBreakpoints(filters) ==
  /\ Idle /\ Uses("exceptions")
  /\ exceptionFilters' = filters
  /\ OnlyBreakVars /\ UNCHANGED <<instructionBreakpoints, breakAddresses>>

-----------------------------------------------------------------------------
(***************************************************************************)
(* Launching.                                                              *)
(***************************************************************************)
\* start() once the program's lines are there: how is "entry", "debug" (stop
\* at a breakpoint) or "noDebug".
Starting(how, lines) ==
  /\ breakPoints' = IF how = "noDebug" \/ sourceFile' = "none" THEN breakPoints
                    ELSE [breakPoints EXCEPT ![sourceFile'] = VerifyAll(lines, @)]
  /\ run' = IF how = "entry" THEN Run("entry", FALSE, "find")
            ELSE Run("start", FALSE, "execute")
  /\ sent' = << >> /\ thrown' = FALSE

Start(how) ==
  /\ Idle /\ ~started
  /\ started' = TRUE
  /\ \/ /\ IsCurrent(Program)
        /\ UNCHANGED <<sourceFile, reads>>
        /\ Starting(how, SourceLines)
     \/ /\ LoadSource(reads, Program, Waiter(FALSE, how))
        /\ UNCHANGED <<breakPoints, run, sent, thrown>>
  /\ UNCHANGED <<loaded, user, positionVars, breakVars, variables>>

\* A file has been read: its lines replace those there are.
ReadDone(i) ==
  LET file == reads[i].file
      waiter == reads[i].waiter
      bps == VerifyAll(Text[file], breakPoints[file])
  IN  /\ Idle
      /\ InitializeContents(i)
      /\ \/ /\ waiter.starts # "no"
            /\ Starting(waiter.starts, Text[file])
         \/ /\ waiter.starts = "no" /\ waiter.verifies
            /\ breakPoints' = [breakPoints EXCEPT ![file] =
                                 Tell(bps, {k \in DOMAIN bps : bps[k].told = 0})]
            /\ UNCHANGED <<run, sent, thrown>>
         \/ /\ waiter.starts = "no" /\ ~waiter.verifies
            /\ UNCHANGED <<breakPoints, run, sent, thrown>>
      /\ UNCHANGED <<started, user, positionVars, breakVars, variables>>

-----------------------------------------------------------------------------
(***************************************************************************)
(* Commands.                                                               *)
(***************************************************************************)
Launched == started /\ \A i \in DOMAIN reads : reads[i].waiter.starts = "no"

Begin(op, reverse) ==
  /\ Idle /\ Launched /\ (reverse => Uses("reverse"))
  /\ run' = Run(op, reverse, "execute")
  /\ sent' = << >> /\ thrown' = FALSE
  /\ UNCHANGED <<sourceVars, positionVars, breakPoints, breakVars, variables>>

Continue == Begin("continue", FALSE)
ReverseContinue == Begin("continue", TRUE)
Step == Begin("step", FALSE)
StepBack == Begin("step", TRUE)

-----------------------------------------------------------------------------
(***************************************************************************)
(* The loops of continue and step.                                         *)
(***************************************************************************)
StopsAndGoes(event) ==                                                \* fault
  run' = [run EXCEPT !.phase = "update"] /\ sent' = Append(sent, event)
Stops(event) == run' = NoRun /\ sent' = Append(sent, event)
Goes(phase) == run' = [run EXCEPT !.phase = phase] /\ UNCHANGED sent

\* The instruction breakpoints that executeLine meets on the current line.
MetInclusive ==                                                       \* fault
  {a \in instructionBreakpoints : a \in instruction .. Ends(currentLine)}
MetBeforeStep ==                                                      \* fault
  {a \in instructionBreakpoints :
     IF run.reverse THEN a \in Starts(currentLine) .. instruction
     ELSE a \in instruction .. Ends(currentLine) - 1}
Met ==
  {a \in instructionBreakpoints :
     IF run.reverse THEN a \in Starts(currentLine) - 1 .. instruction - 1
     ELSE a \in instruction + 1 .. Ends(currentLine)}

\* Where executeLine leaves the instruction when it meets none.
Passed ==
  IF run.reverse THEN Min({instruction, Starts(currentLine) - 1})
  ELSE Max({instruction, Ends(currentLine)})

\* The variables written when the first k accesses of the line are done.
Accesses == SourceLines[currentLine].accesses
Written(k) ==
  variables \cup {Accesses[j].name : j \in {i \in 1 .. k : Accesses[i].type = "write"}}

\* The first write is the declaration of a variable and not an access to it.
Trapped == {k \in DOMAIN Accesses :
              /\ Accesses[k].name \in Written(k - 1)
              /\ Accesses[k].type \in breakAddresses[Accesses[k].name]}

ThrowsException ==
  LET exception == SourceLines[currentLine].throws
  IN  \/ exception = "named" /\ "named" \in exceptionFilters
      \/ exception # "none" /\ "other" \in exceptionFilters

ExecuteLine ==
  /\ At("execute") /\ currentLine \in DOMAIN SourceLines
  /\ \/ /\ Met # {}
        /\ instruction' = IF run.reverse THEN Max(Met) ELSE Min(Met)
        /\ Stops("instructionBreakpoint")
        /\ UNCHANGED variables
     \/ /\ Met = {} /\ Trapped # {}
        /\ instruction' = Passed /\ variables' = Written(Min(Trapped))
        /\ Stops("dataBreakpoint")
     \/ /\ Met = {} /\ Trapped = {} /\ ThrowsException
        /\ instruction' = Passed /\ variables' = Written(Len(Accesses))
        /\ Stops("exception")
     \/ /\ Met = {} /\ Trapped = {} /\ ~ThrowsException
        /\ instruction' = Passed /\ variables' = Written(Len(Accesses))
        /\ Goes("update")
  /\ UNCHANGED <<sourceVars, currentLine, currentColumn, breakPoints, breakVars, thrown>>

\* getLine throws, which ends the command and leaves the runtime as it is.
ExecuteNoLine ==
  /\ At("execute") /\ currentLine \notin DOMAIN SourceLines
  /\ run' = NoRun /\ thrown' = TRUE
  /\ UNCHANGED <<sourceVars, positionVars, breakPoints, breakVars, variables, sent>>

MoreLinesInclusive == currentLine <= Len(SourceLines)                 \* fault
MoreLines == currentLine < Len(SourceLines)

LinesBack == currentLine > 1

UpdateCurrentLine ==
  /\ At("update")
  /\ \/ /\ run.reverse /\ LinesBack
        /\ MoveTo(currentLine - 1) /\ Goes("find")
        /\ UNCHANGED currentColumn
     \/ /\ run.reverse /\ ~LinesBack
        /\ MoveTo(1) /\ Stops("entry")
        /\ currentColumn' = {}
     \/ /\ ~run.reverse /\ MoreLines
        /\ MoveTo(currentLine + 1) /\ Goes("find")
        /\ UNCHANGED currentColumn
     \/ /\ ~run.reverse /\ ~MoreLines
        /\ Stops("end")
        /\ currentColumn' = {}
        /\ UNCHANGED <<currentLine, instruction>>
  /\ UNCHANGED <<sourceVars, breakPoints, breakVars, variables, thrown>>

\* The lines findNextStatement may stop at.
BreakPointOn(ln) == FirstOn(breakPoints[sourceFile], ln) # 0
FoundStatements(lines) ==                                             \* fault
  {ln \in lines : SourceLines[ln].kind # "empty"}
Found(lines) == {ln \in lines : BreakPointOn(ln) \/ SourceLines[ln].kind # "empty"}

Scanned == IF run.reverse THEN 1 .. currentLine ELSE currentLine .. Len(SourceLines)
NoneFound == Found(Scanned) = {}
Nearest == IF run.reverse THEN Max(Found(Scanned)) ELSE Min(Found(Scanned))
AtBreakPoint == ~NoneFound /\ BreakPointOn(Nearest)

FindNextStatement ==
  /\ At("find")
  /\ \/ /\ AtBreakPoint
        /\ MoveTo(Nearest)
        /\ breakPoints' = [breakPoints EXCEPT ![sourceFile] =
                             [@ EXCEPT ![FirstOn(@, Nearest)].verified = TRUE]]
        /\ Stops("breakpoint")
     \/ /\ ~AtBreakPoint
        /\ IF NoneFound THEN UNCHANGED <<currentLine, instruction>> ELSE MoveTo(Nearest)
        /\ UNCHANGED breakPoints
        /\ IF run.op \in {"entry", "step"} THEN Stops(run.op) ELSE Goes("execute")
  /\ UNCHANGED <<sourceVars, currentColumn, breakVars, variables, thrown>>

-----------------------------------------------------------------------------
(***************************************************************************)
(* Steps finer than a line: by instruction, and by character within the    *)
(* current line.  They execute nothing and stop at once.                   *)
(***************************************************************************)
Instructions ==
  FlattenSeq([ln \in DOMAIN SourceLines |->
                [k \in DOMAIN SourceLines[ln].words |-> [line |-> ln, word |-> k]]])

StepsAtOnce ==
  /\ Idle /\ Launched
  /\ run' = FineStep /\ sent' = <<"step">> /\ thrown' = FALSE
  /\ UNCHANGED <<sourceVars, currentLine, breakPoints, breakVars, variables>>

StepInstruction(by) ==
  /\ Uses("instructionSteps")
  /\ instruction + by \in -Overrun .. Len(Instructions) + Overrun
  /\ StepsAtOnce
  /\ instruction' = instruction + by
  /\ UNCHANGED currentColumn

\* getStepInTargets: the characters of the words of the line, frame by frame.
StepInTargets ==
  UNION {word.at .. word.at + word.size - 1 : word \in Range(SourceLines[currentLine].words)}

StepInTarget ==
  /\ Uses("columns") /\ currentLine \in DOMAIN SourceLines
  /\ StepsAtOnce
  /\ \E target \in StepInTargets : currentColumn' = {target}
  /\ UNCHANGED instruction

WithinAny(column) == TRUE                                             \* fault
Within(column) == column <= SourceLines[currentLine].length

\* stepIn without a target; on a line that does not exist it throws.
StepIn ==
  /\ Uses("columns") /\ (currentColumn # {} => currentLine \in DOMAIN SourceLines)
  /\ StepsAtOnce
  /\ currentColumn' = IF currentColumn = {} THEN {1}
                      ELSE {IF Within(c) THEN c + 1 ELSE c : c \in currentColumn}
  /\ UNCHANGED instruction

StepOut ==
  /\ Uses("columns") /\ \A c \in currentColumn : c > -Underrun
  /\ StepsAtOnce
  /\ currentColumn' = {c - 1 : c \in currentColumn} \ {0}
  /\ UNCHANGED instruction

-----------------------------------------------------------------------------
(***************************************************************************)
(* What the client asks for when it has been told of a stop: the addresses *)
(* of the frames, which are the words of the current line, and the         *)
(* instructions at an address.  An address goes to the client and back as  *)
(* a hexadecimal number, which a minus sign after the padding ends.        *)
(***************************************************************************)
Reference(address) == IF address < 0 THEN 0 ELSE address

FrameAddressOfStop(frame) == instruction                              \* fault
FrameAddress(frame) ==
  IF SourceLines[currentLine].disassembly /\ instruction # 0
  THEN instruction + frame - 1 ELSE 0

Nop == [line |-> 0, word |-> 0]
Disassemble(address) ==
  IF address + 1 \in DOMAIN Instructions THEN Instructions[address + 1] ELSE Nop

-----------------------------------------------------------------------------
Running == ExecuteLine \/ ExecuteNoLine \/ UpdateCurrentLine \/ FindNextStatement

Requested == {<< >>} \cup {<<l>> : l \in BreakLines} \cup (BreakLines \X BreakLines)

Next ==
  \/ \E file \in Files, lines \in Requested : SetBreakPoints(file, lines)
  \/ \E line \in BreakLines : AddBreakpoint(line) \/ ClearBreakPoint(line)
  \/ \E addresses \in SUBSET Addresses : SetInstructionBreakpoints(addresses)
  \/ \E name \in Names, types \in DataTypes : SetDataBreakpoints(name, types)
  \/ \E filters \in Filters : SetExceptionBreakpoints(filters)
  \/ \E how \in {"entry", "debug", "noDebug"} : Start(how)
  \/ \E i \in DOMAIN reads : ReadDone(i)
  \/ Continue \/ ReverseContinue \/ Step \/ StepBack
  \/ StepInstruction(1) \/ StepInstruction(-1)
  \/ StepInTarget \/ StepIn \/ StepOut
  \/ Running

Spec == Init /\ [][Next]_vars

(***************************************************************************)
(* Fairness: a file that has been read is handed over however many         *)
(* requests come in between (SF: that waits for a moment between two       *)
(* commands), the launch arrives, and the user continues or steps.         *)
(***************************************************************************)
Fairness ==
  /\ WF_vars(Running)
  /\ SF_vars(\E i \in DOMAIN reads : ReadDone(i))
  /\ WF_vars(\E how \in {"entry", "debug", "noDebug"} : Start(how))
  /\ WF_vars(Continue \/ Step)

FairSpec == Spec /\ Fairness

-----------------------------------------------------------------------------
Breakpoint == [line : Nat, verified : BOOLEAN, told : Nat]
StopEvents == {"breakpoint", "instructionBreakpoint", "dataBreakpoint", "exception",
               "step", "entry", "end"}

Longest == Max({line.length : line \in UNION {Range(Text[f]) : f \in Files}})

\* The types of the runtime's fields.  A column stays in the file, although it is
\* not reset when the line changes: at most one beyond the longest line.
TypeOK ==
  /\ sourceFile \in Files \cup {"none"} /\ loaded \in Files \cup {"none"}
  /\ reads \in Seq([file : Files,
                    waiter : [verifies : BOOLEAN, starts : {"no", "entry", "debug", "noDebug"}]])
  /\ user \in Users /\ started \in BOOLEAN /\ thrown \in BOOLEAN
  /\ currentLine \in Nat \ {0} /\ instruction \in Int
  /\ currentColumn \subseteq -Underrun .. Longest + 1 /\ Cardinality(currentColumn) <= 1
  /\ breakPoints \in [Files -> Seq(Breakpoint)]
  /\ instructionBreakpoints \subseteq Addresses
  /\ breakAddresses \in [Names -> SUBSET {"read", "write"}]
  /\ exceptionFilters \in Filters \cup {{}}
  /\ variables \subseteq Names
  /\ run.phase \in Phases /\ run.reverse \in BOOLEAN /\ run.from \in Nat
  /\ sent \in Seq(StopEvents)

(***************************************************************************)
(* Whatever stops a command, in the line or after it, is reported, and     *)
(* once: a client that gets no event waits for ever, one that gets two     *)
(* sends a command too many.                                               *)
(***************************************************************************)
OneStop ==
  Launched /\ ~thrown => Len(sent) = IF Idle THEN 1 ELSE 0

(***************************************************************************)
(* No command, forwards or backwards, passes a breakpoint: those it leaves *)
(* behind are on the line it started from, and the line it stops at has    *)
(* one only if that is the reason, or it never left that line.             *)
(***************************************************************************)
Between(ln, a, b) == (a < ln /\ ln < b) \/ (b < ln /\ ln < a)

NoneJumped ==
  [][run.phase # "idle" /\ run'.phase = "idle" /\ ~thrown' =>
       \A ln \in {breakPoints[sourceFile][i].line : i \in DOMAIN breakPoints[sourceFile]} :
         /\ ~Between(ln, run.from, currentLine')
         /\ ln = currentLine' => ln = run.from \/ Last(sent') = "breakpoint"]_vars

(***************************************************************************)
(* The instruction follows the line: a command that stops at a line stops  *)
(* at its first instruction, whichever way it came, whatever part of other *)
(* lines was executed and wherever instruction steps have been; and unless *)
(* there were such steps, one that stops within a line is on that line, or *)
(* backwards on the instruction before it.                                 *)
(***************************************************************************)
AtLineStop ==
  /\ Idle /\ run.op # "fineStep" /\ currentLine \in DOMAIN SourceLines
  /\ sent # << >> /\ Last(sent) \in {"breakpoint", "step", "entry"}

InstructionOnLine ==
  ~Uses("otherFiles") =>
    /\ AtLineStop => instruction = Starts(currentLine)
    /\ run.phase \in {"idle", "execute"} /\ ~Uses("instructionSteps")
         /\ currentLine \in DOMAIN SourceLines =>
         instruction \in Starts(currentLine) - 1 .. Ends(currentLine)

(***************************************************************************)
(* No command that goes forwards passes the address of an instruction      *)
(* breakpoint, over lines that are executed or skipped and after any fine  *)
(* steps: it stops in front of the address or because of it.               *)
(***************************************************************************)
NoAddressPassed ==
  [][run.phase # "idle" /\ run'.phase = "idle" /\ ~thrown' /\ ~run.reverse =>
       \A a \in instructionBreakpoints :
         run.first < a /\ a <= instruction' =>
           a = instruction' /\ Last(sent') = "instructionBreakpoint"]_vars

(***************************************************************************)
(* The disassembly belongs to the stack trace: at a stop in a line that    *)
(* has addresses, what the client finds at the address of a frame is the   *)
(* word of the current line that the frame stands for.  (On the first line *)
(* all frames have address 0.)                                             *)
(***************************************************************************)
FramesDisassemble ==
  AtLineStop /\ ~Uses("otherFiles") /\ SourceLines[currentLine].disassembly
    /\ instruction # 0 =>
    \A frame \in DOMAIN SourceLines[currentLine].words :
      Disassemble(Reference(FrameAddress(frame))) = [line |-> currentLine, word |-> frame]

\* With one file, a command only looks at a line that does not exist when that
\* file has not been read yet: never because it has run past either end.
ThrowsUnloaded ==
  [][thrown' /\ ~thrown /\ ~Uses("otherFiles") => loaded = "none"]_vars

(***************************************************************************)
(* When the exceptions and data breakpoints are turned off for good and    *)
(* the user goes forwards by lines, the program ends, whatever source and  *)
(* instruction breakpoints are set and however they change.                *)
(***************************************************************************)
Undisturbed ==
  /\ exceptionFilters = {} /\ \A n \in Names : breakAddresses[n] = {}
  /\ ~run.reverse /\ run.op # "fineStep" /\ ~Uses("otherFiles")

ReachesEnd == <>[]Undisturbed => (started ~> sent = <<"end">>)

-----------------------------------------------------------------------------
(***************************************************************************)
(* What the comments of mockDebug.ts say and the code does not do.         *)
(***************************************************************************)

\* "send back the actual breakpoint positions": when no read is outstanding
\* the client knows the line of every breakpoint.
PositionsActual ==
  reads = << >> =>
    \A f \in Files : \A i \in DOMAIN breakPoints[f] :
      breakPoints[f][i].told = breakPoints[f][i].line
=============================================================================

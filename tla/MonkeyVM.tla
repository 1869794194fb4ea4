------------------------------ MODULE MonkeyVM ------------------------------
(***************************************************************************)
(* The virtual machine that the debug driver drives: package vm of         *)
(* github.com/moritz-tiesler/monkey.  It is not part of this repository.   *)
(* What is written here is what driver.go relies on (CurrentFrame().Ip,    *)
(* CallDepth, State, SourceLocation, SourceLocationInFrame,                *)
(* RunWithCondition), as driver_test.go and the server binary shipped in   *)
(* src/server show it.                                                     *)
(*                                                                         *)
(* A compiled function is a sequence of bytes.  Operands, constants and    *)
(* the operand stack are abstracted away: a byte keeps what the debugger   *)
(* can tell apart, namely its control flow and its source line.            *)
(***************************************************************************)
EXTENDS Integers, Sequences, FiniteSets

CONSTANTS
  Fns,        \* the compiled functions of the program
  Main,       \* its main function
  Code,       \* Code[f]: the bytes of f, each a record as in Cell
  MaxFrames   \* the length of the frame array of the machine

Ops == {"plain", "pop", "risky", "call", "return", "jump", "branch", "operand"}

(***************************************************************************)
(* op:    what the byte is; "operand" for the bytes after an opcode,       *)
(*        "risky" for an instruction that may raise a run-time error.      *)
(* width: the bytes of the instruction, operands included.                 *)
(* line:  its source line, 0 when the compiler's location map has no entry *)
(*        for the byte (operands, OpPop, infix operators, an OpReturn      *)
(*        without an explicit `return`).                                   *)
(* to:    for a jump or branch, the number of bytes before its target.     *)
(* fn:    for a call, the function called.                                 *)
(***************************************************************************)
Cell == [op : Ops, width : Nat \ {0}, line : Nat, to : Nat, fn : Fns]

\* n bytes of f have been consumed and the next one, if any, is an opcode.
Boundary(f, n) ==
  /\ n \in 0 .. Len(Code[f])
  /\ n < Len(Code[f]) => Code[f][n + 1].op # "operand"

ASSUME CodeAssumption ==
  /\ Main \in Fns
  /\ Code \in [Fns -> Seq(Cell)]
  /\ MaxFrames \in Nat \ {0}
  /\ \A f \in Fns : Len(Code[f]) > 0 /\ Code[f][1].op # "operand"

\* What the compiler emits: operands follow their opcode, a jump goes forward
\* to an instruction (the language has no loops), Main ends with an OpPop or
\* with operands, every other function ends with a return, and Main is neither
\* left nor called.
ASSUME WellFormedCode ==
  \A f \in Fns : \A i \in DOMAIN Code[f] :
    LET c == Code[f][i]
    IN  c.op # "operand" =>
          /\ Boundary(f, i + c.width - 1)
          /\ c.op \in {"jump", "branch"} => Boundary(f, c.to) /\ c.to >= i
          /\ c.op = "return" => f # Main
          /\ c.op = "call" => c.fn # Main
          /\ f = Main /\ i = Len(Code[f]) => c.op = "pop"
          /\ f # Main /\ c.op # "return" => i + c.width - 1 < Len(Code[f])
          /\ f # Main /\ c.op \in {"jump", "branch"} => c.to < Len(Code[f])

\* What the compiler's location map leaves out.
ASSUME LocationMap ==
  \A f \in Fns : \A i \in DOMAIN Code[f] :
    Code[f][i].op \in {"operand", "pop"} => Code[f][i].line = 0

VARIABLES
  frames,   \* the frames in use, Main's first; << >> while there is no machine
  corrupt,  \* a run-time error has left the operand stack short
  crashed   \* a Go panic has ended the process

vmVars == <<frames, corrupt, crashed>>

(***************************************************************************)
(* ip counts the bytes consumed: it is the Ip of the Go frame plus one.    *)
(***************************************************************************)
Frame == [fn : Fns, ip : Nat]
NewFrame(f) == [fn |-> f, ip |-> 0]
Current(fs) == fs[Len(fs)]
CallDepth(fs) == Len(fs) - 1
MoveTo(fs, n) == [fs EXCEPT ![Len(fs)].ip = n]
Advance(fs) == MoveTo(fs, Current(fs).ip + 1)
Rewind(fs) == MoveTo(fs, Current(fs).ip - 1)

VMState(fs) ==
  IF Len(fs) > 1 THEN "STOPPED"
  ELSE IF Current(fs).ip = 0 THEN "OFF"
  ELSE IF Current(fs).ip = Len(Code[Main]) THEN "DONE"
  ELSE "STOPPED"

NoLine == -1

(***************************************************************************)
(* mustFindLocation: the line of the first mapped byte at or after the     *)
(* last one consumed.  The Go function panics when there is none.          *)
(***************************************************************************)
FirstMapped(f, ip) ==
  LET mapped == {i \in DOMAIN Code[f] : i >= ip /\ Code[f][i].line # 0}
  IN  IF mapped = {} THEN NoLine
      ELSE Code[f][CHOOSE i \in mapped : \A j \in mapped : i <= j].line

Lines == [f \in Fns |-> [ip \in 0 .. Len(Code[f]) |-> FirstMapped(f, ip)]]

SourceLocation(fs) ==
  IF VMState(fs) = "DONE" THEN 0 ELSE Lines[Current(fs).fn][Current(fs).ip]

\* The line shown for frame i.  One byte back when the byte before the last
\* one consumed by the CURRENT frame is an OpPop, whatever frame i is.
SourceLocationInFrame(fs, i) ==
  LET top == Current(fs)
      back == top.ip > 1 /\ Code[top.fn][top.ip - 1].op = "pop"
  IN  Lines[fs[i].fn][IF back THEN fs[i].ip - 1 ELSE fs[i].ip]

\* The loop condition of RunWithCondition.
CanFetch(fs) == Current(fs).ip < Len(Code[Current(fs).fn])

(***************************************************************************)
(* RunOp on the opcode just fetched: the frames it may leave and whether   *)
(* it succeeds, raises a run-time error, or panics.  Which branch is taken *)
(* and whether a risky instruction fails depend on data and are left open; *)
(* so is what follows an error, which may pop an empty operand stack.      *)
(***************************************************************************)
Outcome(fs, out) == [frames |-> fs, out |-> out]

RunOp(fs) ==
  LET top == Current(fs)
      c == Code[top.fn][top.ip]
      next == MoveTo(fs, top.ip + c.width - 1)
  IN  CASE c.op \in {"plain", "pop"} -> {Outcome(next, "ok")}
        [] c.op = "risky"  -> {Outcome(next, "ok"), Outcome(next, "error")}
        [] c.op = "call"   -> IF Len(fs) < MaxFrames
                              THEN {Outcome(Append(next, NewFrame(c.fn)), "ok")}
                              ELSE {Outcome(fs, "panic")}
        [] c.op = "return" -> {Outcome(SubSeq(fs, 1, Len(fs) - 1), "ok")}
        [] c.op = "jump"   -> {Outcome(MoveTo(fs, c.to), "ok")}
        [] c.op = "branch" -> {Outcome(next, "ok"), Outcome(MoveTo(fs, c.to), "ok")}

Execute ==
  /\ CanFetch(frames)
  /\ \E r \in RunOp(Advance(frames)) :
       \/ /\ r.out # "panic"
          /\ frames' = r.frames
          /\ corrupt' = (corrupt \/ r.out = "error")
          /\ UNCHANGED crashed
       \/ /\ r.out = "panic" \/ corrupt
          /\ crashed' = TRUE
          /\ UNCHANGED <<frames, corrupt>>

Load ==
  /\ frames = << >>
  /\ frames' = <<NewFrame(Main)>>
  /\ UNCHANGED <<corrupt, crashed>>

Panic == crashed' = TRUE /\ UNCHANGED <<frames, corrupt>>

-----------------------------------------------------------------------------
(***************************************************************************)
(* The program run without a debugger: every instruction once, in order,   *)
(* until the end of Main or until the process dies.                        *)
(***************************************************************************)
VMInit == frames = << >> /\ corrupt = FALSE /\ crashed = FALSE

VMNext ==
  /\ ~crashed
  /\ \/ Load
     \/ frames # << >> /\ Execute
     \/ Panic

VMSpec == VMInit /\ [][VMNext]_vmVars
=============================================================================

----------------------- MODULE MonkeyDriverLineProofs -----------------------
(***************************************************************************)
(* Theorems about the lines of MonkeyDriver: that the stack trace shows    *)
(* the line where the machine stopped, and when the driver may panic for   *)
(* the want of a line.                                                     *)
(***************************************************************************)
EXTENDS MonkeyDriverCommandProofs

-----------------------------------------------------------------------------
(***************************************************************************)
(* The location map.                                                       *)
(***************************************************************************)

\* A position has a line iff a byte at or after it is mapped.
LEMMA LineThere ==
  ASSUME NEW f \in Fns, NEW ip \in 0 .. Len(Code[f])
  PROVE  /\ Lines[f][ip] = FirstMapped(f, ip)
         /\ Lines[f][ip] # NoLine <=> \E i \in DOMAIN Code[f] : i >= ip /\ Code[f][i].line # 0
<1> DEFINE mapped == {i \in DOMAIN Code[f] : i >= ip /\ Code[f][i].line # 0}
<1>1. Lines[f][ip] = FirstMapped(f, ip)
  BY DEF Lines
<1>2. CASE mapped = {}
  BY <1>1, <1>2 DEF FirstMapped
<1>3. CASE mapped # {}
  <2>1. Code[f] \in Seq(Cell) /\ DOMAIN Code[f] = 1 .. Len(Code[f])
    BY CodeAssumption, LenProperties
  <2> DEFINE m == CHOOSE i \in mapped : \A j \in mapped : i <= j
  <2>2. m \in mapped
    <3>1. mapped \in SUBSET Nat /\ mapped # {}
      BY <1>3, <2>1
    <3>2. \E i \in mapped : \A j \in mapped : i <= j
      <4> HIDE DEF mapped
      <4> QED BY <3>1, LeastElement
    <3> HIDE DEF mapped
    <3> QED BY <3>2
  <2>3. FirstMapped(f, ip) = Code[f][m].line
    BY <1>3 DEF FirstMapped
  <2>4. Code[f][m] \in Cell
    <3> HIDE DEF m
    <3> QED BY <2>1, <2>2, ElementOfSeq
  <2>5. Code[f][m].line \in Nat
    BY <2>4 DEF Cell
  <2>6. FirstMapped(f, ip) # NoLine
    <3> HIDE DEF m, mapped
    <3> QED BY <2>3, <2>5 DEF NoLine
  <2> QED BY <1>1, <1>3, <2>6
<1>4. QED BY <1>2, <1>3

\* Going back over an unmapped byte does not change the line.
LEMMA LineBefore ==
  ASSUME NEW f \in Fns, NEW k \in 1 .. Len(Code[f]),
         k = 1 \/ Code[f][k - 1].line = 0
  PROVE  Lines[f][k - 1] = Lines[f][k]
<1>1. Code[f] \in Seq(Cell) /\ Len(Code[f]) \in Nat /\ DOMAIN Code[f] = 1 .. Len(Code[f])
  BY CodeAssumption, LenProperties
<1>2. k \in 0 .. Len(Code[f]) /\ k - 1 \in 0 .. Len(Code[f])
  BY <1>1
<1> DEFINE mapped(ip) == {i \in DOMAIN Code[f] : i >= ip /\ Code[f][i].line # 0}
           first(S) == IF S = {} THEN NoLine
                       ELSE Code[f][CHOOSE i \in S : \A j \in S : i <= j].line
<1>3. \A ip \in 0 .. Len(Code[f]) : Lines[f][ip] = first(mapped(ip))
  BY DEF Lines, FirstMapped
<1>4. mapped(k - 1) = mapped(k)
  <2>1. ASSUME NEW i \in DOMAIN Code[f], i >= k - 1, Code[f][i].line # 0
        PROVE  i >= k
    <3>1. i # k - 1
      BY <1>1, <2>1
    <3> QED BY <1>1, <2>1, <3>1
  <2>2. ASSUME NEW i \in DOMAIN Code[f], i >= k PROVE i >= k - 1
    BY <1>1, <2>2
  <2> QED BY <2>1, <2>2
<1> HIDE DEF mapped, first
<1>5. QED BY <1>2, <1>3, <1>4

\* The end of Main has no line: what it ends with is never mapped.
LEMMA NoLineAtEnd ==
  Len(Code[Main]) \in Nat \ {0} /\ Lines[Main][Len(Code[Main])] = NoLine
<1> DEFINE n == Len(Code[Main])
<1>1. Main \in Fns /\ n \in Nat \ {0} /\ DOMAIN Code[Main] = 1 .. n
  BY CodeAssumption, FirstLine, LenProperties
<1>2. n \in DOMAIN Code[Main]
  BY <1>1
<1>3. Code[Main][n].op \in {"operand", "pop"}
  BY <1>1, <1>2, WellFormedCode
<1>4. Code[Main][n].line = 0
  BY <1>1, <1>2, <1>3, LocationMap
<1>5. ~ \E i \in DOMAIN Code[Main] : i >= n /\ Code[Main][i].line # 0
  <2>1. ASSUME NEW i \in DOMAIN Code[Main], i >= n PROVE i = n
    BY <1>1, <2>1
  <2> QED BY <1>4, <2>1
<1>6. n \in 0 .. n
  BY <1>1
<1>7. QED BY <1>1, <1>5, <1>6, LineThere

-----------------------------------------------------------------------------
(***************************************************************************)
(* The stack trace.                                                        *)
(***************************************************************************)

\* The deepest line of a stack trace is the line of the machine, if it has one.
LEMMA DeepestLine ==
  ASSUME ValidFrames(frames), FrameLine(Len(frames)) # NoLine
  PROVE  FrameLine(Len(frames)) = SourceLocation(frames)
<1> DEFINE f == Current(frames).fn
           k == Current(frames).ip
           back == k > 1 /\ Code[f][k - 1].op = "pop"
<1>1. Len(frames) \in Nat \ {0} /\ Len(frames) \in 1 .. Len(frames)
  <2>1. Len(frames) \in Nat \ {0}
    BY EmptySeq DEF ValidFrames
  <2> QED BY <2>1
<1>2. f \in Fns /\ k \in Nat /\ k \in 0 .. Len(Code[f]) /\ Len(Code[f]) \in Nat
  <2>1. f \in Fns /\ k \in Nat /\ Boundary(f, k)
    BY <1>1, ValidFrame DEF Current
  <2> QED BY <2>1, FirstLine DEF Boundary
<1>3. FrameLine(Len(frames)) = Lines[f][IF back THEN k - 1 ELSE k]
  BY DEF FrameLine, SourceLocationInFrame, Current
<1>4. FrameLine(Len(frames)) = Lines[f][k]
  <2>1. CASE back
    <3>1. k \in 1 .. Len(Code[f]) /\ k - 1 \in 1 .. Len(Code[f])
      <4>1. k > 1
        BY <2>1
      <4> HIDE DEF f, k
      <4> QED BY <1>2, <4>1
    <3>2. DOMAIN Code[f] = 1 .. Len(Code[f])
      BY <1>2, CodeAssumption, LenProperties
    <3>3. Code[f][k - 1].line = 0
      BY <1>2, <2>1, <3>1, <3>2, LocationMap
    <3> HIDE DEF f, k
    <3>4. Lines[f][k - 1] = Lines[f][k]
      BY <1>2, <3>1, <3>3, LineBefore
    <3> QED BY <1>3, <2>1, <3>4
  <2>2. CASE ~back
    BY <1>3, <2>2
  <2> QED BY <2>1, <2>2
<1>5. CASE VMState(frames) = "DONE"
  <2>1. f = Main /\ k = Len(Code[Main])
    <3>1. ~(Len(frames) > 1) /\ k = Len(Code[Main])
      BY <1>5 DEF VMState
    <3>2. Len(frames) = 1
      <4>1. \A n \in Nat \ {0} : n > 1 \/ n = 1
        OBVIOUS
      <4> QED BY <1>1, <3>1, <4>1
    <3>3. f = Main
      BY <3>2 DEF ValidFrames, Current
    <3> QED BY <3>1, <3>3
  <2> QED BY <1>4, <2>1, NoLineAtEnd
<1>6. CASE VMState(frames) # "DONE"
  BY <1>4, <1>6 DEF SourceLocation
<1>7. QED BY <1>5, <1>6

\* A stack trace that is taken has one entry for each frame.
LEMMA TraceStep ==
  ASSUME IInv, [Next]_vars, debugFrames' # debugFrames
  PROVE  /\ Len(debugFrames') = CallDepth(frames) + 1
         /\ debugFrames'[Len(debugFrames')].line = SourceLocation(frames)
<1>1. CollectFrames /\ ~Dies
  BY ReturnsFields, CommandIssued
  DEF Next, SetBreakPoints, StartVM, StepOver, StepInto, StepOut, RunWithBreakpoints,
      RunUntilBreakPoint, Iterate, RunsOut, LosesLocation, Stops, Executes, Dies, driverVars,
      Starts, vars
<1> DEFINE shown == [i \in DOMAIN frames |-> [fn |-> frames[i].fn, line |-> FrameLine(i)]]
<1>2. /\ ~(\E i \in DOMAIN frames : FrameLine(i) = NoLine)
      /\ debugFrames' = shown
      /\ ValidFrames(frames)
  BY <1>1 DEF CollectFrames, IInv
<1>3. Len(frames) \in Nat \ {0} /\ DOMAIN frames = 1 .. Len(frames)
  BY <1>2, EmptySeq, LenProperties DEF ValidFrames
<1>4. Len(frames) \in DOMAIN frames
  BY <1>3
<1>5. FrameLine(Len(frames)) = SourceLocation(frames)
  BY <1>2, <1>4, DeepestLine
<1>6. shown[Len(frames)].line = FrameLine(Len(frames))
  BY <1>4
<1>7. Len(shown) = Len(frames)
  <2>1. debugFrames' \in Seq([fn : Fns, line : Nat])
    BY NextIInv DEF IInv, TypeOK
  <2>2. DOMAIN shown = 1 .. Len(frames)
    BY <1>3
  <2> HIDE DEF shown
  <2>3. DOMAIN shown = 1 .. Len(shown) /\ Len(shown) \in Nat
    BY <1>2, <2>1, LenProperties
  <2> QED BY <1>3, <2>2, <2>3
<1> HIDE DEF shown
<1>8. CallDepth(frames) + 1 = Len(frames)
  BY <1>3 DEF CallDepth
<1>9. QED BY <1>2, <1>5, <1>6, <1>7, <1>8

(***************************************************************************)
(* For every program, a stack trace has an entry for each frame in use,    *)
(* and its deepest is on the line where the machine stopped, although      *)
(* SourceLocationInFrame looks one byte further back after an OpPop.       *)
(***************************************************************************)
THEOREM TracesMatchTheStop == Spec => TraceMatchesStop
<1>1. IInv /\ [Next]_vars =>
        [debugFrames' # debugFrames =>
           /\ Len(debugFrames') = CallDepth(frames) + 1
           /\ debugFrames'[Len(debugFrames')].line = SourceLocation(frames)]_vars
  BY TraceStep
<1>2. QED BY <1>1, InvariantHolds, PTL DEF Spec, TraceMatchesStop

-----------------------------------------------------------------------------
(***************************************************************************)
(* Panics.                                                                 *)
(***************************************************************************)

\* An instruction only panics, while nothing has failed, for the want of a frame.
LEMMA RunOpPanic ==
  ASSUME NEW fs, ValidFrames(fs), CanFetch(fs),
         NEW r \in RunOp(Advance(fs)), r.out = "panic"
  PROVE  ~(Len(fs) < MaxFrames)
<1>1. Len(Advance(fs)) = Len(fs)
  BY AdvanceType DEF ValidFrames
<1>2. /\ Current(Advance(fs)).fn = Current(fs).fn
      /\ Current(Advance(fs)).ip = Current(fs).ip + 1
  BY AdvanceType DEF ValidFrames
<1> DEFINE c == Fetched(fs)
           as == Advance(fs)
           next == MoveTo(as, Current(as).ip + c.width - 1)
<1>3. c.op \in Ops /\ c.op # "operand"
  BY FetchValid DEF Cell
<1>4. Code[Current(as).fn][Current(as).ip] = c
  BY <1>2 DEF Fetched
<1>5. RunOp(as) =
         CASE c.op \in {"plain", "pop"} -> {Outcome(next, "ok")}
           [] c.op = "risky"  -> {Outcome(next, "ok"), Outcome(next, "error")}
           [] c.op = "call"   -> IF Len(as) < MaxFrames
                                 THEN {Outcome(Append(next, NewFrame(c.fn)), "ok")}
                                 ELSE {Outcome(as, "panic")}
           [] c.op = "return" -> {Outcome(SubSeq(as, 1, Len(as) - 1), "ok")}
           [] c.op = "jump"   -> {Outcome(MoveTo(as, c.to), "ok")}
           [] c.op = "branch" -> {Outcome(next, "ok"), Outcome(MoveTo(as, c.to), "ok")}
  BY <1>4 DEF RunOp
<1> HIDE DEF c, as, next
<1>6. r \in RunOp(as)
  BY DEF as
<1>7. CASE c.op = "call"
  BY <1>1, <1>5, <1>6, <1>7 DEF Outcome, as
<1>8. CASE c.op # "call"
  <2>1. \E x : r = Outcome(x, "ok") \/ r = Outcome(x, "error")
    BY <1>3, <1>5, <1>6, <1>8 DEF Ops
  <2> QED BY <2>1 DEF Outcome
<1>9. QED BY <1>7, <1>8

\* An instruction leaves no more frames than the machine has.
LEMMA RunOpBounded ==
  ASSUME NEW fs, ValidFrames(fs), CanFetch(fs),
         NEW r \in RunOp(Advance(fs)), r.out # "panic", Len(fs) <= MaxFrames
  PROVE  Len(r.frames) <= MaxFrames
<1> DEFINE gs == r.frames
           as == Advance(fs)
<1>1. fs \in Seq(Frame) /\ fs # << >> /\ Len(fs) \in Nat \ {0} /\ MaxFrames \in Nat \ {0}
  BY EmptySeq, CodeAssumption DEF ValidFrames
<1>2. CASE \E n \in Nat \ {0} : gs = MoveTo(fs, n)
  <2>1. PICK n \in Nat \ {0} : gs = MoveTo(fs, n)
    BY <1>2
  <2>2. Len(MoveTo(fs, n)) = Len(fs)
    BY <1>1, MoveToType
  <2> QED BY <2>1, <2>2
<1>3. CASE \E n \in Nat \ {0}, g \in Fns :
             gs = Append(MoveTo(fs, n), NewFrame(g)) /\ Len(fs) < MaxFrames
  <2>1. PICK n \in Nat \ {0}, g \in Fns :
             gs = Append(MoveTo(fs, n), NewFrame(g)) /\ Len(fs) < MaxFrames
    BY <1>3
  <2> DEFINE ms == MoveTo(fs, n)
  <2>2. ms \in Seq(Frame) /\ Len(ms) = Len(fs)
    BY <1>1, MoveToType
  <2>3. NewFrame(g) \in Frame
    BY DEF NewFrame, Frame
  <2> HIDE DEF ms
  <2>4. Len(gs) = Len(ms) + 1
    BY <2>1, <2>2, <2>3, AppendProperties DEF ms
  <2> HIDE DEF gs
  <2>5. Len(gs) <= MaxFrames
    BY <1>1, <2>1, <2>2, <2>4
  <2> QED BY <2>5 DEF gs
<1>4. CASE Len(fs) > 1 /\ gs = SubSeq(as, 1, Len(as) - 1)
  <2>1. as \in Seq(Frame) /\ Len(as) = Len(fs)
    BY <1>1, AdvanceType
  <2> DEFINE n == Len(fs) - 1
  <2>2. n \in Nat /\ n <= Len(as) /\ gs = SubSeq(as, 1, n)
    BY <1>1, <1>4, <2>1
  <2> HIDE DEF as, gs, n
  <2>3. Len(gs) = n
    BY <2>1, <2>2, PrefixProperties
  <2>4. n = Len(fs) - 1
    BY DEF n
  <2>5. Len(gs) <= MaxFrames
    BY <1>1, <2>3, <2>4
  <2> QED BY <2>5 DEF gs
<1>5. QED BY <1>2, <1>3, <1>4, RunOpShape

\* After a position without a line there is none.
LEMMA NoLineAfter ==
  ASSUME NEW f \in Fns, NEW n \in 0 .. Len(Code[f]), Lines[f][n] = NoLine,
         NEW m \in Nat, m >= n
  PROVE  FirstMapped(f, m) = NoLine
<1>1. DOMAIN Code[f] = 1 .. Len(Code[f]) /\ Len(Code[f]) \in Nat
  BY CodeAssumption, LenProperties
<1>2. ~ \E i \in DOMAIN Code[f] : i >= n /\ Code[f][i].line # 0
  BY LineThere
<1>3. ASSUME NEW i \in DOMAIN Code[f], i >= m PROVE i >= n
  BY <1>1, <1>3
<1>4. {i \in DOMAIN Code[f] : i >= m /\ Code[f][i].line # 0} = {}
  BY <1>2, <1>3
<1>5. QED BY <1>4 DEF FirstMapped

\* A frame for which a stack trace finds no line has none ahead of it.
LEMMA FrameWithoutLine ==
  ASSUME ValidFrames(frames), NEW i \in DOMAIN frames, FrameLine(i) = NoLine
  PROVE  NoLineAhead(i)
<1> DEFINE f == frames[i].fn
           k == frames[i].ip
           top == Current(frames)
           back == top.ip > 1 /\ Code[top.fn][top.ip - 1].op = "pop"
<1>1. /\ frames \in Seq(Frame) /\ frames # << >>
      /\ Len(frames) \in Nat \ {0} /\ i \in 1 .. Len(frames)
  BY EmptySeq, LenProperties DEF ValidFrames
<1>2. f \in Fns /\ k \in Nat /\ Boundary(f, k) /\ (i < Len(frames) => k > 0)
  BY <1>1, ValidFrame
<1>3. k \in 0 .. Len(Code[f]) /\ Len(Code[f]) \in Nat
  BY <1>2, FirstLine DEF Boundary
<1>4. FrameLine(i) = Lines[f][IF back THEN k - 1 ELSE k]
  BY DEF FrameLine, SourceLocationInFrame
<1>5. back => k > 0
  <2>1. CASE i = Len(frames)
    <3>1. top.ip = k
      BY <2>1 DEF Current
    <3> HIDE DEF k, top
    <3> QED BY <1>2, <3>1 DEF back
  <2>2. CASE i # Len(frames)
    BY <1>1, <1>2, <2>2
  <2> QED BY <2>1, <2>2
<1>6. PICK n : n \in 0 .. Len(Code[f]) /\ n <= k /\ Lines[f][n] = NoLine
  <2>1. CASE back
    <3>1. Lines[f][k - 1] = NoLine
      BY <1>4, <2>1
    <3> HIDE DEF f, k, back, top
    <3>2. k - 1 \in 0 .. Len(Code[f]) /\ k - 1 <= k
      BY <1>2, <1>3, <1>5, <2>1
    <3> QED BY <3>1, <3>2
  <2>2. CASE ~back
    <3>1. Lines[f][k] = NoLine
      BY <1>4, <2>2
    <3>2. k <= k
      BY <1>2
    <3> QED BY <1>3, <3>1, <3>2
  <2> QED BY <2>1, <2>2
<1> HIDE DEF f, k, back, top
<1>7. k + 1 \in Nat /\ k + 1 >= n
  BY <1>2, <1>3, <1>6
<1>8. FirstMapped(f, k + 1) = NoLine
  BY <1>2, <1>6, <1>7, NoLineAfter
<1>9. QED BY <1>8 DEF NoLineAhead, f, k

\* Nor has the innermost frame where the machine itself finds none.
LEMMA MachineWithoutLine ==
  ASSUME ValidFrames(frames), SourceLocation(frames) = NoLine
  PROVE  \E i \in DOMAIN frames : NoLineAhead(i)
<1> DEFINE i == Len(frames)
           f == frames[i].fn
           k == frames[i].ip
<1>1. /\ frames \in Seq(Frame) /\ i \in Nat \ {0} /\ DOMAIN frames = 1 .. i /\ i \in 1 .. i
  <2>1. frames \in Seq(Frame) /\ i \in Nat \ {0} /\ DOMAIN frames = 1 .. i
    BY EmptySeq, LenProperties DEF ValidFrames
  <2> QED BY <2>1
<1>2. f \in Fns /\ k \in Nat /\ Boundary(f, k)
  BY <1>1, ValidFrame
<1>3. k \in 0 .. Len(Code[f])
  BY <1>2 DEF Boundary
<1>4. Lines[f][k] = NoLine
  <2>1. VMState(frames) # "DONE"
    BY DEF SourceLocation, NoLine
  <2> QED BY <2>1 DEF SourceLocation, Current
<1> HIDE DEF f, k
<1>5. k + 1 \in Nat /\ k + 1 >= k
  BY <1>2
<1>6. FirstMapped(f, k + 1) = NoLine
  BY <1>2, <1>3, <1>4, <1>5, NoLineAfter
<1>7. QED BY <1>1, <1>6 DEF NoLineAhead, f, k

\* Where the instruction fetched has no line, the program is not about to end.
LEMMA FetchedWithoutLine ==
  ASSUME ValidFrames(frames), CanFetch(frames), SourceLocation(Advance(frames)) = NoLine
  PROVE  ~Ending /\ \E i \in DOMAIN frames : NoLineAhead(i)
<1> DEFINE as == Advance(frames)
           i == Len(frames)
           f == Current(frames).fn
           k == Current(frames).ip
<1>1. /\ frames \in Seq(Frame) /\ frames # << >>
      /\ i \in Nat \ {0} /\ DOMAIN frames = 1 .. i /\ i \in 1 .. i
  <2>1. frames \in Seq(Frame) /\ frames # << >> /\ i \in Nat \ {0} /\ DOMAIN frames = 1 .. i
    BY EmptySeq, LenProperties DEF ValidFrames
  <2> QED BY <2>1
<1>2. Current(as).fn = f /\ Current(as).ip = k + 1
  BY <1>1, AdvanceType
<1>3. VMState(as) # "DONE"
  BY DEF SourceLocation, NoLine
<1>4. Lines[f][k + 1] = NoLine
  BY <1>2, <1>3 DEF SourceLocation
<1>5. f \in Fns /\ k \in Nat /\ k < Len(Code[f])
  BY <1>1, AdvanceType DEF CanFetch
<1>6. Len(Code[f]) \in Nat
  BY <1>5, FirstLine
<1> HIDE DEF as, f, k
<1>7. k + 1 \in 0 .. Len(Code[f]) /\ k + 1 \in Nat /\ k + 1 >= k + 1
  BY <1>5, <1>6
<1>8. FirstMapped(f, k + 1) = NoLine
  BY <1>4, <1>5, <1>7, NoLineAfter
<1>9. NoLineAhead(i)
  BY <1>8 DEF NoLineAhead, Current, f, k
<1>10. QED BY <1>1, <1>3, <1>9 DEF Ending, as

(***************************************************************************)
(* At rest the machine is not in front of the last OpPop of Main.          *)
(***************************************************************************)
RestInv == Idle /\ frames # << >> /\ ~corrupt => ~Ending

PlaceInv ==
  /\ frames # << >> => Len(frames) <= MaxFrames
  /\ cmd.op = "until" => cmd.line # 0
  /\ RestInv
  /\ KnownPanics

\* What leaves the machine alone and issues no command keeps the invariant.
LEMMA RestKeepsPlaceInv ==
  ASSUME PlaceInv, UNCHANGED <<vmVars, cmd>>
  PROVE  PlaceInv'
BY DEF PlaceInv, RestInv, KnownPanics, Ending, NoLineAhead, Idle, vmVars

\* A panic keeps it if it is a known one.
LEMMA DiesKeepsPlaceInv ==
  ASSUME PlaceInv, Dies,
         \/ frames = << >> \/ Len(frames) = MaxFrames \/ corrupt
         \/ ~Ending /\ \E i \in DOMAIN frames : NoLineAhead(i)
  PROVE  PlaceInv'
BY DEF PlaceInv, RestInv, KnownPanics, Ending, NoLineAhead, Idle, Dies, Panic, driverVars

\* A command that stops does not leave Main in front of its last OpPop: a step
\* that gets there stays at the end, and no breakpoint is on the line 0.
LEMMA StopsPlaced ==
  ASSUME IInv, PlaceInv, Stops
  PROVE  PlaceInv'
<1> DEFINE as == Advance(frames)
<1>1. /\ frames # << >> /\ CanFetch(frames) /\ ValidFrames(frames) /\ Met(as) /\ ~crashed
      /\ cmd.op # "none" /\ frames' = StopFrames(as) /\ Returns(FALSE, TRUE)
      /\ UNCHANGED <<corrupt, crashed>>
  BY DEF Stops, Running, IInv
<1>2. KnownPanics'
  BY <1>1 DEF KnownPanics
<1>3. cmd'.op # "until"
  BY <1>1, ReturnsFields
<1>4. Len(frames') <= MaxFrames
  <2>1. Len(as) = Len(frames) /\ Len(frames) <= MaxFrames
    BY <1>1, AdvanceType DEF ValidFrames, PlaceInv
  <2> QED BY <1>1, <2>1, StopFramesValid
<1>5. RestInv'
  <2>1. SUFFICES ASSUME Ending' PROVE FALSE
    BY DEF RestInv
  <2>2. VMState(frames') = "STOPPED" /\ VMState(Advance(frames')) = "DONE"
    BY <2>1 DEF Ending
  <2>3. frames' = frames
    BY <1>1, <2>2, StopFramesValid
  <2>4. VMState(as) = "DONE"
    BY <2>2, <2>3
  <2>5. ~IsStep
    BY <1>1, <2>2, <2>4 DEF StopFrames
  <2>6. SourceLocation(as) = 0
    BY <2>4 DEF SourceLocation
  <2>7. CASE cmd.op = "run"
    <3>1. 0 \in cmd.bps
      BY <1>1, <2>6, <2>7 DEF Met
    <3>2. cmd.bps \subseteq Nat \ {0}
      BY DriverAssumption DEF IInv, TypeOK, RunType
    <3> QED BY <3>1, <3>2
  <2>8. CASE cmd.op = "until"
    BY <1>1, <2>6, <2>8 DEF Met, PlaceInv
  <2> QED BY <1>1, <2>5, <2>7, <2>8, CommandTyped DEF IsStep, RunOps
<1>6. QED BY <1>2, <1>3, <1>4, <1>5 DEF PlaceInv

\* An instruction that is executed panics for a known reason or keeps the invariant.
LEMMA ExecutesPlaced ==
  ASSUME IInv, PlaceInv, Executes
  PROVE  PlaceInv'
<1>1. /\ frames # << >> /\ CanFetch(frames) /\ ValidFrames(frames) /\ ~crashed
      /\ cmd.op # "none" /\ Len(frames) <= MaxFrames
  BY DEF Executes, Running, IInv, PlaceInv
<1>2. CASE Dies
  <2>1. PICK r \in RunOp(Advance(frames)) : r.out = "panic" \/ corrupt
    <3>1. crashed'
      BY <1>2 DEF Dies, Panic
    <3> QED BY <1>1, <3>1 DEF Executes
  <2>2. CASE r.out = "panic"
    <3>1. ~(Len(frames) < MaxFrames)
      BY <1>1, <2>2, RunOpPanic
    <3>2. Len(frames) \in Nat \ {0} /\ MaxFrames \in Nat \ {0}
      BY <1>1, EmptySeq, CodeAssumption DEF ValidFrames
    <3>3. Len(frames) = MaxFrames
      BY <1>1, <3>1, <3>2
    <3> QED BY <1>2, <3>3, DiesKeepsPlaceInv
  <2>3. CASE corrupt
    BY <1>2, <2>3, DiesKeepsPlaceInv
  <2> QED BY <2>1, <2>2, <2>3
<1>3. CASE ~Dies
  <2>1. PICK r \in RunOp(Advance(frames)) :
          /\ r.out # "panic"
          /\ frames' = r.frames
          /\ corrupt' = (corrupt \/ r.out = "error")
          /\ IF r.out = "error" THEN Returns(TRUE, FALSE) ELSE UNCHANGED <<cmd, result>>
          /\ crashed' = crashed
    BY <1>3 DEF Executes
  <2>2. Len(frames') <= MaxFrames
    BY <1>1, <2>1, RunOpBounded
  <2>3. KnownPanics'
    BY <1>1, <2>1 DEF KnownPanics
  <2>4. CASE r.out = "error"
    <3>1. corrupt' /\ cmd'.op # "until"
      BY <2>1, <2>4, ReturnsFields
    <3> QED BY <2>2, <2>3, <3>1 DEF PlaceInv, RestInv
  <2>5. CASE r.out # "error"
    BY <1>1, <2>1, <2>2, <2>3, <2>5 DEF PlaceInv, RestInv, Idle
  <2> QED BY <2>4, <2>5
<1>4. QED BY <1>2, <1>3

\* Every step keeps the invariant.
LEMMA NextPlaceInv ==
  ASSUME IInv, PlaceInv, [Next]_vars
  PROVE  PlaceInv'
<1>1. ASSUME NEW ok \in Compiles, StartVM(ok) PROVE PlaceInv'
  <2>1. CASE ok
    <3>1. frames' = <<NewFrame(Main)>> /\ cmd' = cmd /\ UNCHANGED <<corrupt, crashed>>
          /\ ~crashed /\ cmd.op = "none"
      BY <1>1, <2>1 DEF StartVM, Load, Idle
    <3>2. Len(frames') = 1 /\ Current(frames') = NewFrame(Main)
      BY <3>1 DEF Current
    <3>3. Len(frames') <= MaxFrames
      <4>1. MaxFrames \in Nat \ {0}
        BY CodeAssumption
      <4> QED BY <3>2, <4>1
    <3>4. ~Ending'
      <4>1. Current(frames').ip = 0
        BY <3>2 DEF NewFrame
      <4>2. VMState(frames') = "OFF"
        BY <3>2, <4>1 DEF VMState
      <4> QED BY <4>2 DEF Ending
    <3> QED BY <1>1, <3>1, <3>3, <3>4 DEF PlaceInv, RestInv, KnownPanics
  <2>2. CASE ~ok
    BY <1>1, <2>2, RestKeepsPlaceInv DEF StartVM
  <2> QED BY <2>1, <2>2
<1>2. ASSUME StepOver \/ StepInto \/ StepOut \/ RunWithBreakpoints
             \/ \E line \in UntilLines : RunUntilBreakPoint(line)
      PROVE  PlaceInv'
  <2>1. CASE Dies
    <3>1. Idle /\ (frames = << >> \/ ~CanStep)
      <4>1. ASSUME NEW run, Starts(run) PROVE ~Dies
        BY <4>1, <1>2 DEF Starts, Dies, Panic, vmVars, StepOver, StepInto, StepOut,
           RunWithBreakpoints, RunUntilBreakPoint, Idle
      <4> QED
        BY <1>2, <2>1, <4>1 DEF StepOver, StepInto, StepOut, RunWithBreakpoints, RunUntilBreakPoint
    <3>2. \/ frames = << >> \/ corrupt
          \/ ~Ending /\ \E i \in DOMAIN frames : NoLineAhead(i)
      BY <3>1, MachineWithoutLine DEF CanStep, PlaceInv, RestInv, IInv
    <3> QED BY <2>1, <3>2, DiesKeepsPlaceInv
  <2>2. CASE ~Dies
    <3>1. cmd'.op # "none" /\ UNCHANGED vmVars
      BY <1>2, <2>2, CommandIssued
    <3>2. cmd'.op = "until" => cmd'.line # 0
      <4>1. ASSUME cmd'.op = "until"
            PROVE  \E line \in UntilLines : RunUntilBreakPoint(line)
        BY <1>2, <2>2, <4>1 DEF StepOver, StepInto, StepOut, RunWithBreakpoints, Starts,
           StepFrom, RunFor, Run
      <4>2. ASSUME NEW line \in UntilLines, RunUntilBreakPoint(line) PROVE cmd'.line # 0
        BY <4>2, DriverAssumption DEF RunUntilBreakPoint, Starts, Run
      <4> QED BY <4>1, <4>2
    <3> QED BY <3>1, <3>2 DEF PlaceInv, RestInv, KnownPanics, Ending, NoLineAhead,
           Idle, vmVars
  <2> QED BY <2>1, <2>2
<1>3. ASSUME CollectFrames PROVE PlaceInv'
  <2>1. CASE Dies
    <3>1. ~crashed /\ crashed'
      BY <1>3, <2>1 DEF CollectFrames, Idle, Dies, Panic
    <3>2. Idle /\ \E i \in DOMAIN frames : FrameLine(i) = NoLine
      BY <1>3, <3>1 DEF CollectFrames, vmVars
    <3>3. \/ frames = << >> \/ corrupt
          \/ ~Ending /\ \E i \in DOMAIN frames : NoLineAhead(i)
      BY <3>2, FrameWithoutLine DEF PlaceInv, RestInv, IInv
    <3> QED BY <2>1, <3>3, DiesKeepsPlaceInv
  <2>2. CASE ~Dies
    BY <1>3, <2>2, RestKeepsPlaceInv DEF CollectFrames
  <2> QED BY <2>1, <2>2
<1>4. ASSUME RunsOut PROVE PlaceInv'
  <2>1. /\ UNCHANGED vmVars /\ Returns(FALSE, FALSE) /\ frames # << >>
        /\ ValidFrames(frames) /\ ~CanFetch(frames)
    BY <1>4 DEF RunsOut, Running, IInv
  <2>2. VMState(frames) = "DONE" /\ cmd'.op # "until"
    BY <2>1, DoneAtEnd, ReturnsFields
  <2>3. ~Ending
    BY <2>2 DEF Ending
  <2> QED BY <2>1, <2>2, <2>3 DEF PlaceInv, RestInv, KnownPanics, Ending, NoLineAhead, vmVars
<1>5. ASSUME LosesLocation PROVE PlaceInv'
  <2>1. CanFetch(frames) /\ ValidFrames(frames) /\ SourceLocation(Advance(frames)) = NoLine
    BY <1>5 DEF LosesLocation, Running, IInv
  <2> QED BY <1>5, <2>1, FetchedWithoutLine, DiesKeepsPlaceInv DEF LosesLocation
<1>6. ASSUME \/ \E lines \in SUBSET BreakLines : SetBreakPoints(lines)
             \/ UNCHANGED vars
      PROVE  PlaceInv'
  BY <1>6, RestKeepsPlaceInv DEF SetBreakPoints, vars, vmVars
<1>7. QED
  BY <1>1, <1>2, <1>3, <1>4, <1>5, <1>6, StopsPlaced, ExecutesPlaced DEF Next, Iterate

(***************************************************************************)
(* For every program and whatever the commands, the driver only panics for *)
(* the reasons that KnownPanics lists.  As long as every frame has a       *)
(* mapped instruction ahead, no step and no stack trace panics for the     *)
(* want of a line.                                                         *)
(***************************************************************************)
THEOREM PanicsAreKnown == Spec => []KnownPanics
<1>1. Init => PlaceInv
  BY DEF Init, VMInit, NoRun, Run, PlaceInv, RestInv, KnownPanics
<1>2. IInv /\ PlaceInv /\ [Next]_vars => PlaceInv'
  BY NextPlaceInv
<1>3. PlaceInv => KnownPanics
  BY DEF PlaceInv
<1>4. QED BY <1>1, <1>2, <1>3, InvariantHolds, PTL DEF Spec
=============================================================================

------------------------- MODULE MonkeyDriverProofs -------------------------
(***************************************************************************)
(* Theorems about MonkeyDriver, for every program the compiler may emit.   *)
(***************************************************************************)
EXTENDS MonkeyDriver, SequenceTheorems, WellFoundedInduction, TLAPS

-----------------------------------------------------------------------------
(***************************************************************************)
(* The lines of the location map.                                          *)
(***************************************************************************)

\* A non-empty set of naturals has a least element (what FirstMapped takes).
LEMMA LeastElement ==
  ASSUME NEW T \in SUBSET Nat, T # {}
  PROVE  \E x \in T : \A y \in T : x <= y
<1> DEFINE R == {ss \in Nat \X Nat : ss[1] < ss[2]}
<1>1. IsWellFoundedOn(R, Nat)
  BY NatLessThanWellFounded DEF OpToRel
<1>2. \E x \in T : \A y \in T : ~(<<y, x>> \in R)
  <2> HIDE DEF R
  <2> QED BY <1>1, WFMin
<1>3. PICK x \in T : \A y \in T : ~(<<y, x>> \in R)
  BY <1>2
<1>4. ASSUME NEW y \in T PROVE x <= y
  <2>1. ~(<<y, x>> \in R)
    BY <1>3
  <2>2. x \in Nat /\ y \in Nat
    OBVIOUS
  <2>3. QED BY <2>1, <2>2
<1>5. QED BY <1>4

\* The location map gives a line or NoLine for every position of a function.
LEMMA LinesType ==
  ASSUME NEW f \in Fns, NEW ip \in 0 .. Len(Code[f])
  PROVE  Lines[f][ip] \in Nat \cup {NoLine}
<1> DEFINE mapped == {i \in DOMAIN Code[f] : i >= ip /\ Code[f][i].line # 0}
<1>1. Code[f] \in Seq(Cell)
  BY CodeAssumption
<1>2. DOMAIN Code[f] = 1 .. Len(Code[f])
  BY <1>1
<1>3. Lines[f][ip] = FirstMapped(f, ip)
  BY DEF Lines
<1>4. CASE mapped = {}
  BY <1>3, <1>4 DEF FirstMapped
<1>5. CASE mapped # {}
  <2> DEFINE m == CHOOSE i \in mapped : \A j \in mapped : i <= j
  <2>1. \E i \in mapped : \A j \in mapped : i <= j
    <3>1. mapped \in SUBSET Nat /\ mapped # {}
      BY <1>2, <1>5
    <3> HIDE DEF mapped
    <3> QED BY <3>1, LeastElement
  <2>2. m \in DOMAIN Code[f]
    BY <2>1
  <2>3. Code[f][m] \in Cell
    <3> HIDE DEF m
    <3> QED BY <1>1, <1>2, <2>2, ElementOfSeq
  <2>4. Code[f][m].line \in Nat
    BY <2>3 DEF Cell
  <2>5. FirstMapped(f, ip) = Code[f][m].line
    BY <1>5 DEF FirstMapped
  <2> QED BY <1>3, <2>4, <2>5
<1>6. QED BY <1>4, <1>5

-----------------------------------------------------------------------------
(***************************************************************************)
(* Frames.                                                                 *)
(***************************************************************************)

\* MoveTo sets the position of the current frame and nothing else.
LEMMA MoveToType ==
  ASSUME NEW fs \in Seq(Frame), fs # << >>, NEW n \in Nat
  PROVE  /\ MoveTo(fs, n) \in Seq(Frame)
         /\ Len(MoveTo(fs, n)) = Len(fs)
         /\ Len(fs) \in Nat \ {0}
         /\ Current(fs) \in Frame
         /\ \A i \in 1 .. Len(fs) - 1 : MoveTo(fs, n)[i] = fs[i]
         /\ MoveTo(fs, n)[Len(fs)] = [fn |-> Current(fs).fn, ip |-> n]
<1>1. Len(fs) \in Nat \ {0} /\ Len(fs) \in 1 .. Len(fs) /\ DOMAIN fs = 1 .. Len(fs)
  BY EmptySeq
<1>2. fs[Len(fs)] \in Frame
  BY <1>1, ElementOfSeq
<1>3. [fs[Len(fs)] EXCEPT !.ip = n] = [fn |-> fs[Len(fs)].fn, ip |-> n]
  BY <1>2 DEF Frame
<1>4. [fn |-> fs[Len(fs)].fn, ip |-> n] \in Frame
  BY <1>2 DEF Frame
<1>5. MoveTo(fs, n) = [fs EXCEPT ![Len(fs)] = [fn |-> fs[Len(fs)].fn, ip |-> n]]
  BY <1>3 DEF MoveTo
<1>6. QED
  BY <1>1, <1>2, <1>4, <1>5, ExceptSeq DEF Current

\* Of two moves the last one counts.
LEMMA MoveToTwice ==
  ASSUME NEW fs \in Seq(Frame), fs # << >>, NEW m \in Nat, NEW n \in Nat
  PROVE  MoveTo(MoveTo(fs, m), n) = MoveTo(fs, n)
<1> DEFINE as == MoveTo(fs, m)
           bs == MoveTo(as, n)
           cs == MoveTo(fs, n)
<1>1. /\ as \in Seq(Frame) /\ Len(as) = Len(fs) /\ Len(fs) \in Nat \ {0}
      /\ \A i \in 1 .. Len(fs) - 1 : as[i] = fs[i]
      /\ as[Len(fs)] = [fn |-> Current(fs).fn, ip |-> m]
  BY MoveToType
<1>2. /\ cs \in Seq(Frame) /\ Len(cs) = Len(fs)
      /\ \A i \in 1 .. Len(fs) - 1 : cs[i] = fs[i]
      /\ cs[Len(fs)] = [fn |-> Current(fs).fn, ip |-> n]
  BY MoveToType
<1> HIDE DEF as, cs
<1>3. as # << >>
  BY <1>1
<1>4. Current(as).fn = Current(fs).fn
  BY <1>1 DEF Current
<1>5. /\ bs \in Seq(Frame) /\ Len(bs) = Len(as)
      /\ \A i \in 1 .. Len(as) - 1 : bs[i] = as[i]
      /\ bs[Len(as)] = [fn |-> Current(as).fn, ip |-> n]
  BY <1>1, <1>3, MoveToType
<1> HIDE DEF bs
<1>6. ASSUME NEW i \in 1 .. Len(fs) PROVE bs[i] = cs[i]
  <2>1. CASE i = Len(fs)
    BY <2>1, <1>1, <1>2, <1>4, <1>5
  <2>2. CASE i # Len(fs)
    <3>1. i \in 1 .. Len(fs) - 1
      <4>1. Len(fs) \in Nat
        BY LenProperties
      <4> QED BY <4>1, <2>2
    <3>2. bs[i] = as[i]
      BY <3>1, <1>1, <1>5
    <3> QED BY <3>1, <3>2, <1>1, <1>2
  <2> QED BY <2>1, <2>2
<1>7. bs = cs
  BY <1>1, <1>2, <1>5, <1>6, SeqEqual
<1>8. QED BY <1>7 DEF as, bs, cs

\* A move to where the current frame is changes nothing.
LEMMA MoveToSame ==
  ASSUME NEW fs \in Seq(Frame), fs # << >>
  PROVE  MoveTo(fs, Current(fs).ip) = fs
<1> DEFINE k == Current(fs).ip
           bs == MoveTo(fs, k)
<1>1. k \in Nat /\ Current(fs) = [fn |-> Current(fs).fn, ip |-> k]
  BY MoveToType DEF Frame
<1>2. /\ bs \in Seq(Frame) /\ Len(bs) = Len(fs)
      /\ \A i \in 1 .. Len(fs) - 1 : bs[i] = fs[i]
      /\ bs[Len(fs)] = [fn |-> Current(fs).fn, ip |-> k]
  BY <1>1, MoveToType
<1> HIDE DEF bs
<1>3. ASSUME NEW i \in 1 .. Len(fs) PROVE bs[i] = fs[i]
  <2>1. CASE i = Len(fs)
    BY <2>1, <1>1, <1>2 DEF Current
  <2>2. CASE i # Len(fs)
    <3>1. i \in 1 .. Len(fs) - 1
      <4>1. Len(fs) \in Nat
        BY LenProperties
      <4> QED BY <4>1, <2>2
    <3> QED BY <3>1, <1>2
  <2> QED BY <2>1, <2>2
<1>4. bs = fs
  BY <1>2, <1>3, SeqEqual
<1>5. QED BY <1>4 DEF bs

\* Fetching an opcode moves the current frame one byte on.
LEMMA AdvanceType ==
  ASSUME NEW fs \in Seq(Frame), fs # << >>
  PROVE  /\ Current(fs).fn \in Fns /\ Current(fs).ip \in Nat
         /\ Advance(fs) \in Seq(Frame) /\ Advance(fs) # << >>
         /\ Len(Advance(fs)) = Len(fs) /\ Len(fs) \in Nat \ {0}
         /\ \A i \in 1 .. Len(fs) - 1 : Advance(fs)[i] = fs[i]
         /\ Current(Advance(fs)).fn = Current(fs).fn
         /\ Current(Advance(fs)).ip = Current(fs).ip + 1
<1>1. Current(fs).fn \in Fns /\ Current(fs).ip \in Nat
  BY MoveToType DEF Frame
<1>2. Current(fs).ip + 1 \in Nat
  BY <1>1
<1>3. /\ Advance(fs) \in Seq(Frame) /\ Len(Advance(fs)) = Len(fs)
      /\ Len(fs) \in Nat \ {0}
      /\ \A i \in 1 .. Len(fs) - 1 : Advance(fs)[i] = fs[i]
      /\ Advance(fs)[Len(fs)] = [fn |-> Current(fs).fn, ip |-> Current(fs).ip + 1]
  BY <1>2, MoveToType DEF Advance
<1>4. Advance(fs) # << >>
  BY <1>3
<1>5. /\ Current(Advance(fs)).fn = Current(fs).fn
      /\ Current(Advance(fs)).ip = Current(fs).ip + 1
  <2>1. Current(Advance(fs)) = Advance(fs)[Len(fs)]
    BY <1>3 DEF Current
  <2> QED BY <1>3, <2>1
<1>6. QED BY <1>1, <1>3, <1>4, <1>5

\* A move after a fetch is a move.
LEMMA MoveAfterAdvance ==
  ASSUME NEW fs \in Seq(Frame), fs # << >>, NEW n \in Nat
  PROVE  MoveTo(Advance(fs), n) = MoveTo(fs, n)
<1>1. Current(fs).ip + 1 \in Nat
  BY AdvanceType
<1>2. QED BY <1>1, MoveToTwice DEF Advance

\* Fetching an opcode and giving it back leaves the frames as they were.
LEMMA RewindAdvance ==
  ASSUME NEW fs \in Seq(Frame), fs # << >>
  PROVE  Rewind(Advance(fs)) = fs
<1>1. Current(fs).ip \in Nat /\ Current(Advance(fs)).ip = Current(fs).ip + 1
  BY AdvanceType
<1>2. Rewind(Advance(fs)) = MoveTo(Advance(fs), Current(fs).ip)
  <2>1. Current(Advance(fs)).ip - 1 = Current(fs).ip
    BY <1>1
  <2> QED BY <2>1 DEF Rewind
<1>3. QED BY <1>1, <1>2, MoveAfterAdvance, MoveToSame

-----------------------------------------------------------------------------
(***************************************************************************)
(* Valid frames, and what executing an instruction does to them.           *)
(***************************************************************************)

\* The frames of ValidFrames one by one.
LEMMA ValidFrame ==
  ASSUME NEW fs, ValidFrames(fs), NEW i \in 1 .. Len(fs)
  PROVE  /\ fs[i].fn \in Fns /\ fs[i].ip \in Nat
         /\ Boundary(fs[i].fn, fs[i].ip)
         /\ i < Len(fs) => fs[i].ip > 0
         /\ i > 1 => fs[i].fn # Main /\ fs[i].ip < Len(Code[fs[i].fn])
         /\ i = 1 => fs[i].fn = Main
<1>1. fs \in Seq(Frame) /\ Len(fs) \in Nat /\ DOMAIN fs = 1 .. Len(fs)
  BY LenProperties DEF ValidFrames
<1>2. fs[i] \in Frame
  BY <1>1, ElementOfSeq
<1>3. i < Len(fs) => i \in 1 .. Len(fs) - 1
  BY <1>1
<1>4. i > 1 => i \in 2 .. Len(fs)
  BY <1>1
<1>5. QED BY <1>1, <1>2, <1>3, <1>4 DEF ValidFrames, Frame

\* Moving the current frame to an instruction of its function keeps them valid.
LEMMA MoveToValid ==
  ASSUME NEW fs, ValidFrames(fs), NEW n \in Nat,
         Boundary(Current(fs).fn, n),
         Len(fs) > 1 => n < Len(Code[Current(fs).fn])
  PROVE  ValidFrames(MoveTo(fs, n))
<1> DEFINE gs == MoveTo(fs, n)
<1>1. fs \in Seq(Frame) /\ fs # << >> /\ fs[1].fn = Main
  BY DEF ValidFrames
<1>2. /\ gs \in Seq(Frame) /\ Len(gs) = Len(fs) /\ Len(fs) \in Nat \ {0}
      /\ \A i \in 1 .. Len(fs) - 1 : gs[i] = fs[i]
      /\ gs[Len(fs)] = [fn |-> Current(fs).fn, ip |-> n]
  BY <1>1, MoveToType
<1> HIDE DEF gs
<1>3. gs # << >> /\ DOMAIN gs = 1 .. Len(fs)
  BY <1>2, LenProperties
<1>4. \A i \in 1 .. Len(fs) : i = Len(fs) \/ (i \in 1 .. Len(fs) - 1 /\ gs[i] = fs[i])
  <2>1. Len(fs) \in Nat
    BY <1>2
  <2>2. \A i \in 1 .. Len(fs) : i = Len(fs) \/ i \in 1 .. Len(fs) - 1
    BY <2>1
  <2> QED BY <2>2, <1>2
<1>5. /\ gs[Len(fs)].fn = fs[Len(fs)].fn /\ gs[Len(fs)].ip = n
  BY <1>2 DEF Current
<1>6. \A i \in 1 .. Len(fs) : gs[i].fn = fs[i].fn
  BY <1>4, <1>5
<1>7. gs[1].fn = Main
  BY <1>1, <1>2, <1>6
<1>8. \A i \in DOMAIN gs : Boundary(gs[i].fn, gs[i].ip)
  <2>1. ASSUME NEW i \in 1 .. Len(fs) PROVE Boundary(gs[i].fn, gs[i].ip)
    <3>1. CASE i = Len(fs)
      BY <3>1, <1>5 DEF Current
    <3>2. CASE i \in 1 .. Len(fs) - 1 /\ gs[i] = fs[i]
      BY <3>2, ValidFrame
    <3> QED BY <3>1, <3>2, <1>4
  <2> QED BY <2>1, <1>3
<1>9. \A i \in 1 .. Len(gs) - 1 : gs[i].ip > 0
  BY <1>2 DEF ValidFrames
<1>10. \A i \in 2 .. Len(gs) : gs[i].fn # Main /\ gs[i].ip < Len(Code[gs[i].fn])
  <2>1. ASSUME NEW i \in 2 .. Len(fs)
        PROVE  gs[i].fn # Main /\ gs[i].ip < Len(Code[gs[i].fn])
    <3>1. i \in 1 .. Len(fs) /\ i > 1 /\ Len(fs) > 1
      BY <1>2
    <3>2. fs[i].fn # Main /\ fs[i].ip < Len(Code[fs[i].fn])
      BY <3>1, ValidFrame
    <3>3. CASE i = Len(fs)
      BY <3>1, <3>2, <3>3, <1>5 DEF Current
    <3>4. CASE gs[i] = fs[i]
      BY <3>2, <3>4
    <3> QED BY <3>1, <3>3, <3>4, <1>4
  <2> QED BY <2>1, <1>2
<1>11. ValidFrames(gs)
  BY <1>2, <1>3, <1>7, <1>8, <1>9, <1>10 DEF ValidFrames
<1>12. QED BY <1>11 DEF gs

\* So does entering a function other than Main after consuming an instruction.
LEMMA CallValid ==
  ASSUME NEW fs, ValidFrames(fs), Current(fs).ip > 0, NEW g \in Fns, g # Main
  PROVE  ValidFrames(Append(fs, NewFrame(g)))
<1> DEFINE gs == Append(fs, NewFrame(g))
<1>1. fs \in Seq(Frame) /\ fs # << >> /\ fs[1].fn = Main
  BY DEF ValidFrames
<1>2. Len(fs) \in Nat \ {0}
  BY <1>1, EmptySeq
<1>3. NewFrame(g) \in Frame /\ NewFrame(g).fn = g /\ NewFrame(g).ip = 0
  BY DEF NewFrame, Frame
<1>4. /\ gs \in Seq(Frame) /\ Len(gs) = Len(fs) + 1
      /\ \A i \in 1 .. Len(fs) : gs[i] = fs[i]
      /\ gs[Len(fs) + 1] = NewFrame(g)
  BY <1>1, <1>3, AppendProperties
<1> HIDE DEF gs
<1>5. gs # << >> /\ DOMAIN gs = 1 .. Len(fs) + 1
  BY <1>2, <1>4, LenProperties
<1>6. gs[1].fn = Main
  BY <1>1, <1>2, <1>4
<1>7. 0 < Len(Code[g]) /\ Boundary(g, 0)
  <2>1. Code[g] \in Seq(Cell) /\ Len(Code[g]) > 0 /\ Code[g][1].op # "operand"
    BY CodeAssumption
  <2>2. Len(Code[g]) \in Nat
    BY <2>1, LenProperties
  <2> QED BY <2>1, <2>2 DEF Boundary
<1>8. \A i \in DOMAIN gs : Boundary(gs[i].fn, gs[i].ip)
  <2>1. ASSUME NEW i \in 1 .. Len(fs) + 1 PROVE Boundary(gs[i].fn, gs[i].ip)
    <3>1. CASE i = Len(fs) + 1
      BY <3>1, <1>3, <1>4, <1>7
    <3>2. CASE i \in 1 .. Len(fs)
      BY <3>2, <1>4, ValidFrame
    <3> QED BY <3>1, <3>2, <1>2
  <2> QED BY <2>1, <1>5
<1>9. \A i \in 1 .. Len(gs) - 1 : gs[i].ip > 0
  <2>1. ASSUME NEW i \in 1 .. Len(fs) PROVE gs[i].ip > 0
    <3>1. gs[i] = fs[i]
      BY <1>4
    <3>2. CASE i = Len(fs)
      BY <3>1, <3>2 DEF Current
    <3>3. CASE i # Len(fs)
      <4>1. i < Len(fs)
        BY <3>3, <1>2
      <4> QED BY <4>1, <3>1, ValidFrame
    <3> QED BY <3>2, <3>3
  <2> QED BY <2>1, <1>2, <1>4
<1>10. \A i \in 2 .. Len(gs) : gs[i].fn # Main /\ gs[i].ip < Len(Code[gs[i].fn])
  <2>1. ASSUME NEW i \in 2 .. Len(fs) + 1
        PROVE  gs[i].fn # Main /\ gs[i].ip < Len(Code[gs[i].fn])
    <3>1. CASE i = Len(fs) + 1
      BY <3>1, <1>3, <1>4, <1>7
    <3>2. CASE i # Len(fs) + 1
      <4>1. i \in 1 .. Len(fs) /\ i > 1
        BY <3>2, <1>2
      <4> QED BY <4>1, <1>4, ValidFrame
    <3> QED BY <3>1, <3>2
  <2> QED BY <2>1, <1>4
<1>11. ValidFrames(gs)
  BY <1>4, <1>5, <1>6, <1>8, <1>9, <1>10 DEF ValidFrames
<1>12. QED BY <1>11 DEF gs

\* A prefix of a sequence of frames.
LEMMA PrefixProperties ==
  ASSUME NEW S, NEW s \in Seq(S), NEW n \in Nat, n <= Len(s)
  PROVE  /\ SubSeq(s, 1, n) \in Seq(S)
         /\ Len(SubSeq(s, 1, n)) = n
         /\ \A i \in 1 .. n : SubSeq(s, 1, n)[i] = s[i]
<1>1. \A i \in 1 .. n : s[i] \in S
  BY ElementOfSeq
<1>2. n \in Int /\ 1 \in Int /\ n - 1 + 1 = n
  OBVIOUS
<1>3. /\ SubSeq(s, 1, n) \in Seq(S)
      /\ Len(SubSeq(s, 1, n)) = IF 1 <= n THEN n - 1 + 1 ELSE 0
      /\ \A i \in 1 .. n - 1 + 1 : SubSeq(s, 1, n)[i] = s[1 + i - 1]
  BY <1>1, <1>2, SubSeqProperties
<1>4. Len(SubSeq(s, 1, n)) = n
  BY <1>2, <1>3
<1>5. ASSUME NEW i \in 1 .. n PROVE SubSeq(s, 1, n)[i] = s[i]
  <2>1. 1 + i - 1 = i /\ i \in 1 .. n - 1 + 1
    OBVIOUS
  <2>2. SubSeq(s, 1, n)[i] = s[1 + i - 1]
    BY <2>1, <1>3
  <2> QED BY <2>1, <2>2
<1> QED BY <1>3, <1>4, <1>5

\* And so does leaving a function, whatever had become of its frame.
LEMMA ReturnValid ==
  ASSUME NEW fs, ValidFrames(fs), Len(fs) > 1, NEW as \in Seq(Frame),
         Len(as) = Len(fs), \A i \in 1 .. Len(fs) - 1 : as[i] = fs[i]
  PROVE  /\ ValidFrames(SubSeq(as, 1, Len(as) - 1))
         /\ Len(SubSeq(as, 1, Len(as) - 1)) = Len(fs) - 1
<1> DEFINE n == Len(fs) - 1
           gs == SubSeq(as, 1, n)
<1>1. fs \in Seq(Frame) /\ Len(fs) \in Nat /\ fs[1].fn = Main
  BY LenProperties DEF ValidFrames
<1>2. n \in Nat /\ n >= 1 /\ Len(fs) = n + 1
  BY <1>1
<1> HIDE DEF n
<1>3. \A i \in 1 .. n : as[i] \in Frame /\ as[i] = fs[i]
  <2>1. \A i \in 1 .. n : i \in 1 .. Len(as) /\ i \in 1 .. Len(fs) - 1
    BY <1>2
  <2>2. \A i \in 1 .. n : as[i] \in Frame
    BY <2>1, ElementOfSeq
  <2> QED BY <2>1, <2>2
<1>4. gs \in Seq(Frame) /\ Len(gs) = n /\ \A i \in 1 .. n : gs[i] = as[i]
  <2>1. n <= Len(as)
    BY <1>2
  <2> QED BY <1>2, <2>1, PrefixProperties
<1> HIDE DEF gs
<1>5. gs # << >> /\ DOMAIN gs = 1 .. n /\ \A i \in 1 .. n : gs[i] = fs[i]
  <2>1. DOMAIN gs = 1 .. n
    BY <1>4, LenProperties
  <2>2. gs # << >>
    BY <1>2, <1>4
  <2> QED BY <1>3, <1>4, <2>1, <2>2
<1>6. \A i \in 1 .. n : i \in 1 .. Len(fs) /\ i < Len(fs)
  BY <1>2
<1>7. gs[1].fn = Main
  BY <1>1, <1>2, <1>5
<1>8. \A i \in 1 .. n : Boundary(gs[i].fn, gs[i].ip) /\ gs[i].ip > 0
  BY <1>5, <1>6, ValidFrame
<1>9. \A i \in 2 .. n : gs[i].fn # Main /\ gs[i].ip < Len(Code[gs[i].fn])
  <2>1. \A i \in 2 .. n : i \in 1 .. n /\ i > 1
    BY <1>2
  <2>2. \A i \in 2 .. n : fs[i].fn # Main /\ fs[i].ip < Len(Code[fs[i].fn])
    BY <2>1, <1>6, ValidFrame
  <2> QED BY <2>1, <2>2, <1>5
<1>10. ValidFrames(gs)
  BY <1>2, <1>4, <1>5, <1>7, <1>8, <1>9 DEF ValidFrames
<1>11. QED BY <1>2, <1>4, <1>10 DEF gs, n

\* The instruction that the machine fetches next.
Fetched(fs) == Code[Current(fs).fn][Current(fs).ip + 1]

\* Valid frames are in front of an instruction, and of one that is well formed.
LEMMA FetchValid ==
  ASSUME NEW fs, ValidFrames(fs), CanFetch(fs)
  PROVE  /\ Fetched(fs) \in Cell /\ Fetched(fs).op # "operand"
         /\ Current(fs).ip + Fetched(fs).width \in Nat \ {0}
         /\ Boundary(Current(fs).fn, Current(fs).ip + Fetched(fs).width)
         /\ Fetched(fs).op \in {"jump", "branch"} => Boundary(Current(fs).fn, Fetched(fs).to)
         /\ Fetched(fs).op \in {"jump", "branch"} => Current(fs).ip < Fetched(fs).to
         /\ Fetched(fs).op = "call" => Fetched(fs).fn \in Fns /\ Fetched(fs).fn # Main
         /\ Fetched(fs).op = "return" => Len(fs) > 1
         /\ Len(fs) > 1 /\ Fetched(fs).op # "return" =>
              Current(fs).ip + Fetched(fs).width < Len(Code[Current(fs).fn])
         /\ Len(fs) > 1 /\ Fetched(fs).op \in {"jump", "branch"} =>
              Fetched(fs).to < Len(Code[Current(fs).fn])
         /\ Len(fs) = 1 /\ Current(fs).ip + 1 = Len(Code[Current(fs).fn]) =>
              Fetched(fs).op = "pop"
<1> DEFINE f == Current(fs).fn
           k == Current(fs).ip
           c == Fetched(fs)
<1>1. fs \in Seq(Frame) /\ fs # << >> /\ Len(fs) \in Nat \ {0} /\ Len(fs) \in 1 .. Len(fs)
  <2>1. fs \in Seq(Frame) /\ fs # << >>
    BY DEF ValidFrames
  <2>2. Len(fs) \in Nat \ {0}
    BY <2>1, EmptySeq
  <2> QED BY <2>1, <2>2
<1>2. /\ f \in Fns /\ k \in Nat /\ Boundary(f, k)
      /\ Len(fs) > 1 => f # Main
      /\ Len(fs) = 1 => f = Main
  BY <1>1, ValidFrame DEF Current
<1>3. Code[f] \in Seq(Cell) /\ Len(Code[f]) \in Nat /\ k < Len(Code[f])
  <2>1. Code[f] \in Seq(Cell)
    BY <1>2, CodeAssumption
  <2> QED BY <2>1, LenProperties DEF CanFetch
<1>4. c = Code[f][k + 1] /\ c.op # "operand"
  BY <1>2, <1>3 DEF Boundary, Fetched
<1> HIDE DEF f, k, c
<1>5. k + 1 \in 1 .. Len(Code[f]) /\ k + 1 \in DOMAIN Code[f]
  <2>1. k + 1 \in 1 .. Len(Code[f])
    BY <1>2, <1>3
  <2> QED BY <1>3, <2>1, LenProperties
<1>6. c \in Cell
  BY <1>3, <1>4, <1>5, ElementOfSeq
<1>7. c.width \in Nat \ {0} /\ c.to \in Nat /\ c.fn \in Fns
  BY <1>6 DEF Cell
<1>8. k + c.width \in Nat \ {0} /\ k + 1 + c.width - 1 = k + c.width
  BY <1>2, <1>7
<1>9. /\ Boundary(f, k + 1 + c.width - 1)
      /\ c.op \in {"jump", "branch"} => Boundary(f, c.to)
      /\ c.op \in {"jump", "branch"} => c.to >= k + 1
      /\ c.op = "return" => f # Main
      /\ c.op = "call" => c.fn # Main
      /\ f = Main /\ k + 1 = Len(Code[f]) => c.op = "pop"
      /\ f # Main /\ c.op # "return" => k + 1 + c.width - 1 < Len(Code[f])
      /\ f # Main /\ c.op \in {"jump", "branch"} => c.to < Len(Code[f])
  BY <1>2, <1>4, <1>5, WellFormedCode
<1>10. Len(fs) = 1 \/ Len(fs) > 1
  <2>1. Len(fs) \in Nat \ {0}
    BY <1>1
  <2>2. \A n \in Nat \ {0} : n = 1 \/ n > 1
    OBVIOUS
  <2> QED BY <2>1, <2>2
<1>11. c.op \in {"jump", "branch"} => k < c.to
  BY <1>2, <1>7, <1>9
<1>12. QED
  BY <1>2, <1>6, <1>4, <1>7, <1>8, <1>9, <1>10, <1>11 DEF f, k, c

\* Executing an instruction of valid frames leaves valid frames.
LEMMA RunOpValid ==
  ASSUME NEW fs, ValidFrames(fs), CanFetch(fs),
         NEW r \in RunOp(Advance(fs)), r.out # "panic"
  PROVE  ValidFrames(r.frames)
<1> DEFINE as == Advance(fs)
           c == Fetched(fs)
           n == Current(fs).ip + c.width
           next == MoveTo(as, Current(as).ip + c.width - 1)
<1>1. fs \in Seq(Frame) /\ fs # << >>
  BY DEF ValidFrames
<1>2. /\ Current(fs).ip \in Nat
      /\ as \in Seq(Frame) /\ as # << >> /\ Len(as) = Len(fs) /\ Len(fs) \in Nat \ {0}
      /\ \A i \in 1 .. Len(fs) - 1 : as[i] = fs[i]
      /\ Current(as).fn = Current(fs).fn
      /\ Current(as).ip = Current(fs).ip + 1
  BY <1>1, AdvanceType
<1>3. c \in Cell /\ c.op # "operand" /\ c.width \in Nat \ {0} /\ c.to \in Nat
  BY FetchValid DEF Cell
<1>4. Code[Current(as).fn][Current(as).ip] = c
  BY <1>2 DEF Fetched
<1>5. Current(as).ip + c.width - 1 = n /\ n \in Nat \ {0}
  <2>1. Current(fs).ip \in Nat /\ Current(as).ip = Current(fs).ip + 1
    BY <1>2
  <2>2. c.width \in Nat \ {0}
    BY <1>3
  <2> HIDE DEF c
  <2> QED BY <2>1, <2>2
<1> HIDE DEF c
<1>6. next = MoveTo(fs, n)
  BY <1>1, <1>5, MoveAfterAdvance
<1>7. c.op # "return" => ValidFrames(next)
  <2>1. Boundary(Current(fs).fn, n)
    BY FetchValid DEF c
  <2>2. Len(fs) > 1 /\ c.op # "return" => n < Len(Code[Current(fs).fn])
    BY FetchValid DEF c
  <2> QED BY <1>5, <1>6, <2>1, <2>2, MoveToValid
<1>8. c.op \in {"jump", "branch"} => ValidFrames(MoveTo(as, c.to))
  <2>1. c.op \in {"jump", "branch"} =>
          /\ Boundary(Current(fs).fn, c.to)
          /\ Len(fs) > 1 => c.to < Len(Code[Current(fs).fn])
    BY FetchValid DEF c
  <2> QED BY <1>1, <1>3, <2>1, MoveToValid, MoveAfterAdvance
<1>9. Current(next).ip = n
  <2>1. /\ Len(MoveTo(fs, n)) = Len(fs)
        /\ MoveTo(fs, n)[Len(fs)] = [fn |-> Current(fs).fn, ip |-> n]
    BY <1>1, <1>5, MoveToType
  <2> QED BY <1>6, <2>1 DEF Current
<1>10. c.op \in {"plain", "pop", "risky", "call", "return", "jump", "branch"}
  BY <1>3 DEF Cell, Ops
<1>11. RunOp(as) =
         CASE c.op \in {"plain", "pop"} -> {Outcome(next, "ok")}
           [] c.op = "risky"  -> {Outcome(next, "ok"), Outcome(next, "error")}
           [] c.op = "call"   -> IF Len(as) < MaxFrames
                                 THEN {Outcome(Append(next, NewFrame(c.fn)), "ok")}
                                 ELSE {Outcome(as, "panic")}
           [] c.op = "return" -> {Outcome(SubSeq(as, 1, Len(as) - 1), "ok")}
           [] c.op = "jump"   -> {Outcome(MoveTo(as, c.to), "ok")}
           [] c.op = "branch" -> {Outcome(next, "ok"), Outcome(MoveTo(as, c.to), "ok")}
  BY <1>4 DEF RunOp
<1> HIDE DEF next, as, n
<1>12. CASE c.op \in {"plain", "pop", "risky"}
  <2>1. r.frames = next
    BY <1>11, <1>12 DEF Outcome, as
  <2> QED BY <1>7, <1>12, <2>1
<1>13. CASE c.op = "call"
  <2>1. r.frames = Append(next, NewFrame(c.fn))
    BY <1>11, <1>13 DEF Outcome, as
  <2>2. c.fn \in Fns /\ c.fn # Main
    BY <1>13, FetchValid DEF c
  <2>3. Current(next).ip > 0
    BY <1>5, <1>9
  <2> QED BY <1>7, <1>13, <2>1, <2>2, <2>3, CallValid
<1>14. CASE c.op = "return"
  <2>1. r.frames = SubSeq(as, 1, Len(as) - 1)
    BY <1>11, <1>14 DEF Outcome, as
  <2>2. Len(fs) > 1
    BY <1>14, FetchValid DEF c
  <2> QED BY <1>2, <2>1, <2>2, ReturnValid
<1>15. CASE c.op \in {"jump", "branch"}
  <2>1. r.frames = next \/ r.frames = MoveTo(as, c.to)
    BY <1>11, <1>15 DEF Outcome, as
  <2> QED BY <1>7, <1>8, <1>15, <2>1
<1>16. QED BY <1>10, <1>12, <1>13, <1>14, <1>15

-----------------------------------------------------------------------------
(***************************************************************************)
(* Lines of the machine's position.                                        *)
(***************************************************************************)

\* The position of the machine is a line or NoLine.
LEMMA SourceLocationType ==
  ASSUME NEW fs \in Seq(Frame), fs # << >>,
         Current(fs).ip \in 0 .. Len(Code[Current(fs).fn])
  PROVE  SourceLocation(fs) \in Nat \cup {NoLine}
<1>1. Current(fs).fn \in Fns
  BY MoveToType DEF Frame
<1>2. Lines[Current(fs).fn][Current(fs).ip] \in Nat \cup {NoLine}
  BY <1>1, LinesType
<1>3. QED BY <1>2 DEF SourceLocation

\* It is one at rest and with an opcode fetched.
LEMMA LocationsValid ==
  ASSUME NEW fs, ValidFrames(fs)
  PROVE  /\ SourceLocation(fs) \in Nat \cup {NoLine}
         /\ CanFetch(fs) => SourceLocation(Advance(fs)) \in Nat \cup {NoLine}
<1>1. fs \in Seq(Frame) /\ fs # << >>
  BY DEF ValidFrames
<1>2. Current(fs).fn \in Fns /\ Boundary(Current(fs).fn, Current(fs).ip)
  <2>1. Len(fs) \in Nat \ {0} /\ Len(fs) \in 1 .. Len(fs)
    BY <1>1, EmptySeq
  <2> QED BY <2>1, ValidFrame DEF Current
<1>3. SourceLocation(fs) \in Nat \cup {NoLine}
  BY <1>1, <1>2, SourceLocationType DEF Boundary
<1>4. ASSUME CanFetch(fs) PROVE SourceLocation(Advance(fs)) \in Nat \cup {NoLine}
  <2>1. /\ Advance(fs) \in Seq(Frame) /\ Advance(fs) # << >>
        /\ Current(Advance(fs)).fn = Current(fs).fn
        /\ Current(Advance(fs)).ip = Current(fs).ip + 1
    BY <1>1, AdvanceType
  <2>2. Current(fs).ip + 1 \in 0 .. Len(Code[Current(fs).fn])
    <3>1. /\ Current(fs).ip \in 0 .. Len(Code[Current(fs).fn])
          /\ Current(fs).ip < Len(Code[Current(fs).fn])
      BY <1>2, <1>4 DEF Boundary, CanFetch
    <3>2. Len(Code[Current(fs).fn]) \in Nat
      BY <1>2, CodeAssumption, LenProperties
    <3> QED BY <3>1, <3>2
  <2> QED BY <2>1, <2>2, SourceLocationType
<1>5. QED BY <1>3, <1>4

\* So is the line of each frame of a stack trace.
LEMMA FrameLineType ==
  ASSUME ValidFrames(frames), NEW i \in DOMAIN frames
  PROVE  FrameLine(i) \in Nat \cup {NoLine}
<1> DEFINE top == Current(frames)
           back == top.ip > 1 /\ Code[top.fn][top.ip - 1].op = "pop"
           f == frames[i].fn
           k == frames[i].ip
<1>1. frames \in Seq(Frame) /\ Len(frames) \in Nat /\ i \in 1 .. Len(frames)
  BY LenProperties DEF ValidFrames
<1>2. /\ f \in Fns /\ k \in Nat /\ Boundary(f, k)
      /\ i < Len(frames) => k > 0
  BY <1>1, ValidFrame
<1>3. k \in 0 .. Len(Code[f]) /\ Len(Code[f]) \in Nat
  BY <1>2, CodeAssumption, LenProperties DEF Boundary
<1>4. back => k - 1 \in 0 .. Len(Code[f])
  <2>1. CASE i = Len(frames)
    <3>1. back => k > 1
      BY <2>1 DEF Current
    <3> HIDE DEF back, k
    <3> QED BY <1>2, <1>3, <3>1
  <2>2. CASE i # Len(frames)
    <3>1. k > 0
      BY <1>1, <1>2, <2>2
    <3> HIDE DEF back, k
    <3> QED BY <1>3, <3>1
  <2> QED BY <2>1, <2>2
<1>5. FrameLine(i) = Lines[f][IF back THEN k - 1 ELSE k]
  BY DEF FrameLine, SourceLocationInFrame
<1> HIDE DEF back, f, k
<1>6. QED BY <1>2, <1>3, <1>4, <1>5, LinesType

-----------------------------------------------------------------------------
(***************************************************************************)
(* Stopping.                                                               *)
(***************************************************************************)

\* The last instruction of Main is one byte long and has no effect on frames.
LEMMA LastInstruction ==
  ASSUME NEW fs, ValidFrames(fs), CanFetch(fs), VMState(Advance(fs)) = "DONE"
  PROVE  /\ ValidFrames(Advance(fs))
         /\ Outcome(Advance(fs), "ok") \in RunOp(Advance(fs))
<1> DEFINE as == Advance(fs)
           k == Current(fs).ip
           c == Fetched(fs)
<1>1. fs \in Seq(Frame) /\ fs # << >> /\ fs[1].fn = Main
  BY DEF ValidFrames
<1>2. /\ as \in Seq(Frame) /\ as # << >> /\ Len(as) = Len(fs) /\ Len(fs) \in Nat \ {0}
      /\ Current(as).fn = Current(fs).fn
      /\ Current(as).ip = k + 1
      /\ k \in Nat
  BY <1>1, AdvanceType
<1>3. Len(fs) = 1 /\ k + 1 = Len(Code[Main])
  <2>1. ~(Len(as) > 1) /\ Current(as).ip = Len(Code[Main])
    BY DEF VMState
  <2>2. Len(as) \in Nat \ {0}
    BY <1>2
  <2>3. \A n \in Nat \ {0} : n > 1 \/ n = 1
    OBVIOUS
  <2>4. Len(as) = 1
    BY <2>1, <2>2, <2>3
  <2> QED BY <1>2, <2>1, <2>4
<1>4. Current(fs).fn = Main
  BY <1>1, <1>3 DEF Current
<1>5. /\ c.op = "pop" /\ c.width \in Nat \ {0}
      /\ Boundary(Main, k + c.width)
  <2>1. c \in Cell /\ Boundary(Main, k + c.width) /\ c.op = "pop"
    BY <1>3, <1>4, FetchValid
  <2> QED BY <2>1 DEF Cell
<1>6. c.width = 1
  <2>1. k + c.width <= k + 1
    BY <1>3, <1>5 DEF Boundary
  <2> HIDE DEF c, k
  <2> QED BY <1>2, <1>5, <2>1
<1>7. ValidFrames(as)
  <2>1. Boundary(Current(fs).fn, k + 1) /\ ~(Len(fs) > 1)
    BY <1>3, <1>4, <1>5, <1>6
  <2>2. k + 1 \in Nat
    BY <1>2
  <2> QED BY <2>1, <2>2, MoveToValid DEF Advance
<1>8. Outcome(as, "ok") \in RunOp(as)
  <2>1. Code[Current(as).fn][Current(as).ip] = c
    BY <1>2 DEF Fetched
  <2>2. MoveTo(as, Current(as).ip + c.width - 1) = as
    <3>1. Current(as).ip + c.width - 1 = Current(as).ip
      BY <1>2, <1>6
    <3> QED BY <1>2, <3>1, MoveToSame
  <2> HIDE DEF as, c
  <2> QED BY <1>5, <2>1, <2>2 DEF RunOp
<1>9. QED BY <1>7, <1>8

\* A stop gives the opcode back, or has executed the last instruction of Main.
LEMMA StopFramesValid ==
  ASSUME NEW fs, ValidFrames(fs), CanFetch(fs)
  PROVE  /\ ValidFrames(StopFrames(Advance(fs)))
         /\ \/ StopFrames(Advance(fs)) = fs
            \/ /\ StopFrames(Advance(fs)) = Advance(fs)
               /\ VMState(Advance(fs)) = "DONE"
               /\ Outcome(Advance(fs), "ok") \in RunOp(Advance(fs))
<1>1. fs \in Seq(Frame) /\ fs # << >>
  BY DEF ValidFrames
<1>2. CASE IsStep /\ VMState(Advance(fs)) = "DONE"
  BY <1>2, LastInstruction DEF StopFrames
<1>3. CASE ~(IsStep /\ VMState(Advance(fs)) = "DONE")
  BY <1>1, <1>3, RewindAdvance DEF StopFrames
<1>4. QED BY <1>2, <1>3

-----------------------------------------------------------------------------
(***************************************************************************)
(* The inductive invariant: type correctness and valid frames.             *)
(***************************************************************************)

\* The runs that the commands start have the type of a run.
LEMMA RunTyped ==
  ASSUME NEW op \in RunOps, NEW line \in Nat, NEW depth \in Nat,
         NEW bps \in SUBSET BreakLines, NEW leaving \in BOOLEAN
  PROVE  /\ Run(op, line, depth, bps, leaving) \in RunType
         /\ Run(op, line, depth, bps, leaving).op = op
BY DEF Run, RunType

\* A step's run is typed where there is a machine with a line.
LEMMA StepFromTyped ==
  ASSUME IInv, CanStep, NEW op \in RunOps, NEW bps \in SUBSET BreakLines,
         NEW leaving \in BOOLEAN
  PROVE  StepFrom(op, bps, leaving) \in RunType /\ StepFrom(op, bps, leaving).op = op
<1>1. ValidFrames(frames) /\ frames \in Seq(Frame) /\ frames # << >>
  BY DEF IInv, CanStep, ValidFrames
<1>2. SourceLocation(frames) \in Nat
  BY <1>1, LocationsValid DEF CanStep
<1>3. CallDepth(frames) \in Nat
  <2>1. Len(frames) \in Nat \ {0}
    BY <1>1, EmptySeq
  <2> QED BY <2>1 DEF CallDepth
<1>4. QED
  <2> DEFINE line == SourceLocation(frames)
             depth == CallDepth(frames)
  <2>1. line \in Nat /\ depth \in Nat
    BY <1>2, <1>3
  <2>2. StepFrom(op, bps, leaving) = Run(op, line, depth, bps, leaving)
    BY DEF StepFrom
  <2> HIDE DEF line, depth
  <2> QED BY <2>1, <2>2, RunTyped

\* A command that returns keeps the types of cmd and result.
LEMMA ReturnsTyped ==
  ASSUME IInv, NEW err \in BOOLEAN, NEW hit \in BOOLEAN, Returns(err, hit)
  PROVE  /\ cmd' \in RunType
         /\ result' \in [run : RunType, err : BOOLEAN, hit : BOOLEAN]
<1>1. /\ cmd \in RunType
      /\ result \in [run : RunType, err : BOOLEAN, hit : BOOLEAN]
  BY DEF IInv, TypeOK
<1>2. cmd.bps \in SUBSET BreakLines
  BY <1>1 DEF RunType
<1>3. RunFor(cmd.bps) \in RunType
  BY <1>2, RunTyped DEF RunFor, RunOps
<1>4. NoRun \in RunType
  BY RunTyped DEF NoRun, RunOps
<1>5. [run |-> cmd, err |-> err, hit |-> hit] \in [run : RunType, err : BOOLEAN, hit : BOOLEAN]
  BY <1>1
<1>6. QED BY <1>1, <1>3, <1>4, <1>5 DEF Returns

\* A command that starts a run on a machine keeps the invariant.
LEMMA StartsKeepsIInv ==
  ASSUME IInv, frames # << >>, NEW run \in RunType, Starts(run)
  PROVE  IInv'
<1> USE DEF Starts, vmVars
<1>1. TypeOK'
  BY DEF IInv, TypeOK
<1>2. ValidFrames(frames)'
  BY DEF IInv, ValidFrames
<1>3. frames' # << >>
  OBVIOUS
<1>4. QED BY <1>1, <1>2, <1>3 DEF IInv

\* A panic changes nothing else.
LEMMA DiesKeepsIInv ==
  ASSUME IInv, Dies
  PROVE  IInv'
<1> USE DEF Dies, Panic, driverVars
<1>1. TypeOK'
  BY DEF IInv, TypeOK
<1>2. QED BY <1>1 DEF IInv, ValidFrames

\* The invariant holds of the initial state.
LEMMA InitIInv == Init => IInv
<1> SUFFICES ASSUME Init PROVE IInv
  OBVIOUS
<1>1. NoRun \in RunType /\ NoRun.op = "none"
  BY RunTyped DEF NoRun, RunOps
<1>2. TypeOK
  <2>1. frames \in Seq(Frame) /\ debugFrames \in Seq([fn : Fns, line : Nat])
    BY EmptySeq DEF Init, VMInit
  <2>2. result \in [run : RunType, err : BOOLEAN, hit : BOOLEAN]
    BY <1>1 DEF Init, NoResult
  <2> QED BY <1>1, <2>1, <2>2 DEF Init, VMInit, TypeOK
<1>3. QED BY <1>1, <1>2 DEF Init, VMInit, NoResult, IInv

\* Every step keeps it.
LEMMA NextIInv == IInv /\ [Next]_vars => IInv'
<1> SUFFICES ASSUME IInv, [Next]_vars PROVE IInv'
  OBVIOUS
<1>1. ASSUME NEW lines \in SUBSET BreakLines, SetBreakPoints(lines) PROVE IInv'
  BY <1>1 DEF SetBreakPoints, IInv, TypeOK, ValidFrames, vmVars
<1>2. ASSUME NEW ok \in Compiles, StartVM(ok) PROVE IInv'
  <2> USE DEF StartVM, Load, vmVars
  <2>1. CASE ok
    <3>1. /\ frames' = <<NewFrame(Main)>> /\ NewFrame(Main) \in Frame
          /\ NewFrame(Main).fn = Main /\ NewFrame(Main).ip = 0
      BY <1>2, <2>1, CodeAssumption DEF NewFrame, Frame
    <3>2. frames' \in Seq(Frame) /\ Len(frames') = 1 /\ frames'[1] = NewFrame(Main)
      BY <3>1
    <3>3. Boundary(Main, 0)
      <4>1. Code[Main] \in Seq(Cell) /\ Code[Main][1].op # "operand"
        BY CodeAssumption
      <4>2. Len(Code[Main]) \in Nat
        BY <4>1, LenProperties
      <4>3. 0 \in 0 .. Len(Code[Main])
        BY <4>2
      <4> QED BY <4>1, <4>3 DEF Boundary
    <3>4. ValidFrames(frames')
      <4>1. frames' # << >> /\ DOMAIN frames' = 1 .. 1
        <5>1. frames' # << >>
          BY <3>1
        <5>2. DOMAIN frames' = 1 .. 1
          BY <3>2, LenProperties
        <5> QED BY <5>1, <5>2
      <4>2. 1 .. Len(frames') - 1 = {} /\ 2 .. Len(frames') = {}
        BY <3>2
      <4> QED BY <3>1, <3>2, <3>3, <4>1, <4>2 DEF ValidFrames
    <3>5. TypeOK'
      BY <1>2, <2>1, <3>2 DEF IInv, TypeOK
    <3> QED BY <3>2, <3>4, <3>5 DEF IInv, ValidFrames
  <2>2. CASE ~ok
    BY <1>2, <2>2 DEF IInv, TypeOK, ValidFrames
  <2> QED BY <2>1, <2>2
<1>3. ASSUME StepOver PROVE IInv'
  BY <1>3, StepFromTyped, StartsKeepsIInv, DiesKeepsIInv DEF StepOver, CanStep, RunOps
<1>4. ASSUME StepInto PROVE IInv'
  BY <1>4, StepFromTyped, StartsKeepsIInv, DiesKeepsIInv DEF StepInto, CanStep, RunOps
<1>5. ASSUME StepOut PROVE IInv'
  <2>1. CASE frames = << >> /\ Dies
    BY <2>1, DiesKeepsIInv
  <2>2. CASE frames # << >> /\ Starts(Run("out", 0, CallDepth(frames), {}, FALSE))
    <3>1. CallDepth(frames) \in Nat
      <4>1. Len(frames) \in Nat \ {0}
        BY <2>2, EmptySeq DEF IInv, TypeOK
      <4> QED BY <4>1 DEF CallDepth
    <3>2. Run("out", 0, CallDepth(frames), {}, FALSE) \in RunType
      BY <3>1, RunTyped DEF RunOps
    <3> QED BY <2>2, <3>2, StartsKeepsIInv
  <2> QED BY <1>5, <2>1, <2>2 DEF StepOut, OutDepth
<1>6. ASSUME RunWithBreakpoints PROVE IInv'
  <2>1. breakpoints \in SUBSET BreakLines
    BY DEF IInv, TypeOK
  <2>2. CASE Dies
    BY <2>2, DiesKeepsIInv
  <2>3. CASE CanStep /\ Starts(StepFrom("over", breakpoints, TRUE))
    BY <2>1, <2>3, StepFromTyped, StartsKeepsIInv DEF CanStep, RunOps
  <2>4. CASE frames # << >> /\ Starts(RunFor(breakpoints))
    <3>1. RunFor(breakpoints) \in RunType
      BY <2>1, RunTyped DEF RunFor, RunOps
    <3> QED BY <2>4, <3>1, StartsKeepsIInv
  <2> QED BY <1>6, <2>2, <2>3, <2>4 DEF RunWithBreakpoints
<1>7. ASSUME NEW line \in UntilLines, RunUntilBreakPoint(line) PROVE IInv'
  <2>1. line \in Nat
    BY DriverAssumption
  <2>2. Run("until", line, 0, {}, FALSE) \in RunType
    BY <2>1, RunTyped DEF RunOps
  <2> QED BY <1>7, <2>2, StartsKeepsIInv DEF RunUntilBreakPoint
<1>8. ASSUME CollectFrames PROVE IInv'
  <2>1. CASE Dies
    BY <2>1, DiesKeepsIInv
  <2>2. CASE ~Dies
    <3> DEFINE shown == [i \in DOMAIN frames |-> [fn |-> frames[i].fn, line |-> FrameLine(i)]]
    <3>1. /\ ~(\E i \in DOMAIN frames : FrameLine(i) = NoLine)
          /\ debugFrames' = shown
          /\ UNCHANGED <<vmVars, hasErrors, breakpoints, stoppedOnBreakpoint, cmd, result>>
          /\ ValidFrames(frames)
      BY <1>8, <2>2 DEF CollectFrames, IInv
    <3>2. Len(frames) \in Nat /\ DOMAIN frames = 1 .. Len(frames)
      BY <3>1, LenProperties DEF ValidFrames
    <3>3. \A i \in 1 .. Len(frames) : frames[i].fn \in Fns /\ FrameLine(i) \in Nat
      BY <3>1, <3>2, ValidFrame, FrameLineType
    <3>4. shown \in [1 .. Len(frames) -> [fn : Fns, line : Nat]]
      BY <3>2, <3>3
    <3> HIDE DEF shown
    <3>5. shown \in Seq([fn : Fns, line : Nat])
      <4>1. shown \in UNION {[1 .. n -> [fn : Fns, line : Nat]] : n \in Nat}
        BY <3>2, <3>4
      <4> QED BY <4>1, SeqDef, Zenon
    <3> QED BY <3>1, <3>5 DEF vmVars, IInv, TypeOK, ValidFrames
  <2> QED BY <2>1, <2>2
<1>9. ASSUME RunsOut PROVE IInv'
  <2>1. /\ frames # << >> /\ cmd \in RunType
        /\ Returns(FALSE, FALSE) /\ stoppedOnBreakpoint' \in BOOLEAN
        /\ UNCHANGED <<vmVars, hasErrors, breakpoints, debugFrames>>
    BY <1>9 DEF RunsOut, FlagAfter, Running, IInv, TypeOK
  <2>2. /\ cmd' \in RunType
        /\ result' \in [run : RunType, err : BOOLEAN, hit : BOOLEAN]
    BY <2>1, ReturnsTyped
  <2> QED BY <2>1, <2>2 DEF vmVars, IInv, TypeOK, ValidFrames
<1>10. ASSUME LosesLocation PROVE IInv'
  BY <1>10, DiesKeepsIInv DEF LosesLocation
<1>11. ASSUME Stops PROVE IInv'
  <2>1. /\ frames # << >> /\ CanFetch(frames) /\ ValidFrames(frames)
        /\ frames' = StopFrames(Advance(frames))
        /\ Returns(FALSE, TRUE) /\ stoppedOnBreakpoint' \in BOOLEAN
        /\ UNCHANGED <<corrupt, crashed, hasErrors, breakpoints, debugFrames>>
    BY <1>11 DEF Stops, FlagAfter, Running, IInv, TypeOK
  <2>2. /\ cmd' \in RunType
        /\ result' \in [run : RunType, err : BOOLEAN, hit : BOOLEAN]
    BY <2>1, ReturnsTyped
  <2>3. ValidFrames(frames')
    BY <2>1, StopFramesValid
  <2>4. frames' \in Seq(Frame) /\ frames' # << >>
    BY <2>3 DEF ValidFrames
  <2>5. TypeOK'
    BY <2>1, <2>2, <2>4 DEF IInv, TypeOK
  <2> QED BY <2>3, <2>4, <2>5 DEF IInv, ValidFrames
<1>12. ASSUME Executes PROVE IInv'
  <2>1. CASE Dies
    BY <2>1, DiesKeepsIInv
  <2>2. CASE ~Dies
    <3>1. frames # << >> /\ CanFetch(frames) /\ ValidFrames(frames)
      BY <1>12 DEF Executes, Running, IInv
    <3>2. PICK r \in RunOp(Advance(frames)) :
            /\ r.out # "panic"
            /\ frames' = r.frames
            /\ corrupt' = (corrupt \/ r.out = "error")
            /\ hasErrors' = (hasErrors \/ r.out = "error")
            /\ stoppedOnBreakpoint' = (stoppedOnBreakpoint /\ cmd.op # "run")
            /\ IF r.out = "error" THEN Returns(TRUE, FALSE) ELSE UNCHANGED <<cmd, result>>
            /\ UNCHANGED <<crashed, breakpoints, debugFrames>>
      BY <1>12, <2>2 DEF Executes
    <3>3. ValidFrames(frames')
      BY <3>1, <3>2, RunOpValid
    <3>4. frames' \in Seq(Frame) /\ frames' # << >>
      BY <3>3 DEF ValidFrames
    <3>5. /\ cmd' \in RunType
          /\ result' \in [run : RunType, err : BOOLEAN, hit : BOOLEAN]
      BY <3>2, ReturnsTyped DEF IInv, TypeOK
    <3>6. TypeOK'
      BY <3>2, <3>4, <3>5 DEF IInv, TypeOK
    <3> QED BY <3>3, <3>4, <3>6 DEF IInv, ValidFrames
  <2> QED BY <2>1, <2>2
<1>13. ASSUME UNCHANGED vars PROVE IInv'
  BY <1>13 DEF vars, IInv, TypeOK, ValidFrames
<1>14. QED
  BY <1>1, <1>2, <1>3, <1>4, <1>5, <1>6, <1>7, <1>8, <1>9, <1>10, <1>11, <1>12, <1>13
     DEF Next, Iterate

THEOREM InvariantHolds == Spec => []IInv
BY InitIInv, NextIInv, PTL DEF Spec

\* The fields of the driver and of the run in progress keep their types.
THEOREM TypeCorrect == Spec => []TypeOK
<1>1. IInv => TypeOK
  BY DEF IInv
<1>2. QED BY <1>1, InvariantHolds, PTL

(***************************************************************************)
(* Whatever the commands, every frame is left between two instructions:    *)
(* the machine never executes an operand as an opcode.                     *)
(***************************************************************************)
THEOREM FramesOnBoundary == Spec => []OnBoundary
<1>1. IInv => OnBoundary
  <2>1. ASSUME frames = << >> PROVE OnBoundary
    BY <2>1 DEF OnBoundary
  <2>2. ASSUME ValidFrames(frames) PROVE OnBoundary
    BY <2>2 DEF OnBoundary, ValidFrames
  <2> QED BY <2>1, <2>2 DEF IInv
<1>2. QED BY <1>1, InvariantHolds, PTL

-----------------------------------------------------------------------------
(***************************************************************************)
(* The driver implements the undisturbed machine.                          *)
(***************************************************************************)

\* Every step of the driver is a step of the machine, or leaves it as it is.
LEMMA StepTransparent ==
  ASSUME IInv, [Next]_vars
  PROVE  [VMNext]_vmVars
<1>1. ASSUME UNCHANGED vmVars PROVE [VMNext]_vmVars
  BY <1>1
<1>2. ASSUME Dies, ~crashed PROVE [VMNext]_vmVars
  BY <1>2 DEF Dies, VMNext
<1>3. ASSUME NEW ok \in Compiles, StartVM(ok) PROVE [VMNext]_vmVars
  BY <1>3 DEF StartVM, Idle, VMNext
<1>4. ASSUME NEW run, Starts(run) PROVE [VMNext]_vmVars
  BY <1>4 DEF Starts
<1>5. ASSUME Stops PROVE [VMNext]_vmVars
  <2>1. /\ ~crashed /\ frames # << >> /\ CanFetch(frames) /\ ValidFrames(frames)
        /\ frames' = StopFrames(Advance(frames))
        /\ UNCHANGED <<corrupt, crashed>>
    BY <1>5 DEF Stops, Running, IInv
  <2>2. CASE frames' = frames
    BY <2>1, <2>2 DEF vmVars
  <2>3. CASE frames' = Advance(frames) /\ Outcome(Advance(frames), "ok") \in RunOp(Advance(frames))
    <3> DEFINE r == Outcome(Advance(frames), "ok")
    <3>1. r.out = "ok" /\ r.frames = Advance(frames)
      BY DEF Outcome
    <3>2. r \in RunOp(Advance(frames))
      BY <2>3
    <3> HIDE DEF r
    <3>3. corrupt \in BOOLEAN /\ corrupt' = (corrupt \/ r.out = "error")
      BY <2>1, <3>1 DEF IInv, TypeOK
    <3>4. Execute
      BY <2>1, <2>3, <3>1, <3>2, <3>3 DEF Execute
    <3> QED BY <2>1, <3>4 DEF VMNext
  <2> QED BY <2>1, <2>2, <2>3, StopFramesValid
<1>6. ASSUME Executes PROVE [VMNext]_vmVars
  <2>1. ~crashed /\ frames # << >> /\ CanFetch(frames)
    BY <1>6 DEF Executes, Running, IInv
  <2>2. CASE Dies
    BY <1>2, <2>1, <2>2
  <2>3. CASE ~Dies
    <3>1. Execute
      BY <1>6, <2>1, <2>3 DEF Executes, Execute
    <3> QED BY <2>1, <3>1 DEF VMNext
  <2> QED BY <2>2, <2>3
<1>7. QED
  <2>1. ASSUME \/ \E lines \in SUBSET BreakLines : SetBreakPoints(lines)
               \/ RunsOut \/ UNCHANGED vars
        PROVE  UNCHANGED vmVars
    BY <2>1 DEF SetBreakPoints, RunsOut, vars, vmVars
  <2>2. ASSUME StepOver \/ StepInto \/ StepOut \/ RunWithBreakpoints
               \/ \E line \in UntilLines : RunUntilBreakPoint(line)
        PROVE  ~crashed /\ (Dies \/ \E run : Starts(run))
    BY <2>2 DEF StepOver, StepInto, StepOut, RunWithBreakpoints, RunUntilBreakPoint, Idle
  <2>3. ASSUME CollectFrames PROVE UNCHANGED vmVars \/ (~crashed /\ Dies)
    BY <2>3 DEF CollectFrames, Idle
  <2>4. ASSUME LosesLocation PROVE ~crashed /\ Dies
    BY <2>4 DEF LosesLocation, Running
  <2> QED
    BY <1>1, <1>2, <1>3, <1>4, <1>5, <1>6, <2>1, <2>2, <2>3, <2>4 DEF Next, Iterate

(***************************************************************************)
(* Debugging is transparent: under any sequence of commands, for any       *)
(* program, the machine executes the instructions it would execute without *)
(* a debugger.                                                             *)
(***************************************************************************)
THEOREM DebuggingIsTransparent == Spec => Transparent
<1>1. Init => VMInit
  BY DEF Init
<1>2. IInv /\ [Next]_vars => [VMNext]_vmVars
  BY StepTransparent
<1>3. QED BY <1>1, <1>2, InvariantHolds, PTL DEF Spec, VMSpec, Transparent
=============================================================================

------------------------- MODULE MockRuntimeProofs -------------------------
(***************************************************************************)
(* Theorems about MockRuntime, for any files, users, breakpoints and       *)
(* requests: types, one stop for a command, no breakpoint passed, and the  *)
(* instruction and the addresses that follow the line.                     *)
(***************************************************************************)
EXTENDS MockRuntime, FiniteSetTheorems, SequenceTheorems, WellFoundedInduction, TLAPS

-----------------------------------------------------------------------------
(***************************************************************************)
(* Numbers: what Min and Max choose.                                       *)
(***************************************************************************)
LEMMA LeastNatural ==
  ASSUME NEW S \in SUBSET Nat, S # {}
  PROVE  \E m \in S : \A k \in S : m <= k
<1> DEFINE below == {0 .. k : k \in S}
<1>1. IsWellFoundedOn(StrictSubsetOrdering(Nat), FiniteSubsetsOf(Nat))
  BY FS_StrictSubsetOrderingWellFounded
<1>2. below \subseteq FiniteSubsetsOf(Nat)
  <2>1. \A k \in Nat : IsFiniteSet(0 .. k) /\ 0 .. k \in SUBSET Nat
    BY FS_Interval
  <2> QED BY <2>1 DEF FiniteSubsetsOf
<1>3. below # {}
  OBVIOUS
<1>4. \E x \in below : \A y \in below : ~ (<<y, x>> \in StrictSubsetOrdering(Nat))
  <2> HIDE DEF below
  <2> QED BY <1>1, <1>2, <1>3, WFMin
<1>5. PICK m \in S : \A k \in S : ~ (<<0 .. k, 0 .. m>> \in StrictSubsetOrdering(Nat))
  BY <1>4
<1>6. ASSUME NEW k \in S PROVE m <= k
  <2>1. ASSUME k < m PROVE FALSE
    <3>1. 0 .. k \in SUBSET Nat /\ 0 .. m \in SUBSET Nat
      OBVIOUS
    <3>2. 0 .. k \subseteq 0 .. m
      BY <2>1
    <3>3. m \in 0 .. m /\ m \notin 0 .. k
      BY <2>1
    <3> QED BY <1>5, <3>1, <3>2, <3>3 DEF StrictSubsetOrdering
  <2> QED BY <2>1
<1>7. QED BY <1>6

LEMMA MinOfInterval ==
  ASSUME NEW a \in Int, NEW b \in Int, NEW S \in SUBSET (a .. b), S # {}
  PROVE  Min(S) \in S /\ \A k \in S : Min(S) <= k
<1> DEFINE shifted == {k - a : k \in S}
<1>1. shifted \in SUBSET Nat /\ shifted # {}
  OBVIOUS
<1>2. PICK m \in shifted : \A k \in shifted : m <= k
  <2> HIDE DEF shifted
  <2> QED BY <1>1, LeastNatural
<1>3. PICK n \in S : m = n - a
  BY <1>2
<1>4. ASSUME NEW k \in S PROVE n <= k
  <2>1. k - a \in shifted
    OBVIOUS
  <2>2. m <= k - a
    <3> HIDE DEF shifted
    <3> QED BY <1>2, <2>1
  <2>3. k \in Int /\ n \in Int
    BY <1>3
  <2> QED BY <1>3, <2>2, <2>3
<1>5. QED BY <1>4 DEF Min

LEMMA MaxOfInterval ==
  ASSUME NEW a \in Int, NEW b \in Int, NEW S \in SUBSET (a .. b), S # {}
  PROVE  Max(S) \in S /\ \A k \in S : Max(S) >= k
<1> DEFINE shifted == {b - k : k \in S}
<1>1. shifted \in SUBSET Nat /\ shifted # {}
  OBVIOUS
<1>2. PICK m \in shifted : \A k \in shifted : m <= k
  <2> HIDE DEF shifted
  <2> QED BY <1>1, LeastNatural
<1>3. PICK n \in S : m = b - n
  BY <1>2
<1>4. \A k \in S : n >= k
  BY <1>2, <1>3
<1>5. QED BY <1>4 DEF Max

LEMMA OfTwo ==
  ASSUME NEW a \in Int, NEW b \in Int
  PROVE  /\ Min({a, b}) = IF a <= b THEN a ELSE b
         /\ Max({a, b}) = IF a <= b THEN b ELSE a
<1>1. PICK m \in {a, b} : \A y \in {a, b} : m <= y
  OBVIOUS
<1>2. PICK n \in {a, b} : \A y \in {a, b} : n >= y
  OBVIOUS
<1>3. Min({a, b}) \in {a, b} /\ \A y \in {a, b} : Min({a, b}) <= y
  BY <1>1 DEF Min
<1>4. Max({a, b}) \in {a, b} /\ \A y \in {a, b} : Max({a, b}) >= y
  BY <1>2 DEF Max
<1>5. QED BY <1>3, <1>4

LEMMA MaxOfFinite ==
  ASSUME NEW S \in SUBSET Nat, IsFiniteSet(S), S # {}
  PROVE  Max(S) \in S /\ \A k \in S : Max(S) >= k
<1> DEFINE unbounded == {T \in SUBSET S : T # {} /\ ~\E m \in T : \A k \in T : m >= k}
<1>1. CASE unbounded = {}
  <2>1. S \notin unbounded
    BY <1>1
  <2>2. \E m \in S : \A k \in S : m >= k
    BY <2>1
  <2> QED BY <2>2 DEF Max
<1>2. CASE unbounded # {}
  <2>1. IsWellFoundedOn(StrictSubsetOrdering(S), FiniteSubsetsOf(S))
    BY FS_StrictSubsetOrderingWellFounded
  <2>2. unbounded \subseteq FiniteSubsetsOf(S)
    BY FS_FiniteSubsetsOfFinite
  <2>3. PICK T \in unbounded : \A U \in unbounded : ~ (<<U, T>> \in StrictSubsetOrdering(S))
    <3> HIDE DEF unbounded
    <3> QED BY <1>2, <2>1, <2>2, WFMin
  <2>4. PICK x \in T : TRUE
    BY <2>3
  <2> DEFINE U == T \ {x}
  <2>5. U \notin unbounded
    <3>1. U \in SUBSET S /\ T \in SUBSET S /\ U \subseteq T /\ U # T
      BY <2>3, <2>4
    <3> QED BY <2>3, <3>1 DEF StrictSubsetOrdering
  <2>6. CASE U = {}
    <3>1. T = {x} /\ x \in Nat
      BY <2>3, <2>4, <2>6
    <3> QED BY <2>3, <3>1
  <2>7. CASE U # {}
    <3>1. PICK m \in U : \A k \in U : m >= k
      BY <2>3, <2>5, <2>7
    <3>2. CASE m >= x
      BY <2>3, <3>1, <3>2
    <3>3. CASE ~(m >= x)
      <4>1. \A k \in T : x >= k
        BY <2>3, <2>4, <3>1, <3>3
      <4> QED BY <2>3, <2>4, <4>1
    <3> QED BY <3>2, <3>3
  <2> QED BY <2>6, <2>7
<1>3. QED BY <1>1, <1>2

(***************************************************************************)
(* Sequences.                                                              *)
(***************************************************************************)
\* What RemoveAt leaves: the elements before the index, and those after it one earlier.
LEMMA Removed ==
  ASSUME NEW T, NEW s \in Seq(T), NEW i \in DOMAIN s
  PROVE  /\ RemoveAt(s, i) \in Seq(T) /\ Len(RemoveAt(s, i)) = Len(s) - 1
         /\ \A k \in 1 .. Len(s) - 1 : RemoveAt(s, i)[k] = IF k < i THEN s[k] ELSE s[k + 1]
<1> DEFINE front == SubSeq(s, 1, i - 1)
           back == SubSeq(s, i + 1, Len(s))
<1>1. i \in 1 .. Len(s) /\ Len(s) \in Nat /\ i \in Int
  OBVIOUS
<1>2. front \in Seq(T) /\ Len(front) = i - 1 /\ \A k \in 1 .. i - 1 : front[k] = s[k]
  BY <1>1
<1>3. /\ back \in Seq(T) /\ Len(back) = Len(s) - i
      /\ \A k \in 1 .. Len(s) - i : back[k] = s[i + k]
  BY <1>1
<1>4. RemoveAt(s, i) = front \o back
  BY DEF RemoveAt
<1> HIDE DEF front, back
<1>5. /\ front \o back \in Seq(T) /\ Len(front \o back) = (i - 1) + (Len(s) - i)
      /\ \A k \in 1 .. (i - 1) + (Len(s) - i) :
           (front \o back)[k] = IF k <= i - 1 THEN front[k] ELSE back[k - (i - 1)]
  <2>1. /\ front \o back \in Seq(T) /\ Len(front \o back) = Len(front) + Len(back)
        /\ \A k \in 1 .. Len(front) + Len(back) : (front \o back)[k] =
             IF k <= Len(front) THEN front[k] ELSE back[k - Len(front)]
    BY <1>2, <1>3, ConcatProperties
  <2>2. Len(front) = i - 1 /\ Len(back) = Len(s) - i
    BY <1>2, <1>3
  <2> QED BY <2>1, <2>2, ZenonT(30)
<1>6. (i - 1) + (Len(s) - i) = Len(s) - 1
  BY <1>1
<1>7. ASSUME NEW k \in 1 .. Len(s) - 1
      PROVE  (front \o back)[k] = IF k < i THEN s[k] ELSE s[k + 1]
  <2>1. (front \o back)[k] = IF k <= i - 1 THEN front[k] ELSE back[k - (i - 1)]
    BY <1>1, <1>2, <1>3, <1>5, <1>6
  <2>2. CASE k < i
    BY <1>1, <1>2, <2>1, <2>2
  <2>3. CASE ~(k < i)
    <3>1. k - (i - 1) \in 1 .. Len(s) - i /\ i + (k - (i - 1)) = k + 1
      BY <1>1, <2>3
    <3> QED BY <1>1, <1>3, <2>1, <2>3, <3>1
  <2> QED BY <2>2, <2>3
<1>8. QED BY <1>4, <1>5, <1>6, <1>7

\* The image of a finite set.
LEMMA FiniteImage ==
  ASSUME NEW S, IsFiniteSet(S), NEW T, NEW f \in [S -> T], \A y \in T : \E x \in S : f[x] = y
  PROVE  IsFiniteSet(T)
<1>1. f \in Surjection(S, T)
  BY DEF Surjection
<1>2. QED BY <1>1, FS_Surjection

-----------------------------------------------------------------------------
(***************************************************************************)
(* Lines and their words.                                                  *)
(***************************************************************************)
Lines == {lines \in Seq(Line) : ~(Len(lines) > 0 /\ lines[1].kind = "minus" /\ lines[1].lazy)}

LEMMA FilesHaveLines ==
  /\ \A f \in Files : Text[f] \in Lines /\ Len(Text[f]) > 0
  /\ loaded \in Files \cup {"none"} => SourceLines \in Lines
<1>1. \A f \in Files : Text[f] \in Lines /\ Len(Text[f]) > 0
  BY RuntimeAssumption DEF Lines
<1>2. ASSUME loaded = "none" PROVE SourceLines \in Lines
  BY <1>2 DEF SourceLines, Lines
<1>3. ASSUME loaded \in Files PROVE SourceLines \in Lines
  BY <1>1, <1>2, <1>3 DEF SourceLines
<1>4. QED BY <1>1, <1>2, <1>3

LEMMA WordsAreFinite ==
  ASSUME loaded \in Files \cup {"none"}
  PROVE  /\ IsFiniteSet(Words)
         /\ \A word \in Words : word[1] \in DOMAIN SourceLines
                                /\ word[2] \in DOMAIN SourceLines[word[1]].words
<1>1. SourceLines \in Seq(Line)
  BY FilesHaveLines DEF Lines
<1>2. DOMAIN SourceLines = 1 .. Len(SourceLines) /\ IsFiniteSet(DOMAIN SourceLines)
  BY <1>1, FS_Interval
<1> DEFINE of == [ln \in DOMAIN SourceLines |-> {ln} \X DOMAIN SourceLines[ln].words]
<1>3. ASSUME NEW ln \in DOMAIN SourceLines PROVE IsFiniteSet(of[ln])
  <2>1. SourceLines[ln] \in Line
    BY <1>1
  <2>2. SourceLines[ln].words \in Seq([at : Nat, size : Nat \ {0}])
    BY <2>1 DEF Line
  <2>3. /\ DOMAIN SourceLines[ln].words = 1 .. Len(SourceLines[ln].words)
        /\ Len(SourceLines[ln].words) \in Nat
    BY <2>2
  <2>4. IsFiniteSet(DOMAIN SourceLines[ln].words)
    BY <2>3, FS_Interval
  <2>5. IsFiniteSet({ln})
    BY FS_Singleton
  <2> QED BY <2>4, <2>5, FS_Product
<1> DEFINE all == {of[ln] : ln \in DOMAIN SourceLines}
<1>4. of \in [DOMAIN SourceLines -> all] /\ \A y \in all : \E ln \in DOMAIN SourceLines : of[ln] = y
  OBVIOUS
<1>5. Words = UNION all
  BY DEF Words
<1>6. ASSUME NEW word \in Words
      PROVE  word[1] \in DOMAIN SourceLines /\ word[2] \in DOMAIN SourceLines[word[1]].words
  BY DEF Words
<1>7. \A y \in all : IsFiniteSet(y)
  <2> HIDE DEF of
  <2> QED BY <1>3
<1>8. IsFiniteSet(UNION all)
  <2> HIDE DEF of, all
  <2>1. IsFiniteSet(all)
    BY <1>2, <1>4, FiniteImage
  <2> QED BY <1>7, <2>1, FS_UNION
<1>9. QED BY <1>5, <1>6, <1>8

\* How many words there are before a line and after it.
LEMMA WordsAreCounted ==
  ASSUME loaded \in Files \cup {"none"}
  PROVE  /\ \A ln \in Nat : /\ Starts(ln) \in Nat /\ Ends(ln) \in Nat /\ Starts(ln) <= Ends(ln)
                            /\ Ends(ln) = Starts(ln + 1)
         /\ Starts(1) = 0
         /\ \A ln \in DOMAIN SourceLines : SourceLines[ln].words = << >> => Ends(ln) = Starts(ln)
<1> DEFINE before(ln) == {word \in Words : word[1] < ln}
           upTo(ln) == {word \in Words : word[1] <= ln}
<1>1. /\ IsFiniteSet(Words)
      /\ \A word \in Words : /\ word[1] \in DOMAIN SourceLines
                             /\ word[2] \in DOMAIN SourceLines[word[1]].words
  BY WordsAreFinite
<1>2. DOMAIN SourceLines = 1 .. Len(SourceLines) /\ Len(SourceLines) \in Nat
  BY FilesHaveLines DEF Lines
<1>3. \A word \in Words : word[1] \in Nat /\ word[1] >= 1
  BY <1>1, <1>2
<1>4. ASSUME NEW ln \in Nat
      PROVE  /\ Starts(ln) \in Nat /\ Ends(ln) \in Nat /\ Starts(ln) <= Ends(ln)
             /\ Ends(ln) = Starts(ln + 1)
  <2>1. IsFiniteSet(upTo(ln)) /\ IsFiniteSet(before(ln))
    BY <1>1, FS_Subset
  <2>2. before(ln) \in SUBSET upTo(ln)
    BY <1>3
  <2>3. upTo(ln) = before(ln + 1)
    BY <1>3
  <2>4. Cardinality(before(ln)) <= Cardinality(upTo(ln))
    BY <2>1, <2>2, FS_Subset
  <2>5. Cardinality(before(ln)) \in Nat /\ Cardinality(upTo(ln)) \in Nat
    BY <2>1, FS_CardinalityType
  <2> QED BY <2>3, <2>4, <2>5 DEF Starts, Ends
<1>5. Starts(1) = 0
  <2>1. before(1) = {}
    BY <1>3
  <2> QED BY <2>1, FS_EmptySet DEF Starts
<1>6. ASSUME NEW ln \in DOMAIN SourceLines, SourceLines[ln].words = << >>
      PROVE  Ends(ln) = Starts(ln)
  <2>1. ln \in Nat
    BY <1>2
  <2>2. \A word \in Words : word[1] # ln
    BY <1>1, <1>6
  <2>3. before(ln) = upTo(ln)
    BY <1>3, <2>1, <2>2
  <2> QED BY <2>3 DEF Starts, Ends
<1>7. QED BY <1>4, <1>5, <1>6

\* They change only with the file.
LEMMA SameLines ==
  loaded' = loaded => SourceLines' = SourceLines /\ \A ln : Starts(ln)' = Starts(ln) /\ Ends(ln)' = Ends(ln)
BY DEF SourceLines, Starts, Ends, Words

-----------------------------------------------------------------------------
(***************************************************************************)
(* Breakpoints.  One that is not verified is on a line from 1 on: only a   *)
(* verified one can have been moved up from the first line.                *)
(***************************************************************************)
Settled == {bp \in Breakpoint : bp.verified \/ bp.line >= 1}

LEMMA VerifySettles ==
  ASSUME NEW lines \in Lines, NEW bp \in Settled
  PROVE  Verify(lines, bp) \in Settled
<1>1. bp \in Breakpoint /\ bp.line \in Nat /\ lines \in Seq(Line)
  BY DEF Settled, Breakpoint, Lines
<1>2. CASE bp.verified \/ bp.line > Len(lines)
  BY <1>2 DEF Verify
<1>3. CASE ~(bp.verified \/ bp.line > Len(lines))
  <2>1. bp.line \in DOMAIN lines /\ bp.line >= 1 /\ Len(lines) > 0
    BY <1>1, <1>3 DEF Settled
  <2>2. PICK line : line = lines[bp.line]
    OBVIOUS
  <2>3. line \in Line
    BY <1>1, <2>1, <2>2
  <2>4. line.kind \in {"text", "empty", "plus", "minus"} /\ line.lazy \in BOOLEAN
    BY <2>3 DEF Line
  <2>5. line.kind = "minus" /\ line.lazy => bp.line # 1
    BY <2>1, <2>2 DEF Lines
  <2> DEFINE there == CASE line.kind \in {"empty", "plus"} -> bp.line + 1
                        [] line.kind = "minus" -> bp.line - 1
                        [] line.kind = "text" -> bp.line
  <2>6. there \in Nat /\ (line.lazy => there >= 1)
    BY <1>1, <2>1, <2>4, <2>5
  <2>7. Verify(lines, bp) = [bp EXCEPT !.verified = ~line.lazy, !.line = there]
    BY <1>3, <2>2 DEF Verify
  <2> HIDE DEF there
  <2>8. Verify(lines, bp) \in Breakpoint
    BY <1>1, <2>4, <2>6, <2>7 DEF Breakpoint
  <2>9. Verify(lines, bp).verified = ~line.lazy /\ Verify(lines, bp).line = there
    BY <1>1, <2>7 DEF Breakpoint
  <2>10. QED BY <2>4, <2>6, <2>8, <2>9 DEF Settled
<1>4. QED BY <1>2, <1>3

LEMMA VerifyAllSettles ==
  ASSUME NEW lines \in Lines, NEW bps \in Seq(Settled)
  PROVE  VerifyAll(lines, bps) \in Seq(Settled) /\ Len(VerifyAll(lines, bps)) = Len(bps)
<1>1. DOMAIN bps = 1 .. Len(bps) /\ Len(bps) \in Nat
  OBVIOUS
<1>2. \A i \in 1 .. Len(bps) : Verify(lines, bps[i]) \in Settled
  BY VerifySettles
<1>3. QED BY <1>1, <1>2 DEF VerifyAll

\* The passes of a verification that is repeated: there is a first, and each settles.
LEMMA VerifyTimesSettles ==
  ASSUME NEW lines \in Lines, NEW bps \in Seq(Settled), NEW n \in Nat
  PROVE  VerifyTimes(lines, bps, n) \in Seq(Settled) /\ Len(VerifyTimes(lines, bps, n)) = Len(bps)
<1> DEFINE Passes(f, m) ==
             f = [k \in 0 .. m |-> IF k = 0 THEN bps ELSE VerifyAll(lines, f[k - 1])]
           missing == {m \in Nat : ~\E f : Passes(f, m)}
<1>1. missing = {}
  <2>1. SUFFICES ASSUME missing # {} PROVE FALSE
    OBVIOUS
  <2>2. PICK m \in missing : \A k \in missing : m <= k
    <3>1. missing \in SUBSET Nat
      OBVIOUS
    <3> HIDE DEF missing
    <3> QED BY <2>1, <3>1, LeastNatural
  <2>3. CASE m = 0
    <3>1. Passes([k \in 0 .. 0 |-> bps], 0)
      OBVIOUS
    <3> QED BY <2>2, <2>3, <3>1
  <2>4. CASE m # 0
    <3>1. m - 1 \in Nat /\ m \in Nat /\ ~(m <= m - 1)
      BY <2>2, <2>4
    <3>2. m - 1 \notin missing
      <4> HIDE DEF missing
      <4> QED BY <2>2, <3>1
    <3>3. PICK f : Passes(f, m - 1)
      BY <3>1, <3>2
    <3> DEFINE g == [k \in 0 .. m |-> IF k = m THEN VerifyAll(lines, f[m - 1]) ELSE f[k]]
    <3>4. ASSUME NEW k \in 0 .. m
          PROVE  g[k] = IF k = 0 THEN bps ELSE VerifyAll(lines, g[k - 1])
      <4>1. CASE k = m
        <5>1. k - 1 \in 0 .. m /\ k - 1 # m /\ k # 0
          BY <2>4, <3>1, <4>1
        <5>2. g[k - 1] = f[m - 1] /\ g[k] = VerifyAll(lines, f[m - 1])
          BY <4>1, <5>1
        <5> QED BY <5>1, <5>2
      <4>2. CASE k # m
        <5>1. k \in 0 .. m - 1 /\ g[k] = f[k]
          BY <3>1, <4>2
        <5>2. f[k] = IF k = 0 THEN bps ELSE VerifyAll(lines, f[k - 1])
          BY <3>3, <5>1
        <5>3. k # 0 => k - 1 \in 0 .. m /\ k - 1 # m /\ g[k - 1] = f[k - 1]
          BY <3>1, <5>1
        <5> QED BY <5>1, <5>2, <5>3
      <4> QED BY <4>1, <4>2
    <3>5. Passes(g, m)
      <4>1. g = [k \in 0 .. m |-> g[k]]
        OBVIOUS
      <4> HIDE DEF g
      <4> QED BY <3>4, <4>1
    <3> HIDE DEF g, Passes
    <3> QED BY <2>2, <3>5
  <2> QED BY <2>3, <2>4
<1> DEFINE pass == CHOOSE f : Passes(f, n)
<1>2. Passes(pass, n)
  <2>1. \E f : Passes(f, n)
    BY <1>1
  <2> HIDE DEF Passes
  <2> QED BY <2>1
<1>3. VerifyTimes(lines, bps, n) = pass[n]
  BY DEF VerifyTimes
<1> HIDE DEF pass, missing
<1>4. \A k \in 0 .. n : pass[k] = IF k = 0 THEN bps ELSE VerifyAll(lines, pass[k - 1])
  BY <1>2
<1> DEFINE wrong == {k \in 0 .. n : ~(pass[k] \in Seq(Settled) /\ Len(pass[k]) = Len(bps))}
<1>5. wrong = {}
  <2>1. SUFFICES ASSUME wrong # {} PROVE FALSE
    OBVIOUS
  <2>2. PICK m \in wrong : \A k \in wrong : m <= k
    <3>1. wrong \in SUBSET Nat
      OBVIOUS
    <3> HIDE DEF wrong
    <3> QED BY <2>1, <3>1, LeastNatural
  <2>3. m # 0
    BY <1>4, <2>2
  <2>4. m - 1 \in 0 .. n /\ m - 1 \notin wrong
    BY <2>2, <2>3
  <2>5. pass[m - 1] \in Seq(Settled) /\ Len(pass[m - 1]) = Len(bps)
    BY <2>4
  <2>6. VerifyAll(lines, pass[m - 1]) \in Seq(Settled)
        /\ Len(VerifyAll(lines, pass[m - 1])) = Len(bps)
    BY <2>5, VerifyAllSettles
  <2>7. pass[m] = VerifyAll(lines, pass[m - 1])
    BY <1>4, <2>2, <2>3
  <2> QED BY <2>2, <2>6, <2>7
<1>6. QED BY <1>3, <1>5

LEMMA TellSettles ==
  ASSUME NEW bps \in Seq(Settled), NEW indices
  PROVE  Tell(bps, indices) \in Seq(Settled)
<1>1. DOMAIN bps = 1 .. Len(bps) /\ Len(bps) \in Nat
  OBVIOUS
<1>2. ASSUME NEW bp \in Settled PROVE [bp EXCEPT !.told = bp.line] \in Settled
  BY DEF Settled, Breakpoint
<1>3. \A i \in 1 .. Len(bps) :
        (IF i \in indices THEN [bps[i] EXCEPT !.told = bps[i].line] ELSE bps[i]) \in Settled
  BY <1>2
<1>4. QED BY <1>1, <1>3 DEF Tell

LEMMA NewSettles ==
  ASSUME NEW lines \in Requested
  PROVE  /\ Len(lines) \in Nat
         /\ [i \in DOMAIN lines |-> NewBreakpoint(lines[i])] \in Seq(Settled)
<1>1. ASSUME NEW line \in BreakLines PROVE NewBreakpoint(line) \in Settled
  BY RuntimeAssumption DEF NewBreakpoint, Settled, Breakpoint
<1>2. lines \in Seq(BreakLines)
  <2>1. /\ << >> \in Seq(BreakLines)
        /\ \A l, k \in BreakLines : <<l>> \in Seq(BreakLines) /\ <<l, k>> \in Seq(BreakLines)
    OBVIOUS
  <2>2. CASE lines \in BreakLines \X BreakLines
    <3>1. PICK l \in BreakLines, k \in BreakLines : lines = <<l, k>>
      BY <2>2
    <3> QED BY <2>1, <3>1
  <2> QED BY <2>1, <2>2 DEF Requested
<1>3. DOMAIN lines = 1 .. Len(lines) /\ Len(lines) \in Nat
  BY <1>2
<1>4. \A i \in 1 .. Len(lines) : NewBreakpoint(lines[i]) \in Settled
  BY <1>1, <1>2
<1>5. QED BY <1>3, <1>4

\* The first breakpoint on a line, if there is one.
LEMMA FirstOnLine ==
  ASSUME NEW bps \in Seq(Settled), NEW ln
  PROVE  IF \E i \in DOMAIN bps : bps[i].line = ln
         THEN FirstOn(bps, ln) \in DOMAIN bps /\ bps[FirstOn(bps, ln)].line = ln
         ELSE FirstOn(bps, ln) = 0
<1> DEFINE on == {i \in 1 .. Len(bps) : bps[i].line = ln}
<1>1. DOMAIN bps = 1 .. Len(bps) /\ Len(bps) \in Nat /\ 0 \notin DOMAIN bps
  OBVIOUS
<1>2. FirstOn(bps, ln) = IF on # {} THEN Min(on) ELSE 0
  BY DEF FirstOn, SelectInSeq
<1>3. ASSUME on # {} PROVE Min(on) \in on
  <2>1. on \in SUBSET (1 .. Len(bps)) /\ 1 \in Int /\ Len(bps) \in Int /\ on # {}
    BY <1>3
  <2> HIDE DEF on
  <2> QED BY <2>1, MinOfInterval
<1>4. QED BY <1>1, <1>2, <1>3

-----------------------------------------------------------------------------
(***************************************************************************)
(* Types.  They rest on one another: a breakpoint is verified against      *)
(* lines, a command moves within them, and what it moves by is counted in  *)
(* their words.                                                            *)
(***************************************************************************)
Reads == [file : Files,
          waiter : [verifies : BOOLEAN, starts : {"no", "entry", "debug", "noDebug"}]]
Runs == [op : {"none", "fineStep", "entry", "start", "continue", "step"}, reverse : BOOLEAN,
         phase : Phases, from : Nat, first : Int]

SourceTypes ==
  /\ sourceFile \in Files \cup {"none"} /\ loaded \in Files \cup {"none"} /\ reads \in Seq(Reads)
PositionTypes == currentLine \in Nat \ {0} /\ instruction \in Int
ColumnTypes == currentColumn = {} \/ \E c \in -Underrun .. Longest + 1 : currentColumn = {c}
BreakTypes == breakPoints \in [Files -> Seq(Settled)]
RequestTypes ==
  /\ user \in Users /\ started \in BOOLEAN
  /\ instructionBreakpoints \subseteq Addresses
  /\ breakAddresses \in [Names -> SUBSET {"read", "write"}]
  /\ exceptionFilters \in Filters \cup {{}}
RunTypes ==
  run \in Runs /\ sent \in Seq(StopEvents) /\ thrown \in BOOLEAN
TypeInv ==
  /\ SourceTypes /\ PositionTypes /\ ColumnTypes /\ BreakTypes /\ RequestTypes /\ RunTypes
  /\ variables \subseteq Names

\* The requests that only set or clear breakpoints of the current file.
Configures ==
  /\ Idle
  /\ UNCHANGED <<sourceVars, positionVars, variables, run, sent, thrown>>

LEMMA Kinds ==
  [Next]_vars =>
    \/ \E file \in Files, lines \in Requested : SetBreakPoints(file, lines)
    \/ Configures
    \/ \E how \in {"entry", "debug", "noDebug"} : Start(how)
    \/ \E i \in DOMAIN reads : ReadDone(i)
    \/ \E op \in {"continue", "step"}, reverse \in BOOLEAN : Begin(op, reverse)
    \/ StepsAtOnce
    \/ Running
    \/ UNCHANGED vars
<1> SUFFICES ASSUME [Next]_vars
             PROVE  \/ \E file \in Files, lines \in Requested : SetBreakPoints(file, lines)
                    \/ Configures
                    \/ \E how \in {"entry", "debug", "noDebug"} : Start(how)
                    \/ \E i \in DOMAIN reads : ReadDone(i)
                    \/ \E op \in {"continue", "step"}, reverse \in BOOLEAN : Begin(op, reverse)
                    \/ StepsAtOnce
                    \/ Running
                    \/ UNCHANGED vars
  OBVIOUS
<1>1. ASSUME NEW line \in BreakLines, AddBreakpoint(line) \/ ClearBreakPoint(line)
      PROVE  Configures
  BY <1>1 DEF AddBreakpoint, ClearBreakPoint, Configures
<1>2. ASSUME NEW addresses, SetInstructionBreakpoints(addresses) PROVE Configures
  BY <1>2 DEF SetInstructionBreakpoints, OnlyBreakVars, Configures
<1>3. ASSUME NEW name, NEW types, SetDataBreakpoints(name, types) PROVE Configures
  BY <1>3 DEF SetDataBreakpoints, OnlyBreakVars, Configures
<1>4. ASSUME NEW filters, SetExceptionBreakpoints(filters) PROVE Configures
  BY <1>4 DEF SetExceptionBreakpoints, OnlyBreakVars, Configures
<1>5. ASSUME Continue \/ ReverseContinue \/ Step \/ StepBack
      PROVE  \E op \in {"continue", "step"}, reverse \in BOOLEAN : Begin(op, reverse)
  BY <1>5 DEF Continue, ReverseContinue, Step, StepBack
<1>6. ASSUME StepInstruction(1) \/ StepInstruction(-1) \/ StepInTarget \/ StepIn \/ StepOut
      PROVE  StepsAtOnce
  BY <1>6 DEF StepInstruction, StepInTarget, StepIn, StepOut
<1>7. QED BY <1>1, <1>2, <1>3, <1>4, <1>5, <1>6 DEF Next

\* One launch at a time, and no command before it: until then the runtime is at the
\* beginning, and after it there is a file.
LaunchInv ==
  /\ ~Launched => Idle /\ currentLine = 1 /\ instruction = 0
  /\ started => sourceFile # "none"
  /\ \A i \in DOMAIN reads :
       reads[i].waiter.starts # "no" =>
         started /\ \A j \in DOMAIN reads : reads[j].waiter.starts # "no" => j = i

LEMMA ReadForgotten ==
  ASSUME SourceTypes, NEW file
  PROVE  /\ Forget(file) \in Seq(Reads) /\ Len(Forget(file)) = Len(reads)
         /\ \A i \in DOMAIN reads : Forget(file)[i].waiter.starts = reads[i].waiter.starts
                                    /\ Forget(file)[i].file = reads[i].file
<1>1. reads \in Seq(Reads) /\ DOMAIN reads = 1 .. Len(reads) /\ Len(reads) \in Nat
  BY DEF SourceTypes
<1> DEFINE after(i) == IF reads[i].file = file THEN [reads[i] EXCEPT !.waiter.verifies = FALSE]
                       ELSE reads[i]
<1>2. ASSUME NEW i \in 1 .. Len(reads)
      PROVE  after(i) \in Reads /\ after(i).waiter.starts = reads[i].waiter.starts
             /\ after(i).file = reads[i].file
  <2>1. reads[i] \in Reads
    BY <1>1
  <2> QED BY <2>1 DEF Reads
<1>3. Forget(file) = [i \in 1 .. Len(reads) |-> after(i)]
  BY <1>1 DEF Forget
<1> HIDE DEF after
<1>4. QED BY <1>1, <1>2, <1>3

LEMMA ReadBegun ==
  ASSUME NEW outstanding \in Seq(Reads), NEW file \in Files, NEW verifies \in BOOLEAN,
         NEW starts \in {"no", "entry", "debug", "noDebug"},
         LoadSource(outstanding, file, Waiter(verifies, starts))
  PROVE  /\ reads' \in Seq(Reads) /\ sourceFile' = file /\ Len(reads') = Len(outstanding) + 1
         /\ \A i \in 1 .. Len(outstanding) : reads'[i] = outstanding[i]
         /\ reads'[Len(outstanding) + 1].waiter.starts = starts
         /\ reads'[Len(outstanding) + 1].file = file
<1>1. PICK read : read = Read(file, Waiter(verifies, starts))
  OBVIOUS
<1>2. read \in Reads /\ read.waiter.starts = starts /\ read.file = file
  BY <1>1 DEF Read, Reads, Waiter
<1>3. reads' = Append(outstanding, read) /\ sourceFile' = file
  BY <1>1 DEF LoadSource
<1>4. QED BY <1>2, <1>3

LEMMA SourceStep == SourceTypes /\ [Next]_vars => SourceTypes'
<1> SUFFICES ASSUME SourceTypes, [Next]_vars PROVE SourceTypes'
  OBVIOUS
<1>1. CASE UNCHANGED sourceVars
  BY <1>1 DEF sourceVars, SourceTypes
<1>2. ASSUME NEW file \in Files, NEW lines, SetBreakPoints(file, lines)
      PROVE  SourceTypes'
  <2>1. Forget(file) \in Seq(Reads)
    BY ReadForgotten
  <2>2. CASE LoadSource(Forget(file), file, Waiter(TRUE, "no"))
    <3>1. reads' \in Seq(Reads) /\ sourceFile' = file
      BY <2>1, <2>2, ReadBegun
    <3> QED BY <1>2, <3>1 DEF SetBreakPoints, SourceTypes
  <2>3. CASE reads' = Forget(file) /\ UNCHANGED sourceFile
    BY <1>2, <2>1, <2>3 DEF SetBreakPoints, SourceTypes
  <2>4. QED BY <1>2, <2>2, <2>3 DEF SetBreakPoints
<1>3. ASSUME NEW how \in {"entry", "debug", "noDebug"}, Start(how)
      PROVE  SourceTypes'
  <2>1. CASE LoadSource(reads, Program, Waiter(FALSE, how))
    <3>1. reads' \in Seq(Reads) /\ sourceFile' = Program
      BY <2>1, ReadBegun, RuntimeAssumption DEF SourceTypes
    <3> QED BY <1>3, <3>1, RuntimeAssumption DEF Start, SourceTypes
  <2>2. CASE UNCHANGED <<sourceFile, reads>>
    BY <1>3, <2>2 DEF Start, SourceTypes
  <2>3. QED BY <1>3, <2>1, <2>2 DEF Start
<1>4. ASSUME NEW i \in DOMAIN reads, ReadDone(i)
      PROVE  SourceTypes'
  <2>1. loaded' = reads[i].file /\ reads' = RemoveAt(reads, i) /\ sourceFile' = sourceFile
    BY <1>4 DEF ReadDone, InitializeContents
  <2>2. reads' \in Seq(Reads) /\ reads[i] \in Reads
    BY <2>1, Removed DEF SourceTypes
  <2>3. QED BY <2>1, <2>2 DEF SourceTypes, Reads
<1>5. CASE Running
  BY <1>1, <1>5 DEF Running, ExecuteLine, ExecuteNoLine, UpdateCurrentLine, FindNextStatement
<1>6. QED
  BY <1>1, <1>2, <1>3, <1>4, <1>5, Kinds DEF Configures, Begin, StepsAtOnce, vars

\* Reads that nobody launches with come and go without a trace.
LEMMA LaunchUndisturbed ==
  ASSUME SourceTypes, SourceTypes', LaunchInv, UNCHANGED <<started, run, currentLine, instruction>>,
         started => sourceFile' # "none", Len(reads) <= Len(reads'),
         \A i \in DOMAIN reads : reads'[i].waiter.starts = reads[i].waiter.starts,
         \A i \in DOMAIN reads' : i \in DOMAIN reads \/ reads'[i].waiter.starts = "no"
  PROVE  LaunchInv'
<1>1. /\ DOMAIN reads = 1 .. Len(reads) /\ DOMAIN reads' = 1 .. Len(reads')
      /\ Len(reads) \in Nat /\ Len(reads') \in Nat
  BY DEF SourceTypes
<1>2. \A i \in DOMAIN reads' :
        reads'[i].waiter.starts # "no" => i \in DOMAIN reads /\ reads[i].waiter.starts # "no"
  BY <1>1
<1>3. ~Launched' => ~Launched
  BY <1>2 DEF Launched
<1>4. QED BY <1>2, <1>3 DEF LaunchInv, Idle

LEMMA LaunchStep == SourceTypes /\ LaunchInv /\ [Next]_vars => LaunchInv'
<1> SUFFICES ASSUME SourceTypes, LaunchInv, [Next]_vars PROVE LaunchInv'
  OBVIOUS
<1>1. SourceTypes'
  BY SourceStep
<1>2. /\ reads \in Seq(Reads) /\ DOMAIN reads = 1 .. Len(reads) /\ Len(reads) \in Nat
      /\ "none" \notin Files /\ Program \in Files
  BY RuntimeAssumption DEF SourceTypes
<1>3. CASE UNCHANGED <<sourceVars, positionVars, run>>
  BY <1>3 DEF sourceVars, positionVars, LaunchInv, Launched, Idle
<1>4. ASSUME NEW file \in Files, NEW lines, SetBreakPoints(file, lines)
      PROVE  LaunchInv'
  <2>1. UNCHANGED <<started, run, currentLine, instruction>>
    BY <1>4 DEF SetBreakPoints, positionVars
  <2>2. /\ Forget(file) \in Seq(Reads) /\ Len(Forget(file)) = Len(reads)
        /\ \A i \in DOMAIN reads : Forget(file)[i].waiter.starts = reads[i].waiter.starts
    BY ReadForgotten
  <2>3. CASE LoadSource(Forget(file), file, Waiter(TRUE, "no"))
    <3>1. /\ sourceFile' = file /\ Len(reads') = Len(reads) + 1
          /\ \A i \in 1 .. Len(reads) : reads'[i] = Forget(file)[i]
          /\ reads'[Len(reads) + 1].waiter.starts = "no"
      BY <2>2, <2>3, ReadBegun
    <3>2. /\ \A i \in DOMAIN reads : reads'[i].waiter.starts = reads[i].waiter.starts
          /\ \A i \in DOMAIN reads' : i \in DOMAIN reads \/ i = Len(reads) + 1
      BY <1>1, <1>2, <2>2, <3>1 DEF SourceTypes
    <3> QED BY <1>1, <1>2, <2>1, <3>1, <3>2, LaunchUndisturbed
  <2>4. CASE reads' = Forget(file) /\ UNCHANGED sourceFile
    <3>1. DOMAIN reads' = DOMAIN reads
      BY <1>1, <1>2, <2>2, <2>4 DEF SourceTypes
    <3>2. started => sourceFile' # "none"
      BY <2>4 DEF LaunchInv
    <3> QED BY <1>1, <1>2, <2>1, <2>2, <2>4, <3>1, <3>2, LaunchUndisturbed
  <2>5. QED BY <1>4, <2>3, <2>4 DEF SetBreakPoints
<1>5. ASSUME NEW how \in {"entry", "debug", "noDebug"}, Start(how)
      PROVE  LaunchInv'
  <2>1. started' = TRUE /\ ~started /\ UNCHANGED <<currentLine, instruction>>
    BY <1>5 DEF Start, positionVars
  <2>2. \A i \in DOMAIN reads : reads[i].waiter.starts = "no"
    BY <2>1 DEF LaunchInv
  <2>3. CASE LoadSource(reads, Program, Waiter(FALSE, how)) /\ UNCHANGED run
    <3>1. /\ sourceFile' = Program /\ Len(reads') = Len(reads) + 1
          /\ \A i \in 1 .. Len(reads) : reads'[i] = reads[i]
      BY <1>2, <2>3, ReadBegun
    <3>2. \A i \in DOMAIN reads' : i = Len(reads) + 1 \/ reads'[i].waiter.starts = "no"
      BY <1>1, <1>2, <2>2, <3>1 DEF SourceTypes
    <3>3. Idle' /\ currentLine' = 1 /\ instruction' = 0
      BY <2>1, <2>3 DEF LaunchInv, Launched, Idle
    <3> QED BY <1>2, <2>1, <3>1, <3>2, <3>3 DEF LaunchInv
  <2>4. CASE UNCHANGED <<sourceFile, reads>> /\ IsCurrent(Program)
    <3>1. Launched' /\ sourceFile' # "none"
      BY <1>2, <2>1, <2>2, <2>4 DEF Launched, IsCurrent
    <3> QED BY <2>2, <2>4, <3>1 DEF LaunchInv
  <2>5. QED BY <1>5, <2>3, <2>4 DEF Start
<1>6. ASSUME NEW i \in DOMAIN reads, ReadDone(i)
      PROVE  LaunchInv'
  <2>1. /\ reads' = RemoveAt(reads, i) /\ sourceFile' = sourceFile
        /\ UNCHANGED <<started, currentLine, instruction>>
    BY <1>6 DEF ReadDone, InitializeContents, positionVars
  <2>2. /\ DOMAIN reads' = 1 .. Len(reads) - 1
        /\ \A k \in DOMAIN reads' : reads'[k] = IF k < i THEN reads[k] ELSE reads[k + 1]
    <3>1. /\ RemoveAt(reads, i) \in Seq(Reads) /\ Len(RemoveAt(reads, i)) = Len(reads) - 1
          /\ \A k \in 1 .. Len(reads) - 1 :
               RemoveAt(reads, i)[k] = IF k < i THEN reads[k] ELSE reads[k + 1]
      BY <1>2, Removed
    <3>2. DOMAIN reads' = 1 .. Len(reads')
      BY <1>1 DEF SourceTypes
    <3> QED BY <2>1, <3>1, <3>2
  <2> DEFINE was(k) == IF k < i THEN k ELSE k + 1
  <2>3. \A k \in DOMAIN reads' : was(k) \in DOMAIN reads /\ was(k) # i /\ reads'[k] = reads[was(k)]
    BY <1>2, <2>2
  <2>4. \A k, l \in DOMAIN reads' : was(k) = was(l) => k = l
    BY <1>2, <2>2
  <2> HIDE DEF was
  <2>5. \A k \in DOMAIN reads' :
          reads'[k].waiter.starts # "no" =>
            started' /\ \A l \in DOMAIN reads' : reads'[l].waiter.starts # "no" => l = k
    BY <2>1, <2>3, <2>4 DEF LaunchInv
  <2>6. CASE reads[i].waiter.starts # "no"
    <3>1. Launched'
      BY <2>1, <2>3, <2>6 DEF LaunchInv, Launched
    <3> QED BY <2>1, <2>5, <3>1 DEF LaunchInv
  <2>7. CASE reads[i].waiter.starts = "no"
    <3>1. UNCHANGED run
      BY <1>6, <2>7 DEF ReadDone
    <3>2. ~Launched' => ~Launched
      BY <2>1, <2>3 DEF Launched
    <3> QED BY <2>1, <2>5, <3>1, <3>2 DEF LaunchInv, Idle
  <2>8. QED BY <2>6, <2>7
<1>7. ASSUME Launched, UNCHANGED sourceVars
      PROVE  LaunchInv'
  <2>1. Launched'
    BY <1>7 DEF Launched, sourceVars
  <2> QED BY <1>7, <2>1 DEF sourceVars, LaunchInv
<1>8. CASE Running
  <2>1. ~Idle /\ UNCHANGED sourceVars
    BY <1>8 DEF Running, ExecuteLine, ExecuteNoLine, UpdateCurrentLine, FindNextStatement, Idle, At
  <2> QED BY <1>7, <2>1 DEF LaunchInv
<1>9. QED
  BY <1>3, <1>4, <1>5, <1>6, <1>7, <1>8, Kinds DEF Configures, Begin, StepsAtOnce, vars

\* The instruction that executing a line stops at, or leaves it with.
LEMMA InstructionsMet ==
  ASSUME SourceTypes, PositionTypes
  PROVE  /\ Starts(currentLine) \in Nat /\ Ends(currentLine) \in Nat
         /\ Passed = IF run.reverse
                     THEN IF instruction <= Starts(currentLine) - 1 THEN instruction
                          ELSE Starts(currentLine) - 1
                     ELSE IF instruction <= Ends(currentLine) THEN Ends(currentLine)
                          ELSE instruction
         /\ Met # {} /\ run.reverse =>
              Max(Met) \in Met /\ Max(Met) \in Starts(currentLine) - 1 .. instruction - 1
         /\ Met # {} /\ ~run.reverse =>
              /\ Min(Met) \in Met /\ Min(Met) \in instruction + 1 .. Ends(currentLine)
              /\ \A a \in Met : Min(Met) <= a
<1> DEFINE start == Starts(currentLine)
           end == Ends(currentLine)
<1>1. start \in Nat /\ end \in Nat /\ instruction \in Int
  BY WordsAreCounted DEF SourceTypes, PositionTypes
<1>2. /\ Met = {a \in instructionBreakpoints :
                  IF run.reverse THEN a \in start - 1 .. instruction - 1
                  ELSE a \in instruction + 1 .. end}
      /\ Passed = IF run.reverse THEN Min({instruction, start - 1}) ELSE Max({instruction, end})
  BY DEF Met, Passed
<1> HIDE DEF start, end
<1>3. /\ Min({instruction, start - 1}) = IF instruction <= start - 1 THEN instruction ELSE start - 1
      /\ Max({instruction, end}) = IF instruction <= end THEN end ELSE instruction
  BY <1>1, OfTwo
<1>4. ASSUME Met # {}, run.reverse PROVE Max(Met) \in Met /\ Max(Met) \in start - 1 .. instruction - 1
  <2>1. /\ Met \in SUBSET (start - 1 .. instruction - 1) /\ start - 1 \in Int
        /\ instruction - 1 \in Int
    BY <1>1, <1>2, <1>4
  <2>2. Max(Met) \in Met
    BY <1>4, <2>1, MaxOfInterval
  <2> QED BY <2>1, <2>2
<1>5. ASSUME Met # {}, ~run.reverse
      PROVE  Min(Met) \in Met /\ Min(Met) \in instruction + 1 .. end /\ \A a \in Met : Min(Met) <= a
  <2>1. Met \in SUBSET (instruction + 1 .. end) /\ instruction + 1 \in Int /\ end \in Int
    BY <1>1, <1>2, <1>5
  <2>2. Min(Met) \in Met /\ \A a \in Met : Min(Met) <= a
    BY <1>5, <2>1, MinOfInterval
  <2> QED BY <2>1, <2>2
<1>6. QED BY <1>1, <1>2, <1>3, <1>4, <1>5 DEF start, end

\* The statement that findNextStatement moves to is the first it comes to.
LEMMA NearestFound ==
  ASSUME SourceTypes, PositionTypes, ~NoneFound
  PROVE  /\ Nearest \in Found(Scanned) /\ Nearest \in Nat \ {0}
         /\ IF run.reverse
            THEN Nearest \in 1 .. currentLine /\ \A ln \in Found(Scanned) : ln <= Nearest
            ELSE Nearest \in currentLine .. Len(SourceLines) /\ \A ln \in Found(Scanned) : Nearest <= ln
<1>1. currentLine \in Nat \ {0} /\ Len(SourceLines) \in Nat
  BY FilesHaveLines DEF SourceTypes, PositionTypes, Lines
<1>2. PICK found : found = Found(Scanned)
  OBVIOUS
<1>3. found \in SUBSET Scanned /\ found # {}
  BY <1>2 DEF Found, NoneFound
<1>4. CASE run.reverse
  <2>1. found \in SUBSET (1 .. currentLine) /\ 1 \in Int /\ currentLine \in Int
    BY <1>1, <1>3, <1>4 DEF Scanned
  <2>2. Max(found) \in found /\ \A ln \in found : Max(found) >= ln
    BY <1>3, <2>1, MaxOfInterval
  <2>3. Nearest = Max(found)
    BY <1>2, <1>4 DEF Nearest
  <2>4. \A ln \in found : ln \in Nat
    BY <2>1
  <2> QED BY <1>2, <1>4, <2>1, <2>2, <2>3, <2>4
<1>5. CASE ~run.reverse
  <2>1. /\ found \in SUBSET (currentLine .. Len(SourceLines)) /\ currentLine \in Int
        /\ Len(SourceLines) \in Int
    BY <1>1, <1>3, <1>5 DEF Scanned
  <2>2. Min(found) \in found /\ \A ln \in found : Min(found) <= ln
    BY <1>3, <2>1, MinOfInterval
  <2>3. Nearest = Min(found)
    BY <1>2, <1>5 DEF Nearest
  <2> QED BY <1>1, <1>2, <1>5, <2>1, <2>2, <2>3
<1>6. QED BY <1>4, <1>5

LEMMA PositionStep == SourceTypes /\ PositionTypes /\ [Next]_vars => PositionTypes'
<1> SUFFICES ASSUME SourceTypes, PositionTypes, [Next]_vars PROVE PositionTypes'
  OBVIOUS
<1>1. CASE UNCHANGED <<currentLine, instruction>>
  BY <1>1 DEF PositionTypes
<1>2. ASSUME NEW by \in {1, -1}, StepInstruction(by)
      PROVE  PositionTypes'
  BY <1>2 DEF StepInstruction, StepsAtOnce, PositionTypes
<1>3. CASE ExecuteLine
  <2>1. Passed \in Int /\ (Met # {} => IF run.reverse THEN Max(Met) \in Int ELSE Min(Met) \in Int)
    BY InstructionsMet DEF PositionTypes
  <2> QED BY <1>3, <2>1 DEF ExecuteLine, PositionTypes
<1>4. ASSUME NEW ln \in Nat \ {0}, MoveTo(ln)
      PROVE  PositionTypes'
  <2>1. Starts(ln) \in Int
    BY WordsAreCounted DEF SourceTypes
  <2> QED BY <1>4, <2>1 DEF MoveTo, InstructionAt, PositionTypes
<1>5. CASE UpdateCurrentLine
  <2>1. /\ currentLine + 1 \in Nat \ {0} /\ 1 \in Nat \ {0}
        /\ (currentLine > 1 => currentLine - 1 \in Nat \ {0})
    BY DEF PositionTypes
  <2> QED BY <1>1, <1>4, <1>5, <2>1 DEF UpdateCurrentLine, LinesBack
<1>6. CASE FindNextStatement
  BY <1>1, <1>4, <1>6, NearestFound DEF FindNextStatement, AtBreakPoint
<1>7. CASE UNCHANGED positionVars
  BY <1>1, <1>7 DEF positionVars
<1>8. CASE StepInTarget \/ StepIn \/ StepOut
  BY <1>1, <1>8 DEF StepInTarget, StepIn, StepOut, StepsAtOnce
<1>9. QED
  BY <1>2, <1>3, <1>5, <1>6, <1>7, <1>8 DEF Next, SetBreakPoints, AddBreakpoint, ClearBreakPoint,
     SetInstructionBreakpoints, SetDataBreakpoints, SetExceptionBreakpoints, OnlyBreakVars, Start,
     ReadDone, Continue, ReverseContinue, Step, StepBack, Begin, Running, ExecuteNoLine, vars

LEMMA RunBegins ==
  ASSUME PositionTypes, NEW op \in {"entry", "start", "continue", "step"}, NEW reverse \in BOOLEAN,
         NEW phase \in Phases
  PROVE  /\ Run(op, reverse, phase) \in Runs
         /\ Run(op, reverse, phase).op = op /\ Run(op, reverse, phase).reverse = reverse
         /\ Run(op, reverse, phase).phase = phase
         /\ Run(op, reverse, phase).from = currentLine
         /\ Run(op, reverse, phase).first = instruction
BY DEF Run, Runs, PositionTypes

LEMMA RunStep == PositionTypes /\ RunTypes /\ [Next]_vars => RunTypes'
<1> SUFFICES ASSUME PositionTypes, RunTypes, [Next]_vars PROVE RunTypes'
  OBVIOUS
<1>1. CASE UNCHANGED <<run, sent, thrown>>
  BY <1>1 DEF RunTypes
<1>2. /\ NoRun \in Runs /\ FineStep \in Runs
      /\ << >> \in Seq(StopEvents) /\ <<"step">> \in Seq(StopEvents)
  <2>1. NoRun \in Runs
    BY DEF NoRun, Runs, Phases
  <2>2. FineStep \in Runs
    BY <2>1 DEF FineStep, Runs
  <2>3. "step" \in StopEvents
    BY DEF StopEvents
  <2> QED BY <2>1, <2>2, <2>3
<1>3. ASSUME NEW how, NEW lines, Starting(how, lines)
      PROVE  RunTypes'
  <2>1. Run("entry", FALSE, "find") \in Runs /\ Run("start", FALSE, "execute") \in Runs
    BY RunBegins DEF Phases
  <2>2. run' \in Runs /\ sent' = << >> /\ thrown' = FALSE
    BY <1>3, <2>1 DEF Starting
  <2> QED BY <1>2, <2>2 DEF RunTypes
<1>4. ASSUME NEW event \in StopEvents, Stops(event), thrown' = thrown
      PROVE  RunTypes'
  BY <1>2, <1>4 DEF Stops, RunTypes
<1>5. ASSUME NEW phase \in Phases, Goes(phase), thrown' = thrown
      PROVE  RunTypes'
  BY <1>5 DEF Goes, RunTypes, Runs
<1>6. ASSUME NEW op \in {"continue", "step"}, NEW reverse \in BOOLEAN, Begin(op, reverse)
      PROVE  RunTypes'
  <2>1. Run(op, reverse, "execute") \in Runs
    BY RunBegins DEF Phases
  <2> QED BY <1>2, <1>6, <2>1 DEF Begin, RunTypes
<1>7. CASE ExecuteLine
  BY <1>4, <1>5, <1>7 DEF ExecuteLine, StopEvents, Phases
<1>8. CASE ExecuteNoLine
  BY <1>2, <1>8 DEF ExecuteNoLine, RunTypes
<1>9. CASE UpdateCurrentLine
  BY <1>4, <1>5, <1>9 DEF UpdateCurrentLine, StopEvents, Phases
<1>10. CASE FindNextStatement
  BY <1>4, <1>5, <1>10 DEF FindNextStatement, StopEvents, Phases
<1>11. ASSUME NEW how, Start(how)
       PROVE  RunTypes'
  BY <1>1, <1>3, <1>11 DEF Start
<1>12. ASSUME NEW i, ReadDone(i)
       PROVE  RunTypes'
  BY <1>1, <1>3, <1>12 DEF ReadDone
<1>13. CASE StepsAtOnce
  BY <1>2, <1>13 DEF StepsAtOnce, RunTypes
<1>14. QED
  BY <1>1, <1>6, <1>7, <1>8, <1>9, <1>10, <1>11, <1>12, <1>13, Kinds
  DEF SetBreakPoints, Configures, Running, vars

LEMMA BreakStep == SourceTypes /\ PositionTypes /\ BreakTypes /\ [Next]_vars => BreakTypes'
<1> SUFFICES ASSUME SourceTypes, PositionTypes, BreakTypes, [Next]_vars PROVE BreakTypes'
  OBVIOUS
<1>1. SourceLines \in Lines /\ \A f \in Files : Text[f] \in Lines /\ breakPoints[f] \in Seq(Settled)
  BY FilesHaveLines DEF SourceTypes, BreakTypes
<1>2. ASSUME NEW file, NEW bps \in Seq(Settled), breakPoints' = [breakPoints EXCEPT ![file] = bps]
      PROVE  BreakTypes'
  BY <1>2 DEF BreakTypes
<1>3. CASE UNCHANGED breakPoints
  BY <1>3 DEF BreakTypes
<1>4. ASSUME NEW file \in Files, NEW lines \in Requested, SetBreakPoints(file, lines)
      PROVE  BreakTypes'
  <2> DEFINE new == [i \in DOMAIN lines |-> NewBreakpoint(lines[i])]
             n == Len(lines)
  <2>1. n \in Nat /\ new \in Seq(Settled)
    BY NewSettles
  <2>2. \/ breakPoints' = [breakPoints EXCEPT ![file] = Tell(VerifyTimes(SourceLines, new, n), 1 .. n)]
        \/ /\ n > 0
           /\ breakPoints' = [breakPoints EXCEPT ![file] =
                                Tell(VerifyTimes(SourceLines, new, n - 1), 2 .. n)]
    BY <1>4 DEF SetBreakPoints
  <2> HIDE DEF new, n
  <2>3. Tell(VerifyTimes(SourceLines, new, n), 1 .. n) \in Seq(Settled)
    BY <1>1, <2>1, VerifyTimesSettles, TellSettles
  <2>4. ASSUME n > 0 PROVE Tell(VerifyTimes(SourceLines, new, n - 1), 2 .. n) \in Seq(Settled)
    <3>1. n - 1 \in Nat
      BY <2>1, <2>4
    <3> QED BY <1>1, <2>1, <3>1, VerifyTimesSettles, TellSettles
  <2>5. QED BY <1>2, <2>2, <2>3, <2>4
<1>5. ASSUME NEW line \in BreakLines, AddBreakpoint(line)
      PROVE  BreakTypes'
  <2>1. sourceFile \in Files
    BY <1>5 DEF AddBreakpoint, SourceTypes
  <2> DEFINE bps == breakPoints[sourceFile]
             new == NewBreakpoint(line)
  <2>2. new \in Settled
    BY RuntimeAssumption DEF NewBreakpoint, Settled, Breakpoint
  <2>3. breakPoints' = [breakPoints EXCEPT ![sourceFile] =
                          Tell(VerifyAll(SourceLines, Append(bps, new)), {Len(bps) + 1})]
    BY <1>5, <2>1 DEF AddBreakpoint, BreakTypes
  <2>4. Append(bps, new) \in Seq(Settled)
    BY <1>1, <2>1, <2>2
  <2>5. Tell(VerifyAll(SourceLines, Append(bps, new)), {Len(bps) + 1}) \in Seq(Settled)
    BY <1>1, <2>4, VerifyAllSettles, TellSettles
  <2>6. QED BY <1>2, <2>3, <2>5
<1>6. ASSUME NEW line \in BreakLines, ClearBreakPoint(line)
      PROVE  BreakTypes'
  <2>1. sourceFile \in Files
    BY <1>6 DEF ClearBreakPoint, SourceTypes
  <2> DEFINE bps == breakPoints[sourceFile]
  <2>2. FirstOn(bps, line) \in DOMAIN bps
    BY <1>1, <1>6, <2>1, FirstOnLine DEF ClearBreakPoint
  <2>3. RemoveAt(bps, FirstOn(bps, line)) \in Seq(Settled)
    BY <1>1, <2>1, <2>2, Removed
  <2>4. breakPoints' = [breakPoints EXCEPT ![sourceFile] = RemoveAt(bps, FirstOn(bps, line))]
    BY <1>6, <2>1 DEF ClearBreakPoint, BreakTypes
  <2>5. QED BY <1>2, <2>3, <2>4
<1>7. ASSUME NEW how, NEW lines \in Lines, Starting(how, lines), sourceFile' \in Files \cup {"none"}
      PROVE  BreakTypes'
  <2>1. CASE breakPoints' = breakPoints
    BY <1>3, <2>1
  <2>2. CASE breakPoints' # breakPoints
    <3>1. PICK file : file = sourceFile'
      OBVIOUS
    <3>2. /\ file \in Files
          /\ breakPoints' = [breakPoints EXCEPT ![file] = VerifyAll(lines, breakPoints[file])]
      BY <1>7, <2>2, <3>1 DEF Starting, BreakTypes
    <3>3. VerifyAll(lines, breakPoints[file]) \in Seq(Settled)
      BY <1>1, <3>2, VerifyAllSettles
    <3> QED BY <1>2, <3>2, <3>3
  <2> QED BY <2>1, <2>2
<1>8. ASSUME NEW how, Start(how)
      PROVE  BreakTypes'
  BY <1>1, <1>3, <1>7, <1>8, SourceStep DEF Start, SourceTypes
<1>9. ASSUME NEW i \in DOMAIN reads, ReadDone(i)
      PROVE  BreakTypes'
  <2>1. PICK file : file = reads[i].file
    OBVIOUS
  <2>2. file \in Files
    <3>1. reads[i] \in Reads
      BY DEF SourceTypes
    <3> QED BY <2>1, <3>1 DEF Reads
  <2> DEFINE bps == VerifyAll(Text[file], breakPoints[file])
  <2>3. bps \in Seq(Settled) /\ Text[file] \in Lines /\ sourceFile' \in Files \cup {"none"}
    BY <1>1, <2>2, VerifyAllSettles, SourceStep DEF SourceTypes
  <2>4. \/ \E how : Starting(how, Text[file])
        \/ breakPoints' = [breakPoints EXCEPT ![file] = Tell(bps, {k \in DOMAIN bps : bps[k].told = 0})]
        \/ UNCHANGED breakPoints
    BY <1>9, <2>1 DEF ReadDone
  <2> HIDE DEF bps
  <2>5. QED BY <1>2, <1>3, <1>7, <2>3, <2>4, TellSettles
<1>10. CASE FindNextStatement
  <2>1. CASE UNCHANGED breakPoints
    BY <1>3, <2>1
  <2>2. CASE AtBreakPoint /\ sourceFile \in Files
    <3> DEFINE bps == breakPoints[sourceFile]
               k == FirstOn(bps, Nearest)
    <3>1. bps \in Seq(Settled) /\ DOMAIN bps = 1 .. Len(bps) /\ Len(bps) \in Nat
      BY <1>1, <2>2
    <3>2. CASE breakPoints' = [breakPoints EXCEPT ![sourceFile] = [bps EXCEPT ![k].verified = TRUE]]
      <4>1. \A bp \in Settled : [bp EXCEPT !.verified = TRUE] \in Settled
        BY DEF Settled, Breakpoint
      <4> HIDE DEF bps, k
      <4>2. [bps EXCEPT ![k].verified = TRUE] =
              [i \in 1 .. Len(bps) |-> IF i = k THEN [bps[i] EXCEPT !.verified = TRUE] ELSE bps[i]]
        BY <3>1
      <4>3. \A i \in 1 .. Len(bps) :
              (IF i = k THEN [bps[i] EXCEPT !.verified = TRUE] ELSE bps[i]) \in Settled
        BY <3>1, <4>1
      <4> DEFINE after == [i \in 1 .. Len(bps) |->
                             IF i = k THEN [bps[i] EXCEPT !.verified = TRUE] ELSE bps[i]]
      <4>4. after \in Seq(Settled)
        BY <3>1, <4>3
      <4> QED BY <1>2, <3>2, <4>2, <4>4
    <3>3. QED BY <1>10, <2>1, <2>2, <3>2 DEF FindNextStatement, BreakTypes
  <2>3. CASE sourceFile \notin Files
    BY <1>10, <2>3 DEF FindNextStatement, BreakTypes
  <2>4. QED BY <1>10, <2>1, <2>2, <2>3 DEF FindNextStatement
<1>11. QED
  BY <1>3, <1>4, <1>5, <1>6, <1>8, <1>9, <1>10 DEF Next,
     SetInstructionBreakpoints, SetDataBreakpoints, SetExceptionBreakpoints, OnlyBreakVars,
     Continue, ReverseContinue, Step, StepBack, Begin, StepInstruction, StepInTarget, StepIn,
     StepOut,
     StepsAtOnce, Running, ExecuteLine, ExecuteNoLine, UpdateCurrentLine, vars

LEMMA LongestLine ==
  Longest \in Nat /\ \A f \in Files : \A ln \in DOMAIN Text[f] : Text[f][ln].length <= Longest
<1> DEFINE ranges == {Range(Text[f]) : f \in Files}
           all == UNION ranges
           lengths == {line.length : line \in all}
<1>1. ASSUME NEW f \in Files
      PROVE  /\ Text[f] \in Seq(Line) /\ DOMAIN Text[f] = 1 .. Len(Text[f])
             /\ Len(Text[f]) \in Nat \ {0}
  BY RuntimeAssumption
<1>2. ASSUME NEW line \in all PROVE line.length \in Nat
  <2>1. PICK f \in Files : line \in Range(Text[f])
    OBVIOUS
  <2>2. PICK ln \in DOMAIN Text[f] : line = Text[f][ln]
    BY <2>1 DEF Range
  <2>3. line \in Line
    BY <1>1, <2>2
  <2> QED BY <2>3 DEF Line
<1>3. \A y \in ranges : IsFiniteSet(y)
  <2>1. ASSUME NEW f \in Files PROVE IsFiniteSet(Range(Text[f]))
    <3>1. PICK text : text = Text[f]
      OBVIOUS
    <3>2. text \in Seq(Line) /\ DOMAIN text = 1 .. Len(text) /\ Len(text) \in Nat
      BY <1>1, <3>1
    <3>3. IsFiniteSet(DOMAIN text)
      BY <3>2, FS_Interval
    <3>4. text \in [DOMAIN text -> Range(text)] /\ \A y \in Range(text) : \E x \in DOMAIN text : text[x] = y
      BY <3>2 DEF Range
    <3> QED BY <3>1, <3>3, <3>4, FiniteImage
  <2> QED BY <2>1
<1>4. IsFiniteSet(ranges)
  <2> DEFINE of == [f \in Files |-> Range(Text[f])]
  <2>1. of \in [Files -> ranges] /\ \A y \in ranges : \E f \in Files : of[f] = y
    OBVIOUS
  <2> HIDE DEF of, ranges
  <2> QED BY <2>1, RuntimeAssumption, FiniteImage
<1>5. IsFiniteSet(all)
  <2> HIDE DEF ranges
  <2> QED BY <1>3, <1>4, FS_UNION
<1>6. IsFiniteSet(lengths)
  <2> DEFINE of == [line \in all |-> line.length]
  <2>1. of \in [all -> lengths] /\ \A y \in lengths : \E line \in all : of[line] = y
    <3> HIDE DEF all
    <3> QED OBVIOUS
  <2> HIDE DEF of, all, lengths
  <2> QED BY <1>5, <2>1, FiniteImage
<1>7. ASSUME NEW f \in Files, NEW ln \in DOMAIN Text[f]
      PROVE  Text[f][ln].length \in lengths
  BY <1>1 DEF Range
<1>8. lengths \in SUBSET Nat /\ lengths # {}
  <2>1. lengths \in SUBSET Nat
    <3> HIDE DEF all
    <3> QED BY <1>2
  <2>2. lengths # {}
    <3>1. Program \in Files /\ 1 \in DOMAIN Text[Program]
      BY <1>1, RuntimeAssumption
    <3> HIDE DEF lengths
    <3> QED BY <1>7, <3>1
  <2> QED BY <2>1, <2>2
<1>9. Longest = Max(lengths)
  BY DEF Longest
<1> HIDE DEF lengths
<1>10. Max(lengths) \in lengths /\ \A k \in lengths : Max(lengths) >= k
  BY <1>6, <1>8, MaxOfFinite
<1>11. Max(lengths) \in Nat /\ \A k \in lengths : k <= Max(lengths)
  BY <1>8, <1>10
<1>12. QED BY <1>7, <1>9, <1>11

LEMMA ColumnStep == SourceTypes /\ PositionTypes /\ ColumnTypes /\ [Next]_vars => ColumnTypes'
<1> SUFFICES ASSUME SourceTypes, PositionTypes, ColumnTypes, [Next]_vars PROVE ColumnTypes'
  OBVIOUS
<1>1. CASE UNCHANGED currentColumn
  BY <1>1 DEF ColumnTypes
<1>2. CASE currentColumn' = {}
  BY <1>2 DEF ColumnTypes
<1>3. ASSUME NEW c \in Int, currentColumn' = {c}, -Underrun <= c, c <= Longest + 1
      PROVE  ColumnTypes'
  BY <1>3 DEF ColumnTypes
<1>4. Longest \in Nat /\ Underrun \in Nat
  BY LongestLine, RuntimeAssumption
<1>5. ASSUME currentLine \in DOMAIN SourceLines
      PROVE  /\ SourceLines[currentLine].length \in Nat
             /\ SourceLines[currentLine].length <= Longest
             /\ SourceLines[currentLine].words \in Seq([at : Nat, size : Nat \ {0}])
             /\ Fits(SourceLines[currentLine])
  <2>1. loaded \in Files /\ SourceLines = Text[loaded]
    BY <1>5 DEF SourceTypes, SourceLines
  <2>2. SourceLines[currentLine] \in Line
    BY <1>5, <2>1, RuntimeAssumption
  <2>3. SourceLines[currentLine].length <= Longest /\ Fits(SourceLines[currentLine])
    BY <1>5, <2>1, LongestLine, RuntimeAssumption
  <2> QED BY <2>2, <2>3 DEF Line
<1>6. CASE StepInTarget
  <2>1. PICK target \in StepInTargets : currentColumn' = {target}
    BY <1>6 DEF StepInTarget
  <2>2. currentLine \in DOMAIN SourceLines
    BY <1>6 DEF StepInTarget
  <2>3. PICK word \in Range(SourceLines[currentLine].words) : target \in word.at .. word.at + word.size - 1
    BY <2>1 DEF StepInTargets
  <2>4. word.at \in Nat /\ word.size \in Nat
    <3>1. PICK words : words = SourceLines[currentLine].words
      OBVIOUS
    <3>2. words \in Seq([at : Nat, size : Nat \ {0}])
      BY <1>5, <2>2, <3>1
    <3>3. PICK k \in DOMAIN words : word = words[k]
      BY <2>3, <3>1 DEF Range
    <3> DEFINE WordOf == [at : Nat, size : Nat \ {0}]
    <3>4. word \in WordOf
      <4> HIDE DEF WordOf
      <4>1. words \in Seq(WordOf)
        BY <3>2 DEF WordOf
      <4> QED BY <3>3, <4>1
    <3> QED BY <3>4
  <2>5. word.at + word.size <= SourceLines[currentLine].length
    BY <1>5, <2>2, <2>3 DEF Fits
  <2>6. target \in Int /\ -Underrun <= target /\ target <= Longest + 1
    BY <1>4, <1>5, <2>2, <2>3, <2>4, <2>5
  <2> QED BY <1>3, <2>1, <2>6
<1>7. CASE StepIn
  <2>1. CASE currentColumn = {}
    BY <1>3, <1>4, <1>7, <2>1 DEF StepIn
  <2>2. ASSUME NEW c \in -Underrun .. Longest + 1, currentColumn = {c}
        PROVE  ColumnTypes'
    <3>1. currentLine \in DOMAIN SourceLines
      BY <1>7, <2>2 DEF StepIn
    <3> DEFINE d == IF c <= SourceLines[currentLine].length THEN c + 1 ELSE c
    <3>2. d \in Int /\ -Underrun <= d /\ d <= Longest + 1
      BY <1>4, <1>5, <2>2, <3>1
    <3>3. currentColumn' = {d}
      BY <1>7, <2>2 DEF StepIn, Within
    <3> QED BY <1>3, <3>2, <3>3
  <2>3. QED BY <2>1, <2>2 DEF ColumnTypes
<1>8. CASE StepOut
  <2>1. CASE currentColumn = {}
    BY <1>2, <1>8, <2>1 DEF StepOut
  <2>2. ASSUME NEW c \in -Underrun .. Longest + 1, currentColumn = {c}
        PROVE  ColumnTypes'
    <3>1. c > -Underrun /\ currentColumn' = {c - 1} \ {0}
      BY <1>8, <2>2 DEF StepOut
    <3>2. c - 1 \in Int /\ -Underrun <= c - 1 /\ c - 1 <= Longest + 1
      BY <1>4, <2>2, <3>1
    <3>3. CASE c - 1 = 0
      BY <1>2, <3>1, <3>3
    <3>4. CASE c - 1 # 0
      <4>1. currentColumn' = {c - 1}
        BY <3>1, <3>4
      <4> QED BY <1>3, <3>2, <4>1
    <3> QED BY <3>3, <3>4
  <2>3. QED BY <2>1, <2>2 DEF ColumnTypes
<1>9. CASE UpdateCurrentLine
  BY <1>1, <1>2, <1>9 DEF UpdateCurrentLine
<1>10. CASE UNCHANGED positionVars
  BY <1>1, <1>10 DEF positionVars
<1>11. QED
  BY <1>1, <1>6, <1>7, <1>8, <1>9, <1>10 DEF Next, SetBreakPoints, AddBreakpoint, ClearBreakPoint,
     SetInstructionBreakpoints, SetDataBreakpoints, SetExceptionBreakpoints, OnlyBreakVars, Start,
     ReadDone, Continue, ReverseContinue, Step, StepBack, Begin, StepInstruction, Running,
     ExecuteLine, ExecuteNoLine, FindNextStatement, vars

LEMMA RequestStep == RequestTypes /\ [Next]_vars => RequestTypes'
<1> SUFFICES ASSUME RequestTypes, [Next]_vars PROVE RequestTypes'
  OBVIOUS
<1>1. CASE UNCHANGED breakVars /\ UNCHANGED user /\ started' \in {started, TRUE}
  BY <1>1 DEF breakVars, RequestTypes
<1>2. ASSUME NEW file, NEW lines, SetBreakPoints(file, lines) PROVE RequestTypes'
  BY <1>1, <1>2 DEF SetBreakPoints
<1>3. ASSUME NEW line, AddBreakpoint(line) \/ ClearBreakPoint(line) PROVE RequestTypes'
  BY <1>1, <1>3 DEF AddBreakpoint, ClearBreakPoint, sourceVars
<1>4. ASSUME NEW addresses \in SUBSET Addresses, SetInstructionBreakpoints(addresses)
      PROVE  RequestTypes'
  BY <1>4 DEF SetInstructionBreakpoints, OnlyBreakVars, sourceVars, RequestTypes
<1>5. ASSUME NEW name \in Names, NEW types \in DataTypes, SetDataBreakpoints(name, types)
      PROVE  RequestTypes'
  <2>1. types \in SUBSET {"read", "write"}
    BY RuntimeAssumption
  <2> QED BY <1>5, <2>1 DEF SetDataBreakpoints, OnlyBreakVars, sourceVars, RequestTypes
<1>6. ASSUME NEW filters \in Filters, SetExceptionBreakpoints(filters)
      PROVE  RequestTypes'
  BY <1>6 DEF SetExceptionBreakpoints, OnlyBreakVars, sourceVars, RequestTypes
<1>7. ASSUME NEW how, Start(how) PROVE RequestTypes'
  BY <1>1, <1>7 DEF Start
<1>8. ASSUME NEW i, ReadDone(i) PROVE RequestTypes'
  BY <1>1, <1>8 DEF ReadDone
<1>9. ASSUME NEW op, NEW reverse, Begin(op, reverse) PROVE RequestTypes'
  BY <1>1, <1>9 DEF Begin, sourceVars
<1>10. CASE StepsAtOnce
  BY <1>1, <1>10 DEF StepsAtOnce, sourceVars
<1>11. CASE Running
  BY <1>1, <1>11 DEF Running, ExecuteLine, ExecuteNoLine, UpdateCurrentLine, FindNextStatement,
     sourceVars
<1>12. CASE UNCHANGED vars
  BY <1>1, <1>12 DEF vars, sourceVars
<1>13. QED
  BY <1>2, <1>3, <1>4, <1>5, <1>6, <1>7, <1>8, <1>9, <1>10, <1>11, <1>12
  DEF Next, Continue, ReverseContinue, Step, StepBack, StepInstruction, StepInTarget, StepIn,
  StepOut

LEMMA VariableStep ==
  SourceTypes /\ PositionTypes /\ variables \subseteq Names /\ [Next]_vars => (variables \subseteq Names)'
<1> SUFFICES ASSUME SourceTypes, PositionTypes, variables \subseteq Names, [Next]_vars
             PROVE  variables' \subseteq Names
  OBVIOUS
<1>1. CASE UNCHANGED variables
  BY <1>1
<1>2. ASSUME currentLine \in DOMAIN SourceLines
      PROVE  /\ Accesses \in Seq(Access) /\ DOMAIN Accesses = 1 .. Len(Accesses) /\ Len(Accesses) \in Nat
             /\ \A k \in 0 .. Len(Accesses) : Written(k) \subseteq Names
  <2>1. SourceLines \in Seq(Line)
    BY FilesHaveLines DEF SourceTypes, Lines
  <2>2. SourceLines[currentLine] \in Line
    BY <1>2, <2>1
  <2>3. Accesses \in Seq(Access)
    BY <2>2 DEF Accesses, Line
  <2>4. DOMAIN Accesses = 1 .. Len(Accesses) /\ Len(Accesses) \in Nat
    BY <2>3
  <2>5. \A j \in DOMAIN Accesses : Accesses[j].name \in Names
    <3>1. \A j \in DOMAIN Accesses : Accesses[j] \in Access
      BY <2>3, <2>4
    <3> QED BY <3>1 DEF Access
  <2>6. ASSUME NEW k \in 0 .. Len(Accesses) PROVE Written(k) \subseteq Names
    <3>1. 1 .. k \subseteq DOMAIN Accesses
      BY <2>4
    <3> QED BY <2>5, <3>1 DEF Written
  <2> QED BY <2>3, <2>4, <2>6
<1>3. CASE ExecuteLine
  <2>1. currentLine \in DOMAIN SourceLines
    BY <1>3 DEF ExecuteLine
  <2>2. Written(Len(Accesses)) \subseteq Names
    BY <1>2, <2>1
  <2>3. ASSUME Trapped # {} PROVE Written(Min(Trapped)) \subseteq Names
    <3>1. Trapped \in SUBSET (1 .. Len(Accesses)) /\ 1 \in Int /\ Len(Accesses) \in Int
      BY <1>2, <2>1 DEF Trapped
    <3>2. Min(Trapped) \in Trapped
      BY <2>3, <3>1, MinOfInterval
    <3>3. PICK k : k = Min(Trapped)
      OBVIOUS
    <3>4. k \in 1 .. Len(Accesses)
      BY <3>1, <3>2, <3>3
    <3>5. k \in 0 .. Len(Accesses)
      BY <3>1, <3>4
    <3> QED BY <1>2, <2>1, <3>3, <3>5
  <2> QED BY <1>1, <1>3, <2>2, <2>3 DEF ExecuteLine
<1>4. QED
  BY <1>1, <1>3, Kinds DEF SetBreakPoints, Configures, Start, ReadDone, Begin, StepsAtOnce, Running,
     ExecuteNoLine, UpdateCurrentLine, FindNextStatement, vars

LEMMA TypeStep == TypeInv /\ [Next]_vars => TypeInv'
BY SourceStep, PositionStep, ColumnStep, BreakStep, RequestStep, RunStep, VariableStep DEF TypeInv

LEMMA TypesHold == Spec => []TypeInv
<1>1. Init => TypeInv
  <2> SUFFICES ASSUME Init PROVE TypeInv
    OBVIOUS
  <2>1. SourceTypes /\ PositionTypes /\ ColumnTypes /\ BreakTypes
    BY DEF Init, SourceInit, SourceTypes, PositionTypes, ColumnTypes, BreakTypes
  <2>2. RequestTypes /\ variables \subseteq Names
    BY DEF Init, RequestTypes
  <2>3. RunTypes
    <3>1. NoRun \in Runs
      BY DEF NoRun, Runs, Phases
    <3>2. run = NoRun /\ sent = << >> /\ thrown = FALSE
      BY DEF Init
    <3>3. << >> \in Seq(StopEvents)
      OBVIOUS
    <3> QED BY <3>1, <3>2, <3>3 DEF RunTypes
  <2> QED BY <2>1, <2>2, <2>3 DEF TypeInv
<1>2. QED BY <1>1, TypeStep, PTL DEF Spec

(***************************************************************************)
(* For any files, any breakpoints and any order of requests: the fields of *)
(* mockRuntime.ts keep their types.  In particular a column stays in the   *)
(* file although the line changes under it, and a breakpoint that is moved *)
(* up from the first line is not moved again.                              *)
(***************************************************************************)
THEOREM RuntimeTypesHold == Spec => []TypeOK
<1>1. TypeInv => TypeOK
  <2> SUFFICES ASSUME TypeInv PROVE TypeOK
    OBVIOUS
  <2>1. /\ sourceFile \in Files \cup {"none"} /\ loaded \in Files \cup {"none"}
        /\ reads \in Seq(Reads)
    BY DEF TypeInv, SourceTypes
  <2>2. /\ currentLine \in Nat \ {0} /\ instruction \in Int /\ sent \in Seq(StopEvents)
        /\ variables \subseteq Names /\ thrown \in BOOLEAN
    BY DEF TypeInv, PositionTypes, RunTypes
  <2>3. run.phase \in Phases /\ run.reverse \in BOOLEAN /\ run.from \in Nat
    BY DEF TypeInv, RunTypes, Runs
  <2>4. breakPoints \in [Files -> Seq(Breakpoint)]
    <3>1. ASSUME NEW f \in Files PROVE breakPoints[f] \in Seq(Breakpoint)
      <4>1. breakPoints[f] \in Seq(Settled)
        BY DEF TypeInv, BreakTypes
      <4>2. \A bp \in Settled : bp \in Breakpoint
        BY DEF Settled
      <4> QED BY <4>1, <4>2
    <3> QED BY <3>1 DEF TypeInv, BreakTypes
  <2>5. currentColumn \subseteq -Underrun .. Longest + 1 /\ Cardinality(currentColumn) <= 1
    <3>1. CASE currentColumn = {}
      BY <3>1, FS_EmptySet
    <3>2. ASSUME NEW c \in -Underrun .. Longest + 1, currentColumn = {c}
          PROVE  currentColumn \subseteq -Underrun .. Longest + 1 /\ Cardinality(currentColumn) <= 1
      <4>1. Cardinality({c}) = 1
        BY FS_Singleton
      <4> QED BY <3>2, <4>1
    <3> QED BY <3>1, <3>2 DEF TypeInv, ColumnTypes
  <2> QED BY <2>1, <2>2, <2>3, <2>4, <2>5 DEF TypeOK, TypeInv, RequestTypes, Reads
<1>2. QED BY <1>1, TypesHold, PTL

-----------------------------------------------------------------------------
(***************************************************************************)
(* One stop.  Commands wait for the launch, so the first run begins with   *)
(* start, each later one when the one before it has stopped.               *)
(***************************************************************************)
LEMMA LaunchHolds == Spec => [](TypeInv /\ LaunchInv)
<1>1. Init => LaunchInv
  <2>1. Init => Idle /\ currentLine = 1 /\ instruction = 0 /\ started = FALSE /\ reads = << >>
    BY DEF Init, SourceInit, Idle, NoRun
  <2> QED BY <2>1 DEF LaunchInv
<1>2. TypeInv /\ LaunchInv /\ [Next]_vars => LaunchInv'
  BY LaunchStep DEF TypeInv
<1>3. QED BY <1>1, <1>2, TypesHold, PTL DEF Spec

\* The launch is over because it was before, or because the first run begins.
LEMMA LaunchedBefore ==
  ASSUME TypeInv, [Next]_vars, Launched', UNCHANGED run
  PROVE  Launched
<1>1. reads \in Seq(Reads) /\ DOMAIN reads = 1 .. Len(reads) /\ Len(reads) \in Nat
  BY DEF TypeInv, SourceTypes
<1>2. reads' \in Seq(Reads) /\ DOMAIN reads' = 1 .. Len(reads')
  BY TypeStep DEF TypeInv, SourceTypes
<1>3. CASE UNCHANGED sourceVars
  BY <1>3 DEF sourceVars, Launched
<1>4. ASSUME NEW file \in Files, NEW lines, SetBreakPoints(file, lines)
      PROVE  Launched
  <2>1. /\ Forget(file) \in Seq(Reads) /\ Len(Forget(file)) = Len(reads)
        /\ \A i \in DOMAIN reads : Forget(file)[i].waiter.starts = reads[i].waiter.starts
    BY ReadForgotten DEF TypeInv
  <2>2. CASE LoadSource(Forget(file), file, Waiter(TRUE, "no"))
    <3>1. Len(reads') = Len(reads) + 1 /\ \A i \in 1 .. Len(reads) : reads'[i] = Forget(file)[i]
      BY <2>1, <2>2, ReadBegun
    <3>2. \A i \in DOMAIN reads : i \in DOMAIN reads' /\ reads'[i] = Forget(file)[i]
      BY <1>1, <1>2, <3>1
    <3> QED BY <1>4, <2>1, <3>2 DEF SetBreakPoints, Launched
  <2>3. CASE reads' = Forget(file)
    <3>1. DOMAIN reads' = DOMAIN reads
      BY <1>1, <1>2, <2>1, <2>3
    <3> QED BY <1>4, <2>1, <2>3, <3>1 DEF SetBreakPoints, Launched
  <2>4. QED BY <1>4, <2>2, <2>3 DEF SetBreakPoints
<1>5. ASSUME NEW how \in {"entry", "debug", "noDebug"}, Start(how)
      PROVE  Launched
  <2>1. CASE LoadSource(reads, Program, Waiter(FALSE, how))
    <3>1. Program \in Files
      BY RuntimeAssumption
    <3>2. Len(reads') = Len(reads) + 1 /\ reads'[Len(reads) + 1].waiter.starts = how
      BY <1>1, <2>1, <3>1, ReadBegun
    <3>3. Len(reads) + 1 \in DOMAIN reads'
      BY <1>1, <1>2, <3>2
    <3> QED BY <3>2, <3>3 DEF Launched
  <2>2. CASE \E lines : Starting(how, lines)
    <3>1. run'.phase # "idle" /\ Idle
      BY <1>5, <2>2 DEF Start, Starting, Run
    <3> QED BY <3>1 DEF Idle
  <2>3. QED BY <1>5, <2>1, <2>2 DEF Start
<1>6. ASSUME NEW i \in DOMAIN reads, ReadDone(i)
      PROVE  Launched
  <2>1. reads' = RemoveAt(reads, i) /\ started' = started
    BY <1>6 DEF ReadDone, InitializeContents
  <2>2. /\ RemoveAt(reads, i) \in Seq(Reads) /\ Len(RemoveAt(reads, i)) = Len(reads) - 1
        /\ \A k \in 1 .. Len(reads) - 1 :
             RemoveAt(reads, i)[k] = IF k < i THEN reads[k] ELSE reads[k + 1]
    BY <1>1, Removed
  <2>3. DOMAIN reads' = 1 .. Len(reads) - 1 /\ i \in 1 .. Len(reads)
    BY <1>1, <1>2, <2>1, <2>2
  <2>4. ASSUME NEW j \in DOMAIN reads, j # i
        PROVE  \E k \in DOMAIN reads' : reads'[k] = reads[j]
    <3>1. CASE j < i
      <4>1. j \in DOMAIN reads' /\ reads'[j] = reads[j]
        BY <1>1, <2>1, <2>2, <2>3, <3>1
      <4> QED BY <4>1
    <3>2. CASE ~(j < i)
      <4>1. j - 1 \in 1 .. Len(reads) - 1 /\ ~(j - 1 < i) /\ (j - 1) + 1 = j
        BY <1>1, <2>3, <2>4, <3>2
      <4>2. j - 1 \in DOMAIN reads' /\ reads'[j - 1] = reads[j]
        BY <2>1, <2>2, <2>3, <4>1
      <4> QED BY <4>2
    <3> QED BY <3>1, <3>2
  <2>5. CASE reads[i].waiter.starts = "no"
    BY <2>1, <2>4, <2>5 DEF Launched
  <2>6. CASE reads[i].waiter.starts # "no"
    <3>1. run'.phase # "idle" /\ Idle
      BY <1>6, <2>6 DEF ReadDone, Starting, Run
    <3> QED BY <3>1 DEF Idle
  <2>7. QED BY <2>5, <2>6
<1>7. ASSUME Running PROVE UNCHANGED sourceVars
  BY <1>7 DEF Running, ExecuteLine, ExecuteNoLine, UpdateCurrentLine, FindNextStatement
<1>8. QED
  BY <1>3, <1>4, <1>5, <1>6, <1>7, Kinds DEF Configures, Begin, StepsAtOnce, vars

LEMMA StopStep == TypeInv /\ LaunchInv /\ OneStop /\ [Next]_vars => OneStop'
<1> SUFFICES ASSUME TypeInv, LaunchInv, OneStop, [Next]_vars PROVE OneStop'
  OBVIOUS
<1>1. sent \in Seq(StopEvents) /\ Len(<< >>) = 0
  BY DEF TypeInv, RunTypes
<1>2. CASE UNCHANGED <<run, sent, thrown>>
  <2>1. Launched' => Launched
    BY <1>2, LaunchedBefore
  <2> QED BY <1>2, <2>1 DEF OneStop, Idle
<1>3. ASSUME NEW how, NEW lines, Starting(how, lines)
      PROVE  OneStop'
  BY <1>1, <1>3 DEF Starting, Run, OneStop, Idle
<1>4. ASSUME NEW op, NEW reverse, Begin(op, reverse)
      PROVE  OneStop'
  BY <1>1, <1>4 DEF Begin, Run, OneStop, Idle
<1>5. CASE StepsAtOnce
  BY <1>5 DEF StepsAtOnce, FineStep, NoRun, OneStop, Idle
<1>6. ASSUME NEW event, Stops(event), Launched, ~Idle, thrown' = thrown
      PROVE  OneStop'
  <2>1. Len(Append(sent, event)) = Len(sent) + 1
    BY <1>1
  <2> QED BY <1>6, <2>1 DEF Stops, NoRun, OneStop, Idle
<1>7. ASSUME NEW phase, phase # "idle", Goes(phase), Launched, ~Idle, thrown' = thrown
      PROVE  OneStop'
  <2>1. run \in Runs
    BY DEF TypeInv, RunTypes
  <2>2. run'.phase = phase /\ sent' = sent
    BY <1>7, <2>1 DEF Goes, Runs
  <2> QED BY <1>7, <2>2 DEF OneStop, Idle
<1>8. CASE Running
  <2>1. ~Idle
    BY <1>8 DEF Running, ExecuteLine, ExecuteNoLine, UpdateCurrentLine, FindNextStatement, Idle, At
  <2>2. Launched
    BY <2>1 DEF LaunchInv
  <2>3. CASE ExecuteLine
    BY <1>6, <1>7, <2>1, <2>2, <2>3 DEF ExecuteLine
  <2>4. CASE ExecuteNoLine
    BY <2>4 DEF ExecuteNoLine, OneStop
  <2>5. CASE UpdateCurrentLine
    BY <1>6, <1>7, <2>1, <2>2, <2>5 DEF UpdateCurrentLine
  <2>6. CASE FindNextStatement
    BY <1>6, <1>7, <2>1, <2>2, <2>6 DEF FindNextStatement
  <2>7. QED BY <1>8, <2>3, <2>4, <2>5, <2>6 DEF Running
<1>9. ASSUME NEW how, Start(how) PROVE OneStop'
  BY <1>2, <1>3, <1>9 DEF Start
<1>10. ASSUME NEW i, ReadDone(i) PROVE OneStop'
  BY <1>2, <1>3, <1>10 DEF ReadDone
<1>11. QED
  BY <1>2, <1>4, <1>5, <1>8, <1>9, <1>10, Kinds DEF SetBreakPoints, Configures, vars

(***************************************************************************)
(* For any program, any breakpoints and any order of requests: continue    *)
(* and step of mockRuntime.ts send one event for each command, when it     *)
(* stops and not before, whatever stops it, in a line or between lines;    *)
(* only a command that looks at a line that does not exist sends none.     *)
(***************************************************************************)
THEOREM OneStopForACommand == Spec => []OneStop
<1>1. Init => OneStop
  BY DEF Init, OneStop, Launched
<1>2. QED BY <1>1, StopStep, LaunchHolds, PTL DEF Spec

-----------------------------------------------------------------------------
(***************************************************************************)
(* Breakpoints are not jumped over.  Between the line a command started    *)
(* from and the one it has come to there is none, and once that line is    *)
(* about to be executed there is none on it either, unless the command     *)
(* started from it.                                                        *)
(***************************************************************************)
Bps == breakPoints[sourceFile]

Ahead(ln) == IF run.reverse THEN ln <= run.from ELSE run.from <= ln

PassInv ==
  ~Idle =>
    /\ Ahead(currentLine)
    /\ run.phase = "find" => currentLine \in Scanned \/ currentLine = run.from
    /\ \A i \in DOMAIN Bps :
         /\ ~Between(Bps[i].line, run.from, currentLine)
         /\ run.phase # "find" /\ Bps[i].line = currentLine => currentLine = run.from

LEMMA RunningTypes ==
  ASSUME TypeInv, LaunchInv, Running
  PROVE  /\ ~Idle /\ Launched /\ run \in Runs /\ run.from \in Nat /\ run.reverse \in BOOLEAN
         /\ sourceFile \in Files /\ Bps \in Seq(Settled) /\ DOMAIN Bps = 1 .. Len(Bps)
         /\ \A i \in DOMAIN Bps : Bps[i].line \in Nat
         /\ currentLine \in Nat \ {0} /\ instruction \in Int
         /\ sent \in Seq(StopEvents) /\ instructionBreakpoints \subseteq Nat
         /\ SourceTypes /\ PositionTypes
         /\ UNCHANGED <<sourceFile, loaded, user, instructionBreakpoints>>
<1>1. ~Idle /\ UNCHANGED <<sourceFile, loaded, user, instructionBreakpoints>>
  BY DEF Running, ExecuteLine, ExecuteNoLine, UpdateCurrentLine, FindNextStatement, Idle, At,
     sourceVars, breakVars
<1>2. Launched /\ started /\ sourceFile # "none"
  BY <1>1 DEF LaunchInv, Launched
<1>3. sourceFile \in Files /\ Bps \in Seq(Settled)
  BY <1>2 DEF TypeInv, SourceTypes, BreakTypes, Bps
<1>4. DOMAIN Bps = 1 .. Len(Bps) /\ \A i \in DOMAIN Bps : Bps[i] \in Settled
  BY <1>3
<1>5. \A i \in DOMAIN Bps : Bps[i].line \in Nat
  BY <1>4 DEF Settled, Breakpoint
<1>6. run \in Runs /\ run.from \in Nat /\ run.reverse \in BOOLEAN /\ sent \in Seq(StopEvents)
  BY DEF TypeInv, RunTypes, Runs
<1>7. instructionBreakpoints \subseteq Nat
  BY RuntimeAssumption DEF TypeInv, RequestTypes
<1>8. SourceTypes /\ PositionTypes /\ currentLine \in Nat \ {0} /\ instruction \in Int
  BY DEF TypeInv, PositionTypes
<1>9. QED BY <1>1, <1>2, <1>3, <1>4, <1>5, <1>6, <1>7, <1>8

LEMMA LastSent ==
  ASSUME NEW event, sent \in Seq(StopEvents), sent' = Append(sent, event)
  PROVE  Last(sent') = event
BY DEF Last

\* One step of a command that is in progress.
LEMMA RunningPasses ==
  ASSUME TypeInv, LaunchInv, PassInv, Running
  PROVE  /\ Ahead(currentLine')
         /\ \A i \in DOMAIN Bps :
              /\ ~Between(Bps[i].line, run.from, currentLine')
              /\ run'.phase # "find" /\ Bps[i].line = currentLine' =>
                   \/ currentLine' = run.from
                   \/ run'.phase = "idle" /\ Last(sent') = "breakpoint"
         /\ run'.phase = "find" => (currentLine \in Scanned)'
         /\ \/ run' = NoRun
            \/ run'.from = run.from /\ run'.reverse = run.reverse /\ UNCHANGED breakPoints
<1> PICK to : to = currentLine'
  OBVIOUS
<1> DEFINE Clear == \A i \in DOMAIN Bps : ~Between(Bps[i].line, run.from, to)
           Free == \A i \in DOMAIN Bps : Bps[i].line = to => to = run.from
           Over == run' = NoRun /\ run'.phase = "idle"
           GoesOn == run'.from = run.from /\ run'.reverse = run.reverse /\ UNCHANGED breakPoints
<1>1. /\ ~Idle /\ run \in Runs /\ run.from \in Nat /\ run.reverse \in BOOLEAN
      /\ Bps \in Seq(Settled) /\ sent \in Seq(StopEvents)
      /\ \A i \in DOMAIN Bps : Bps[i].line \in Nat
      /\ currentLine \in Nat \ {0} /\ SourceTypes /\ PositionTypes /\ loaded' = loaded
  BY RunningTypes
<1>2. /\ Ahead(currentLine)
      /\ \A i \in DOMAIN Bps : ~Between(Bps[i].line, run.from, currentLine)
  BY <1>1 DEF PassInv
<1>3. ASSUME NEW phase, Goes(phase)
      PROVE  run'.phase = phase /\ run'.from = run.from /\ run'.reverse = run.reverse
  BY <1>1, <1>3 DEF Goes, Runs
<1>4. ASSUME NEW event, Stops(event)
      PROVE  run' = NoRun /\ run'.phase = "idle" /\ Last(sent') = event
  BY <1>1, <1>4, LastSent DEF Stops, NoRun
<1> DEFINE Goal == /\ Ahead(to) /\ Clear
                   /\ \/ run'.phase = "find" /\ (currentLine \in Scanned)'
                      \/ run'.phase # "find" /\ (Free \/ (Over /\ Last(sent') = "breakpoint"))
                   /\ Over \/ GoesOn
<1>5. ASSUME ExecuteLine \/ ExecuteNoLine PROVE Goal
  <2>1. /\ currentLine' = currentLine /\ breakPoints' = breakPoints /\ run.phase # "find"
        /\ Over \/ Goes("update")
    BY <1>4, <1>5 DEF ExecuteLine, ExecuteNoLine, NoRun, At, positionVars
  <2>2. to = currentLine /\ Free
    BY <1>1, <2>1 DEF PassInv
  <2> QED BY <1>2, <1>3, <2>1, <2>2
<1>6. ASSUME UpdateCurrentLine PROVE Goal
  <2>1. breakPoints' = breakPoints /\ run.phase = "update"
    BY <1>6 DEF UpdateCurrentLine, At
  <2>2. \A i \in DOMAIN Bps : Bps[i].line = currentLine => currentLine = run.from
    BY <1>1, <2>1 DEF PassInv
  <2>3. CASE run.reverse /\ LinesBack
    <3>1. to = currentLine - 1 /\ to \in Nat \ {0} /\ Goes("find")
      BY <1>1, <1>6, <2>3 DEF UpdateCurrentLine, MoveTo, LinesBack
    <3>2. (currentLine \in Scanned)'
      <4>1. run'.reverse = run.reverse
        BY <1>3, <3>1
      <4>2. \A n \in Nat \ {0} : n \in 1 .. n
        OBVIOUS
      <4> QED BY <2>3, <3>1, <4>1, <4>2 DEF Scanned
    <3>3. Ahead(to) /\ \A i \in DOMAIN Bps : ~Between(Bps[i].line, run.from, to)
      BY <1>1, <1>2, <2>2, <2>3, <3>1 DEF Ahead, Between
    <3> QED BY <1>3, <2>1, <3>1, <3>2, <3>3
  <2>4. CASE ~run.reverse /\ MoreLines
    <3>1. to = currentLine + 1 /\ Goes("find") /\ to <= Len(SourceLines) /\ Len(SourceLines) \in Nat
      BY <1>1, <1>6, <2>4, FilesHaveLines DEF UpdateCurrentLine, MoveTo, MoreLines, SourceTypes,
         Lines
    <3>2. (currentLine \in Scanned)'
      <4>1. Len(SourceLines') = Len(SourceLines) /\ ~run'.reverse
        BY <1>1, <1>3, <2>4, <3>1, SameLines
      <4>2. to \in to .. Len(SourceLines)
        BY <1>1, <3>1
      <4> QED BY <4>1, <4>2 DEF Scanned
    <3>3. Ahead(to) /\ \A i \in DOMAIN Bps : ~Between(Bps[i].line, run.from, to)
      BY <1>1, <1>2, <2>2, <2>4, <3>1 DEF Ahead, Between
    <3> QED BY <1>3, <2>1, <3>1, <3>2, <3>3
  <2>5. CASE ~(run.reverse /\ LinesBack) /\ ~(~run.reverse /\ MoreLines)
    <3>1. to = currentLine /\ run' = NoRun /\ run'.phase = "idle"
      BY <1>1, <1>4, <1>6, <2>5 DEF UpdateCurrentLine, MoveTo, LinesBack
    <3>2. Free
      BY <2>2, <3>1
    <3> QED BY <1>2, <3>1, <3>2
  <2>6. QED BY <2>3, <2>4, <2>5
<1>7. ASSUME FindNextStatement PROVE Goal
  <2>1. run.phase = "find" /\ (currentLine \in Scanned \/ currentLine = run.from)
    BY <1>1, <1>7 DEF FindNextStatement, At, PassInv
  <2>2. \A i \in DOMAIN Bps : BreakPointOn(Bps[i].line)
    <3>1. ASSUME NEW i \in DOMAIN Bps PROVE BreakPointOn(Bps[i].line)
      <4>1. PICK ln : ln = Bps[i].line
        OBVIOUS
      <4>2. FirstOn(Bps, ln) \in DOMAIN Bps /\ 0 \notin DOMAIN Bps
        BY <1>1, <4>1, FirstOnLine
      <4> QED BY <4>1, <4>2 DEF BreakPointOn, Bps
    <3> QED BY <3>1
  <2>3. CASE NoneFound
    <3>1. to = currentLine /\ ~AtBreakPoint /\ breakPoints' = breakPoints
      BY <1>7, <2>3 DEF FindNextStatement, AtBreakPoint
    <3>2. \A i \in DOMAIN Bps : Bps[i].line = currentLine => currentLine = run.from
      BY <2>1, <2>2, <2>3 DEF NoneFound, Found
    <3>3. \/ Over
          \/ Goes("execute")
      BY <1>4, <1>7, <3>1 DEF FindNextStatement
    <3>4. Free
      BY <3>1, <3>2
    <3> QED BY <1>2, <1>3, <3>1, <3>3, <3>4
  <2>4. CASE ~NoneFound
    <3>1. to = Nearest
      BY <1>7, <2>4 DEF FindNextStatement, MoveTo
    <3>2. /\ to \in Found(Scanned) /\ to \in Nat \ {0}
          /\ IF run.reverse
             THEN to \in 1 .. currentLine /\ \A ln \in Found(Scanned) : ln <= to
             ELSE to \in currentLine .. Len(SourceLines) /\ \A ln \in Found(Scanned) : to <= ln
      BY <1>1, <2>4, <3>1, NearestFound
    <3>3. Ahead(to)
      BY <1>1, <1>2, <3>2 DEF Ahead
    <3>4. Len(SourceLines) \in Nat
      BY <1>1, FilesHaveLines DEF SourceTypes, Lines
    <3>5. ASSUME NEW i \in DOMAIN Bps PROVE ~Between(Bps[i].line, run.from, to)
      <4>1. PICK ln : ln = Bps[i].line
        OBVIOUS
      <4>2. ln \in Nat /\ ~Between(ln, run.from, currentLine) /\ BreakPointOn(ln)
        BY <1>1, <1>2, <2>2, <4>1
      <4>3. ln \in Scanned => ln \in Found(Scanned)
        BY <4>2 DEF Found
      <4>4. CASE run.reverse
        <5>1. to < ln => ln \notin 1 .. currentLine
          BY <3>2, <4>2, <4>3, <4>4 DEF Scanned
        <5> QED BY <1>1, <1>2, <3>2, <3>3, <4>1, <4>2, <4>4, <5>1 DEF Between, Ahead
      <4>5. CASE ~run.reverse
        <5>1. ln < to => ln \notin currentLine .. Len(SourceLines)
          BY <1>1, <3>2, <3>4, <4>2, <4>3, <4>5 DEF Scanned
        <5> QED BY <1>1, <1>2, <3>2, <3>3, <3>4, <4>1, <4>2, <4>5, <5>1 DEF Between, Ahead
      <4> QED BY <1>1, <4>4, <4>5
    <3>6. CASE AtBreakPoint
      <4>1. run' = NoRun /\ run'.phase = "idle" /\ Last(sent') = "breakpoint"
        BY <1>4, <1>7, <3>6 DEF FindNextStatement
      <4> QED BY <3>3, <3>5, <4>1
    <3>7. CASE ~AtBreakPoint
      <4>1. \A i \in DOMAIN Bps : Bps[i].line # to
        BY <2>2, <2>4, <3>1, <3>7 DEF AtBreakPoint
      <4>2. /\ breakPoints' = breakPoints
            /\ \/ Over
               \/ Goes("execute")
        BY <1>4, <1>7, <3>7 DEF FindNextStatement
      <4> QED BY <1>3, <3>3, <3>5, <4>1, <4>2
    <3>8. QED BY <3>6, <3>7
  <2>5. QED BY <2>3, <2>4
<1>8. Goal
  BY <1>5, <1>6, <1>7 DEF Running
<1>9. QED BY <1>8 DEF Ahead, Between

LEMMA PassBegins ==
  ASSUME TypeInv', LaunchInv', run'.phase # "idle",
         run'.from = currentLine', currentLine' = currentLine
  PROVE  PassInv'
<1>1. Launched' /\ started' /\ sourceFile' # "none"
  BY DEF LaunchInv, Launched, Idle
<1>2. Bps' \in Seq(Settled) /\ currentLine' \in Nat
  BY <1>1 DEF TypeInv, SourceTypes, BreakTypes, PositionTypes, Bps
<1>3. \A i \in DOMAIN Bps' : Bps'[i] \in Settled
  BY <1>2
<1>4. \A i \in DOMAIN Bps' : Bps'[i].line \in Nat
  BY <1>3 DEF Settled, Breakpoint
<1>5. Ahead(currentLine)'
  BY <1>2 DEF Ahead
<1>6. QED BY <1>2, <1>4, <1>5 DEF PassInv, Between

LEMMA PassStep == TypeInv /\ LaunchInv /\ PassInv /\ [Next]_vars => PassInv'
<1> SUFFICES ASSUME TypeInv, LaunchInv, PassInv, [Next]_vars PROVE PassInv'
  OBVIOUS
<1>1. TypeInv' /\ LaunchInv'
  BY TypeStep, LaunchStep DEF TypeInv
<1>2. CASE Idle'
  BY <1>2 DEF PassInv
<1>3. CASE Running
  <2>1. sourceFile' = sourceFile
    BY <1>3, RunningTypes
  <2>2. CASE run' = NoRun
    BY <1>2, <2>2 DEF NoRun, Idle
  <2>3. CASE run'.from = run.from /\ run'.reverse = run.reverse /\ UNCHANGED breakPoints /\ ~Idle'
    <3>1. Bps' = Bps /\ run'.phase # "idle"
      BY <2>1, <2>3 DEF Bps, Idle
    <3>2. Ahead(currentLine)'
      BY <1>3, <2>3, RunningPasses DEF Ahead
    <3>3. ASSUME NEW i \in DOMAIN Bps
          PROVE  /\ ~Between(Bps[i].line, run'.from, currentLine')
                 /\ run'.phase # "find" /\ Bps[i].line = currentLine' => currentLine' = run'.from
      BY <1>3, <2>3, <3>1, RunningPasses
    <3>4. run'.phase = "find" => (currentLine \in Scanned)'
      BY <1>3, RunningPasses
    <3> QED BY <3>1, <3>2, <3>3, <3>4 DEF PassInv, Between
  <2>4. QED BY <1>2, <1>3, <2>2, <2>3, RunningPasses
<1>4. ASSUME NEW how, NEW lines, Starting(how, lines), UNCHANGED positionVars
      PROVE  PassInv'
  <2>1. run'.phase # "idle" /\ run'.from = currentLine /\ currentLine' = currentLine
    BY <1>4 DEF Starting, Run, positionVars
  <2> QED BY <1>1, <2>1, PassBegins
<1>5. ASSUME NEW op, NEW reverse, Begin(op, reverse)
      PROVE  PassInv'
  <2>1. run'.phase # "idle" /\ run'.from = currentLine /\ currentLine' = currentLine
    BY <1>5 DEF Begin, Run, positionVars
  <2> QED BY <1>1, <2>1, PassBegins
<1>6. ASSUME Idle, UNCHANGED run PROVE PassInv'
  BY <1>2, <1>6 DEF Idle
<1>7. CASE StepsAtOnce
  BY <1>2, <1>7 DEF StepsAtOnce, FineStep, NoRun, Idle
<1>8. CASE UNCHANGED vars
  BY <1>8 DEF vars, sourceVars, positionVars, PassInv, Idle, Ahead, Bps, Scanned, SourceLines
<1>9. ASSUME NEW how, Start(how) PROVE PassInv'
  BY <1>4, <1>6, <1>9 DEF Start
<1>10. ASSUME NEW i, ReadDone(i) PROVE PassInv'
  BY <1>4, <1>6, <1>10 DEF ReadDone
<1>11. QED
  BY <1>3, <1>5, <1>6, <1>7, <1>8, <1>9, <1>10, Kinds DEF SetBreakPoints, Configures

LEMMA NotRunning ==
  ASSUME [Next]_vars, ~Running, ~Idle
  PROVE  UNCHANGED vars
BY Kinds DEF SetBreakPoints, Configures, Start, ReadDone, Begin, StepsAtOnce

(***************************************************************************)
(* For any file, any breakpoints and any command of the user, forwards or  *)
(* backwards: findNextStatement and updateCurrentLine of mockRuntime.ts    *)
(* jump over no breakpoint, and stop at the line of one for that reason.   *)
(***************************************************************************)
THEOREM NoBreakpointJumped == Spec => NoneJumped
<1>1. Init => PassInv
  BY DEF Init, PassInv, NoRun, Idle
<1>2. TypeInv /\ LaunchInv /\ PassInv /\ [Next]_vars =>
        [run.phase # "idle" /\ run'.phase = "idle" /\ ~thrown' =>
           \A ln \in {breakPoints[sourceFile][i].line : i \in DOMAIN breakPoints[sourceFile]} :
             /\ ~Between(ln, run.from, currentLine')
             /\ ln = currentLine' => ln = run.from \/ Last(sent') = "breakpoint"]_vars
  <2> SUFFICES ASSUME TypeInv, LaunchInv, PassInv, [Next]_vars,
                      run.phase # "idle", run'.phase = "idle",
                      NEW ln \in {Bps[i].line : i \in DOMAIN Bps}
               PROVE  /\ ~Between(ln, run.from, currentLine')
                      /\ ln = currentLine' => ln = run.from \/ Last(sent') = "breakpoint"
    BY DEF Bps
  <2>1. Running
    BY NotRunning DEF Idle, vars
  <2>2. PICK i \in DOMAIN Bps : ln = Bps[i].line
    OBVIOUS
  <2>3. QED BY <2>1, <2>2, RunningPasses
<1>3. QED BY <1>1, <1>2, PassStep, LaunchHolds, PTL DEF Spec, NoneJumped

-----------------------------------------------------------------------------
(***************************************************************************)
(* Addresses.  Where findNextStatement looks, the instruction is the first *)
(* of the line: so it is when the file that the program is launched with   *)
(* has been read, and at each change of the line.                          *)
(***************************************************************************)
FindInv == run.phase = "find" => \A ln \in {currentLine} : instruction = Starts(ln)

LEMMA NoneBeforeFirst == SourceTypes' => Starts(1)' = 0 /\ Ends(1)' \in Nat
<1>1. SourceTypes => Starts(1) = 0 /\ Ends(1) \in Nat
  BY WordsAreCounted DEF SourceTypes
<1>2. SourceTypes' => (Starts(1) = 0 /\ Ends(1) \in Nat)'
  BY <1>1, PTL
<1>3. QED BY <1>2

LEMMA FindStep == TypeInv /\ LaunchInv /\ FindInv /\ [Next]_vars => FindInv'
<1> SUFFICES ASSUME TypeInv, LaunchInv, FindInv, [Next]_vars PROVE FindInv'
  OBVIOUS
<1>1. CASE run'.phase # "find"
  BY <1>1 DEF FindInv
<1>2. ASSUME NEW how, NEW lines, Starting(how, lines), ~Launched, UNCHANGED positionVars
      PROVE  FindInv'
  <2>1. currentLine' = 1 /\ instruction' = 0
    BY <1>2 DEF LaunchInv, positionVars
  <2>2. Starts(1)' = 0
    BY TypeStep, NoneBeforeFirst DEF TypeInv
  <2> QED BY <2>1, <2>2 DEF FindInv
<1>3. ASSUME NEW how, Start(how) PROVE FindInv'
  <2>1. ~Launched /\ UNCHANGED positionVars
    BY <1>3 DEF Start, Launched
  <2>2. CASE UNCHANGED run
    BY <1>1, <1>3, <2>2 DEF Start, Idle
  <2>3. QED BY <1>2, <1>3, <2>1, <2>2 DEF Start
<1>4. ASSUME NEW i \in DOMAIN reads, ReadDone(i) PROVE FindInv'
  <2>1. CASE UNCHANGED run
    BY <1>1, <1>4, <2>1 DEF ReadDone, Idle
  <2>2. CASE reads[i].waiter.starts # "no"
    BY <1>2, <1>4, <2>2 DEF ReadDone, Launched
  <2>3. QED BY <1>4, <2>1, <2>2 DEF ReadDone
<1>5. CASE UpdateCurrentLine
  <2>1. ASSUME NEW ln, MoveTo(ln) PROVE FindInv'
    <3>1. Starts(ln)' = Starts(ln)
      BY <1>5, SameLines DEF UpdateCurrentLine, sourceVars
    <3> QED BY <2>1, <3>1 DEF MoveTo, InstructionAt, FindInv
  <2>2. QED BY <1>1, <1>5, <2>1 DEF UpdateCurrentLine, Stops, NoRun
<1>6. CASE ExecuteLine \/ ExecuteNoLine \/ FindNextStatement
  <2>1. run'.phase # "find"
    BY <1>6 DEF ExecuteLine, ExecuteNoLine, FindNextStatement, Stops, Goes, NoRun, TypeInv,
       RunTypes, Runs
  <2> QED BY <1>1, <2>1
<1>7. ASSUME Idle, UNCHANGED run PROVE FindInv'
  BY <1>1, <1>7 DEF Idle
<1>8. CASE StepsAtOnce
  BY <1>1, <1>8 DEF StepsAtOnce, FineStep, NoRun
<1>9. ASSUME NEW op, NEW reverse, Begin(op, reverse) PROVE FindInv'
  BY <1>1, <1>9 DEF Begin, Run
<1>10. CASE UNCHANGED vars
  <2>1. \A ln : Starts(ln)' = Starts(ln)
    BY <1>10, SameLines DEF vars, sourceVars
  <2> QED BY <1>10, <2>1 DEF vars, positionVars, FindInv
<1>11. QED
  BY <1>3, <1>4, <1>5, <1>6, <1>7, <1>8, <1>9, <1>10, Kinds DEF SetBreakPoints, Configures, Running

(***************************************************************************)
(* A command that goes forwards is in front of every address that it has   *)
(* not met, and has the line behind it when it goes on to the next.        *)
(***************************************************************************)
AddressInv ==
  ~Idle /\ ~run.reverse =>
    /\ \A a \in instructionBreakpoints : run.first < a => instruction < a
    /\ run.phase = "update" => \A ln \in {currentLine} : Ends(ln) <= instruction

\* The lines that findNextStatement skips have no words.
LEMMA SkippedHaveNoWords ==
  ASSUME SourceTypes, PositionTypes, ~run.reverse, ~NoneFound
  PROVE  Starts(Nearest) = Starts(currentLine)
<1> PICK to : to = Nearest
  OBVIOUS
<1>1. to \in currentLine .. Len(SourceLines) /\ \A ln \in Found(Scanned) : to <= ln
  BY NearestFound
<1>2. currentLine \in Nat \ {0} /\ SourceLines \in Seq(Line) /\ Len(SourceLines) \in Nat
      /\ DOMAIN SourceLines = 1 .. Len(SourceLines)
  BY FilesHaveLines DEF SourceTypes, PositionTypes, Lines
<1>3. \A word \in Words : word[1] \in DOMAIN SourceLines
                          /\ word[2] \in DOMAIN SourceLines[word[1]].words
  BY WordsAreFinite DEF SourceTypes
<1>4. ASSUME NEW word \in Words, word[1] < to
      PROVE  word[1] < currentLine
  <2>1. SUFFICES ASSUME ~(word[1] < currentLine) PROVE FALSE
    OBVIOUS
  <2>2. PICK ln : ln = word[1]
    OBVIOUS
  <2>3. ln \in currentLine .. Len(SourceLines) /\ ln \in DOMAIN SourceLines /\ ~(to <= ln)
    BY <1>1, <1>2, <1>3, <1>4, <2>1, <2>2
  <2>4. ln \notin Found(Scanned) /\ ln \in Scanned
    BY <1>1, <2>3 DEF Scanned
  <2>5. SourceLines[ln].kind = "empty"
    BY <2>4 DEF Found
  <2>6. loaded \in Files /\ SourceLines = Text[loaded]
    BY <2>3 DEF SourceTypes, SourceLines
  <2>7. SourceLines[ln].words = << >>
    BY <2>3, <2>5, <2>6, RuntimeAssumption DEF Fits
  <2>8. QED BY <1>3, <2>2, <2>7
<1>5. \A word \in Words : word[1] < currentLine => word[1] < to
  BY <1>1, <1>2, <1>3
<1>6. {word \in Words : word[1] < to} = {word \in Words : word[1] < currentLine}
  BY <1>4, <1>5
<1>7. QED BY <1>6 DEF Starts

\* One step forwards.
LEMMA RunningForwards ==
  ASSUME TypeInv, LaunchInv, FindInv, AddressInv, Running, ~run.reverse
  PROVE  \/ /\ run' = NoRun /\ Last(sent') = "instructionBreakpoint"
            /\ \A a \in instructionBreakpoints : run.first < a => instruction' <= a
         \/ /\ \A a \in instructionBreakpoints : run.first < a => instruction' < a
            /\ \/ run' = NoRun
               \/ /\ run'.first = run.first /\ run'.reverse = run.reverse
                  /\ run'.phase = "update" => (\A ln \in {currentLine} : Ends(ln) <= instruction)'
<1>1. /\ ~Idle /\ run \in Runs /\ run.first \in Int /\ currentLine \in Nat \ {0}
      /\ instruction \in Int
      /\ instructionBreakpoints \subseteq Nat /\ loaded' = loaded /\ SourceTypes /\ PositionTypes
      /\ sent \in Seq(StopEvents)
  BY RunningTypes DEF Runs
<1>2. \A a \in instructionBreakpoints : run.first < a => instruction < a
  BY <1>1 DEF AddressInv
<1> DEFINE InFront == \A a \in instructionBreakpoints : run.first < a => instruction' < a
           Continues == run'.first = run.first /\ run'.reverse = run.reverse
<1>3. ASSUME NEW phase, Goes(phase) PROVE run'.phase = phase /\ Continues
  BY <1>1, <1>3 DEF Goes, Runs
<1>4. CASE ExecuteLine
  <2>1. /\ Ends(currentLine) \in Nat
        /\ Passed = IF instruction <= Ends(currentLine) THEN Ends(currentLine) ELSE instruction
    BY <1>1, InstructionsMet
  <2>2. Met = {a \in instructionBreakpoints : a \in instruction + 1 .. Ends(currentLine)}
    BY DEF Met
  <2>3. CASE Met # {} /\ instruction' = Min(Met) /\ Stops("instructionBreakpoint")
    <3>1. Min(Met) \in instruction + 1 .. Ends(currentLine) /\ \A a \in Met : Min(Met) <= a
      BY <1>1, <2>3, InstructionsMet
    <3>2. PICK m : m = Min(Met)
      OBVIOUS
    <3>3. ASSUME NEW a \in instructionBreakpoints, run.first < a PROVE instruction' <= a
      <4>1. a \in Nat /\ instruction < a
        BY <1>1, <1>2, <3>3
      <4>2. CASE a <= Ends(currentLine)
        <5>1. a \in Met
          BY <1>1, <2>1, <2>2, <4>1, <4>2
        <5> QED BY <2>3, <3>1, <5>1
      <4>3. CASE ~(a <= Ends(currentLine))
        BY <1>1, <2>1, <2>3, <3>1, <3>2, <4>1, <4>3
      <4> QED BY <4>2, <4>3
    <3>4. run' = NoRun /\ Last(sent') = "instructionBreakpoint"
      BY <1>1, <2>3, LastSent DEF Stops
    <3> QED BY <3>3, <3>4
  <2>4. CASE Met = {} /\ instruction' = Passed
    <3>1. ASSUME NEW a \in instructionBreakpoints, run.first < a PROVE instruction' < a
      <4>1. a \in Nat /\ instruction < a /\ a \notin Met
        BY <1>1, <1>2, <2>4, <3>1
      <4>2. ~(a <= Ends(currentLine))
        BY <1>1, <2>1, <2>2, <4>1
      <4> QED BY <1>1, <2>1, <2>4, <4>1, <4>2
    <3>2. run' = NoRun \/ Goes("update")
      BY <1>4, <2>4 DEF ExecuteLine, Stops
    <3>3. (\A ln \in {currentLine} : Ends(ln) <= instruction)'
      <4>1. currentLine' = currentLine /\ Ends(currentLine) <= instruction'
        BY <1>1, <1>4, <2>1, <2>4 DEF ExecuteLine
      <4>2. \A ln : Ends(ln)' = Ends(ln)
        BY <1>1, SameLines
      <4> QED BY <4>1, <4>2
    <3> QED BY <1>3, <3>1, <3>2, <3>3
  <2>5. QED BY <1>1, <1>4, <2>3, <2>4 DEF ExecuteLine
<1>5. CASE ExecuteNoLine
  BY <1>2, <1>5 DEF ExecuteNoLine, positionVars
<1>6. CASE UpdateCurrentLine
  <2>1. CASE MoveTo(currentLine + 1) /\ Goes("find")
    <3>1. Ends(currentLine) = Starts(currentLine + 1) /\ Ends(currentLine) \in Nat
      BY <1>1, WordsAreCounted DEF SourceTypes
    <3>2. Ends(currentLine) <= instruction
      BY <1>1, <1>6 DEF AddressInv, UpdateCurrentLine, At
    <3>3. instruction' = Ends(currentLine)
      BY <2>1, <3>1 DEF MoveTo, InstructionAt
    <3>4. InFront
      BY <1>1, <1>2, <3>1, <3>2, <3>3
    <3> QED BY <1>3, <2>1, <3>4
  <2>2. CASE Stops("end") /\ UNCHANGED instruction
    BY <1>2, <2>2 DEF Stops
  <2>3. QED BY <1>6, <2>1, <2>2 DEF UpdateCurrentLine
<1>7. CASE FindNextStatement
  <2>1. instruction' = instruction
    <3>1. instruction = Starts(currentLine)
      BY <1>7 DEF FindNextStatement, FindInv, At
    <3>2. CASE NoneFound
      BY <1>7, <3>2 DEF FindNextStatement, AtBreakPoint
    <3>3. CASE ~NoneFound
      BY <1>1, <1>7, <3>1, <3>3, SkippedHaveNoWords DEF FindNextStatement, MoveTo, InstructionAt
    <3> QED BY <3>2, <3>3
  <2>2. run' = NoRun \/ Goes("execute")
    BY <1>7 DEF FindNextStatement, Stops
  <2>3. QED BY <1>2, <1>3, <2>1, <2>2
<1>8. QED BY <1>4, <1>5, <1>6, <1>7 DEF Running

LEMMA AddressStep == TypeInv /\ LaunchInv /\ FindInv /\ AddressInv /\ [Next]_vars => AddressInv'
<1> SUFFICES ASSUME TypeInv, LaunchInv, FindInv, AddressInv, [Next]_vars PROVE AddressInv'
  OBVIOUS
<1>1. CASE Idle'
  BY <1>1 DEF AddressInv
<1>2. CASE run'.reverse
  BY <1>2 DEF AddressInv
<1>3. ASSUME run'.phase # "update", run'.first = instruction', instruction' = instruction
      PROVE  AddressInv'
  BY <1>3 DEF AddressInv
<1>4. CASE Running
  <2>1. instructionBreakpoints' = instructionBreakpoints
    BY <1>4, RunningTypes
  <2>2. CASE run' = NoRun
    BY <1>1, <2>2 DEF NoRun, Idle
  <2>3. CASE run' # NoRun /\ ~run.reverse
    BY <1>4, <2>1, <2>3, RunningForwards DEF AddressInv
  <2>4. CASE run' # NoRun /\ run.reverse
    BY <1>2, <1>4, <2>4, RunningTypes
    DEF Running, ExecuteLine, ExecuteNoLine, UpdateCurrentLine, FindNextStatement, Goes, Stops, Runs
  <2>5. QED BY <2>2, <2>3, <2>4, RunningTypes, <1>4
<1>5. ASSUME NEW how, NEW lines, Starting(how, lines), UNCHANGED positionVars
      PROVE  AddressInv'
  BY <1>3, <1>5 DEF Starting, Run, positionVars
<1>6. ASSUME NEW op, NEW reverse, Begin(op, reverse) PROVE AddressInv'
  BY <1>3, <1>6 DEF Begin, Run, positionVars
<1>7. ASSUME Idle, UNCHANGED run PROVE AddressInv'
  BY <1>1, <1>7 DEF Idle
<1>8. CASE StepsAtOnce
  BY <1>1, <1>8 DEF StepsAtOnce, FineStep, NoRun, Idle
<1>9. CASE UNCHANGED vars
  <2>1. \A ln : Ends(ln)' = Ends(ln)
    BY <1>9, SameLines DEF vars, sourceVars
  <2> QED BY <1>9, <2>1 DEF vars, positionVars, breakVars, AddressInv, Idle
<1>10. ASSUME NEW how, Start(how) PROVE AddressInv'
  BY <1>5, <1>7, <1>10 DEF Start
<1>11. ASSUME NEW i, ReadDone(i) PROVE AddressInv'
  BY <1>5, <1>7, <1>11 DEF ReadDone
<1>12. QED
  BY <1>4, <1>6, <1>7, <1>8, <1>9, <1>10, <1>11, Kinds DEF SetBreakPoints, Configures

(***************************************************************************)
(* For any file and any instruction breakpoints: no command that goes      *)
(* forwards through mockRuntime.ts passes the address of one, however the  *)
(* words are spread over the lines that are executed and skipped.          *)
(***************************************************************************)
THEOREM NoInstructionBreakpointPassed == Spec => NoAddressPassed
<1>1. Init => FindInv /\ AddressInv
  BY DEF Init, FindInv, AddressInv, NoRun, Idle
<1>2. TypeInv /\ LaunchInv /\ FindInv /\ AddressInv /\ [Next]_vars =>
        [run.phase # "idle" /\ run'.phase = "idle" /\ ~thrown' /\ ~run.reverse =>
           \A a \in instructionBreakpoints :
             run.first < a /\ a <= instruction' =>
               a = instruction' /\ Last(sent') = "instructionBreakpoint"]_vars
  <2> SUFFICES ASSUME TypeInv, LaunchInv, FindInv, AddressInv, [Next]_vars,
                      run.phase # "idle", run'.phase = "idle", ~run.reverse,
                      NEW a \in instructionBreakpoints, run.first < a, a <= instruction'
               PROVE  a = instruction' /\ Last(sent') = "instructionBreakpoint"
    OBVIOUS
  <2>1. Running
    BY NotRunning DEF Idle, vars
  <2>2. a \in Nat /\ instruction' \in Int
    BY TypeStep, RuntimeAssumption DEF TypeInv, RequestTypes, PositionTypes
  <2>3. ~(instruction' < a)
    BY <2>2
  <2>4. Last(sent') = "instructionBreakpoint" /\ instruction' <= a
    BY <2>1, <2>3, RunningForwards
  <2>5. QED BY <2>2, <2>4
<1>3. QED BY <1>1, <1>2, FindStep, AddressStep, LaunchHolds, PTL DEF Spec, NoAddressPassed

-----------------------------------------------------------------------------
(***************************************************************************)
(* One file.  Unless breakpoints are set in another file, the lines are    *)
(* those of the program once they have been read, and the current line is  *)
(* one of them; before that, it is the first.                              *)
(***************************************************************************)
FileInv ==
  ~Uses("otherFiles") =>
    /\ sourceFile \in {"none", Program} /\ loaded \in {"none", Program}
    /\ \A i \in DOMAIN reads : reads[i].file = Program
    /\ IF loaded = "none" THEN currentLine = 1 ELSE currentLine \in DOMAIN SourceLines
    /\ run.phase = "update" => loaded # "none"
    /\ run.phase = "find" /\ run.reverse => loaded # "none"

QuietInv == ~Idle => sent = << >> /\ ~thrown

LEMMA QuietStep == QuietInv /\ [Next]_vars => QuietInv'
<1> SUFFICES ASSUME QuietInv, [Next]_vars PROVE QuietInv'
  OBVIOUS
<1>1. CASE Idle'
  BY <1>1 DEF QuietInv
<1>2. CASE sent' = << >> /\ thrown' = FALSE
  BY <1>2 DEF QuietInv
<1>3. CASE UNCHANGED <<sent, thrown>> /\ ~Idle
  BY <1>3 DEF QuietInv
<1>4. ASSUME Idle, UNCHANGED run PROVE QuietInv'
  BY <1>1, <1>4 DEF Idle
<1>5. CASE Running
  BY <1>1, <1>3, <1>5 DEF Running, ExecuteLine, ExecuteNoLine, UpdateCurrentLine, FindNextStatement,
     Stops, Goes, NoRun, Idle, At
<1>6. ASSUME NEW how, Start(how) PROVE QuietInv'
  BY <1>2, <1>4, <1>6 DEF Start, Starting
<1>7. ASSUME NEW i, ReadDone(i) PROVE QuietInv'
  BY <1>2, <1>4, <1>7 DEF ReadDone, Starting
<1>8. CASE UNCHANGED vars
  BY <1>8 DEF vars, QuietInv, Idle
<1>9. QED
  BY <1>1, <1>2, <1>4, <1>5, <1>6, <1>7, <1>8, Kinds
  DEF SetBreakPoints, Configures, Begin, StepsAtOnce, FineStep, NoRun, Idle

LEMMA FileStep == TypeInv /\ LaunchInv /\ FileInv /\ [Next]_vars => FileInv'
<1> SUFFICES ASSUME TypeInv, LaunchInv, FileInv, [Next]_vars, ~Uses("otherFiles")' PROVE FileInv'
  BY DEF FileInv
<1>1. TypeInv' /\ user' = user
  <2>1. user' = user
    BY Kinds DEF SetBreakPoints, Configures, Start, ReadDone, Begin, StepsAtOnce, Running,
       ExecuteLine,
       ExecuteNoLine, UpdateCurrentLine, FindNextStatement, sourceVars, vars
  <2> QED BY <2>1, TypeStep
<1>2. /\ sourceFile \in {"none", Program} /\ loaded \in {"none", Program}
      /\ \A i \in DOMAIN reads : reads[i].file = Program
      /\ IF loaded = "none" THEN currentLine = 1 ELSE currentLine \in DOMAIN SourceLines
      /\ run.phase = "update" => loaded # "none"
      /\ run.phase = "find" /\ run.reverse => loaded # "none"
  BY <1>1 DEF FileInv, Uses
<1>3. /\ reads \in Seq(Reads) /\ DOMAIN reads = 1 .. Len(reads) /\ Len(reads) \in Nat
      /\ reads' \in Seq(Reads) /\ DOMAIN reads' = 1 .. Len(reads')
  BY <1>1 DEF TypeInv, SourceTypes
<1>4. /\ Program \in Files /\ "none" \notin Files /\ currentLine \in Nat \ {0}
      /\ SourceLines = IF loaded = "none" THEN << >> ELSE Text[loaded]
      /\ DOMAIN SourceLines = 1 .. Len(SourceLines) /\ Len(SourceLines) \in Nat
      /\ DOMAIN Text[Program] = 1 .. Len(Text[Program]) /\ Len(Text[Program]) \in Nat \ {0}
  BY RuntimeAssumption, FilesHaveLines DEF TypeInv, SourceTypes, PositionTypes, Lines, SourceLines
<1> DEFINE OnLine(ln) == IF loaded = "none" THEN ln = 1 ELSE ln \in DOMAIN SourceLines
\* A request: the reads stay with the program.
<1>5. ASSUME NEW file \in Files, NEW lines, SetBreakPoints(file, lines) PROVE FileInv'
  <2>1. file = Program
    BY <1>1, <1>5 DEF SetBreakPoints, Uses
  <2>2. /\ Forget(file) \in Seq(Reads) /\ Len(Forget(file)) = Len(reads)
        /\ \A i \in DOMAIN reads : Forget(file)[i].file = Program
    BY <1>2, ReadForgotten DEF TypeInv
  <2>3. CASE LoadSource(Forget(file), file, Waiter(TRUE, "no"))
    <3>1. /\ sourceFile' = file /\ Len(reads') = Len(reads) + 1
          /\ \A i \in 1 .. Len(reads) : reads'[i] = Forget(file)[i]
          /\ reads'[Len(reads) + 1].file = file
      <4>1. PICK outstanding : outstanding = Forget(file)
        OBVIOUS
      <4>2. /\ sourceFile' = file /\ Len(reads') = Len(outstanding) + 1
            /\ \A i \in 1 .. Len(outstanding) : reads'[i] = outstanding[i]
            /\ reads'[Len(outstanding) + 1].file = file
        BY <2>2, <2>3, <4>1, ReadBegun
      <4> QED BY <2>2, <4>1, <4>2
    <3>2. \A i \in DOMAIN reads' : reads'[i].file = Program
      BY <1>3, <2>1, <2>2, <3>1
    <3>3. UNCHANGED <<loaded, currentLine, run>>
      BY <1>5 DEF SetBreakPoints, positionVars
    <3> QED BY <1>2, <2>1, <3>1, <3>2, <3>3 DEF FileInv, SourceLines
  <2>4. CASE reads' = Forget(file) /\ UNCHANGED sourceFile
    <3>1. \A i \in DOMAIN reads' : reads'[i].file = Program
      BY <1>3, <2>2, <2>4
    <3>2. UNCHANGED <<loaded, currentLine, run>>
      BY <1>5 DEF SetBreakPoints, positionVars
    <3> QED BY <1>2, <2>4, <3>1, <3>2 DEF FileInv, SourceLines
  <2>5. QED BY <1>5, <2>3, <2>4 DEF SetBreakPoints
<1>6. ASSUME NEW how \in {"entry", "debug", "noDebug"}, Start(how) PROVE FileInv'
  <2>1. UNCHANGED <<loaded, currentLine>>
    BY <1>6 DEF Start, positionVars
  <2>2. run'.phase # "update" /\ ~(run'.phase = "find" /\ run'.reverse)
    <3>1. CASE UNCHANGED run
      BY <1>6, <3>1 DEF Start, Idle
    <3>2. ASSUME NEW lines, Starting(how, lines)
          PROVE  run'.phase # "update" /\ run'.reverse = FALSE
      BY <3>2 DEF Starting, Run
    <3> QED BY <1>6, <3>1, <3>2 DEF Start
  <2>3. sourceFile' = Program /\ \A i \in DOMAIN reads' : reads'[i].file = Program
    <3>1. CASE LoadSource(reads, Program, Waiter(FALSE, how))
      <4>1. /\ sourceFile' = Program /\ Len(reads') = Len(reads) + 1
            /\ \A i \in 1 .. Len(reads) : reads'[i] = reads[i]
            /\ reads'[Len(reads) + 1].file = Program
        BY <1>3, <1>4, <3>1, ReadBegun
      <4> QED BY <1>2, <1>3, <4>1
    <3>2. CASE UNCHANGED <<sourceFile, reads>> /\ IsCurrent(Program)
      BY <1>2, <3>2 DEF IsCurrent
    <3> QED BY <1>6, <3>1, <3>2 DEF Start
  <2> QED BY <1>2, <2>1, <2>2, <2>3 DEF FileInv, SourceLines
<1>7. ASSUME NEW i \in DOMAIN reads, ReadDone(i) PROVE FileInv'
  <2>1. /\ loaded' = Program /\ reads' = RemoveAt(reads, i)
        /\ UNCHANGED <<sourceFile, currentLine>>
    BY <1>2, <1>7 DEF ReadDone, InitializeContents, positionVars
  <2>2. run'.phase # "update" /\ ~(run'.phase = "find" /\ run'.reverse)
    BY <1>7 DEF ReadDone, Starting, Run, Idle
  <2>3. /\ Len(RemoveAt(reads, i)) = Len(reads) - 1
        /\ \A k \in 1 .. Len(reads) - 1 :
             RemoveAt(reads, i)[k] = IF k < i THEN reads[k] ELSE reads[k + 1]
    BY <1>3, Removed
  <2>4. ASSUME NEW k \in DOMAIN reads' PROVE reads'[k].file = Program
    <3>1. k \in 1 .. Len(reads) - 1
      BY <1>3, <2>1, <2>3
    <3>2. reads'[k] = IF k < i THEN reads[k] ELSE reads[k + 1]
      BY <2>1, <2>3, <3>1
    <3>3. k \in DOMAIN reads /\ k + 1 \in DOMAIN reads
      BY <1>3, <3>1
    <3> QED BY <1>2, <3>2, <3>3
  <2>5. SourceLines' = Text[Program] /\ currentLine' \in DOMAIN Text[Program]
    BY <1>2, <1>4, <2>1 DEF SourceLines
  <2>6. loaded' # "none"
    BY <1>4, <2>1
  <2> QED BY <1>2, <2>1, <2>2, <2>4, <2>5, <2>6 DEF FileInv
\* A step of a command: the line stays in the file.
<1>8. ASSUME UNCHANGED sourceVars, OnLine(currentLine'),
             run'.phase = "update" => loaded # "none",
             run'.phase = "find" /\ run'.reverse => loaded # "none"
      PROVE  FileInv'
  BY <1>2, <1>8 DEF sourceVars, FileInv, SourceLines
<1>9. CASE ExecuteLine \/ ExecuteNoLine
  <2>1. run'.phase = "idle" \/ (run'.phase = "update" /\ currentLine \in DOMAIN SourceLines)
    BY <1>9 DEF ExecuteLine, ExecuteNoLine, Stops, Goes, NoRun, TypeInv, RunTypes, Runs
  <2>2. UNCHANGED <<sourceVars, currentLine>>
    BY <1>9 DEF ExecuteLine, ExecuteNoLine, positionVars
  <2> QED BY <1>2, <1>4, <1>8, <2>1, <2>2
<1>10. CASE UpdateCurrentLine
  <2>1. UNCHANGED sourceVars /\ loaded # "none" /\ currentLine \in 1 .. Len(SourceLines)
    BY <1>2, <1>4, <1>10 DEF UpdateCurrentLine, At
  <2>2. currentLine' \in {currentLine, 1} \/ (currentLine > 1 /\ currentLine' = currentLine - 1)
        \/ (currentLine < Len(SourceLines) /\ currentLine' = currentLine + 1)
    BY <1>10 DEF UpdateCurrentLine, MoveTo, MoreLines, LinesBack
  <2>3. currentLine' \in DOMAIN SourceLines
    BY <1>4, <2>1, <2>2
  <2> QED BY <1>8, <2>1, <2>3
<1>11. CASE FindNextStatement
  <2>1. UNCHANGED sourceVars /\ run.phase = "find" /\ run'.phase # "update" /\ run'.phase # "find"
    BY <1>11 DEF FindNextStatement, At, Stops, Goes, NoRun, TypeInv, RunTypes, Runs
  <2>2. CASE currentLine' = currentLine
    BY <1>2, <1>8, <2>1, <2>2
  <2>3. CASE ~NoneFound /\ currentLine' = Nearest
    <3>1. PICK to : to = Nearest
      OBVIOUS
    <3>2. IF run.reverse THEN to \in 1 .. currentLine ELSE to \in currentLine .. Len(SourceLines)
      BY <2>3, <3>1, NearestFound DEF TypeInv
    <3>3. loaded # "none"
      BY <1>2, <1>4, <2>1, <3>2
    <3>4. to \in DOMAIN SourceLines
      BY <1>2, <1>4, <3>2, <3>3
    <3> QED BY <1>8, <2>1, <2>3, <3>1, <3>3, <3>4
  <2>4. QED BY <1>11, <2>2, <2>3 DEF FindNextStatement, AtBreakPoint, MoveTo
<1>12. CASE Configures \/ UNCHANGED vars
  BY <1>2, <1>8, <1>12 DEF Configures, positionVars, vars
<1>13. ASSUME NEW op, NEW reverse, Begin(op, reverse) PROVE FileInv'
  BY <1>2, <1>8, <1>13 DEF Begin, Run, positionVars
<1>14. CASE StepsAtOnce
  BY <1>2, <1>8, <1>14 DEF StepsAtOnce, FineStep, NoRun
<1>15. QED
  BY <1>5, <1>6, <1>7, <1>9, <1>10, <1>11, <1>12, <1>13, <1>14, Kinds DEF Running

(***************************************************************************)
(* The instruction follows the line, whatever way a command came to it.    *)
(***************************************************************************)
StoppedAtLine ==
  /\ Idle /\ run.op # "fineStep" /\ sent # << >> /\ Last(sent) \in {"breakpoint", "step", "entry"}

LineInv ==
  ~Uses("otherFiles") =>
    \A ln \in {currentLine} :
      /\ StoppedAtLine => instruction = Starts(ln)
      /\ ~Uses("instructionSteps") => instruction \in Starts(ln) - 1 .. Ends(ln)

LEMMA LineStep ==
  TypeInv /\ LaunchInv /\ FindInv /\ QuietInv /\ FileInv /\ LineInv /\ [Next]_vars => LineInv'
<1> SUFFICES ASSUME TypeInv, LaunchInv, FindInv, QuietInv, FileInv, LineInv, [Next]_vars,
                    ~Uses("otherFiles")'
             PROVE  LineInv'
  BY DEF LineInv
<1>1. TypeInv' /\ user' = user
  <2>1. user' = user
    BY Kinds DEF SetBreakPoints, Configures, Start, ReadDone, Begin, StepsAtOnce, Running,
       ExecuteLine,
       ExecuteNoLine, UpdateCurrentLine, FindNextStatement, sourceVars, vars
  <2> QED BY <2>1, TypeStep
<1>2. /\ StoppedAtLine => instruction = Starts(currentLine)
      /\ ~Uses("instructionSteps") => instruction \in Starts(currentLine) - 1 .. Ends(currentLine)
  BY <1>1 DEF LineInv, Uses
<1>3. /\ SourceTypes /\ PositionTypes /\ currentLine \in Nat \ {0} /\ instruction \in Int
      /\ run \in Runs
      /\ sent \in Seq(StopEvents)
  BY DEF TypeInv, PositionTypes, RunTypes
<1>4. \A ln \in Nat : /\ Starts(ln) \in Nat /\ Ends(ln) \in Nat /\ Starts(ln) <= Ends(ln)
                      /\ Ends(ln) = Starts(ln + 1)
  BY <1>3, WordsAreCounted DEF SourceTypes
\* What has to be shown when the file stays, and when it has just been read.
<1>5. ASSUME NEW ln \in Nat, ln = currentLine', loaded' = loaded,
             StoppedAtLine' => instruction' = Starts(ln),
             ~Uses("instructionSteps") => instruction' \in Starts(ln) - 1 .. Ends(ln)
      PROVE  LineInv'
  <2>1. Starts(ln)' = Starts(ln) /\ Ends(ln)' = Ends(ln)
    BY <1>5, SameLines
  <2> QED BY <1>1, <1>5, <2>1 DEF LineInv, Uses
<1>6. ASSUME loaded' = loaded, UNCHANGED <<currentLine, instruction>>, StoppedAtLine' => StoppedAtLine
      PROVE  LineInv'
  BY <1>2, <1>3, <1>5, <1>6
<1>7. CASE \/ Configures
           \/ \E file, lines : SetBreakPoints(file, lines)
           \/ UNCHANGED vars
  BY <1>6, <1>7 DEF Configures, SetBreakPoints, sourceVars, positionVars, vars, StoppedAtLine, Idle
<1>8. ASSUME run'.phase # "idle" PROVE ~StoppedAtLine'
  BY <1>8 DEF StoppedAtLine, Idle
<1>9. ASSUME NEW how, Start(how) PROVE LineInv'
  <2>1. UNCHANGED <<loaded, currentLine, instruction>>
    BY <1>9 DEF Start, positionVars
  <2>2. CASE UNCHANGED <<run, sent>>
    BY <1>6, <2>1, <2>2 DEF StoppedAtLine, Idle
  <2>3. ASSUME NEW lines, Starting(how, lines) PROVE LineInv'
    BY <1>6, <1>8, <2>1, <2>3 DEF Starting, Run
  <2> QED BY <1>9, <2>2, <2>3 DEF Start
<1>10. ASSUME NEW i \in DOMAIN reads, ReadDone(i) PROVE LineInv'
  <2>1. loaded' = Program /\ UNCHANGED <<currentLine, instruction>>
    BY <1>1, <1>10 DEF ReadDone, InitializeContents, positionVars, FileInv, Uses
  <2>2. StoppedAtLine' => StoppedAtLine
    <3>1. CASE UNCHANGED <<run, sent>>
      BY <3>1 DEF StoppedAtLine, Idle
    <3>2. ASSUME NEW how, Starting(how, Text[reads[i].file]) PROVE ~StoppedAtLine'
      BY <1>8, <3>2 DEF Starting, Run
    <3> QED BY <1>10, <3>1, <3>2 DEF ReadDone
  <2>3. CASE loaded = Program
    BY <1>6, <2>1, <2>2, <2>3
  <2>4. CASE loaded = "none"
    <3>1. currentLine = 1 /\ currentLine' = 1
      BY <1>1, <2>1, <2>4 DEF FileInv, Uses
    <3>2. Starts(1) = 0 /\ Ends(1) = 0
      <4>1. Words = {}
        BY <2>4 DEF Words, SourceLines
      <4> QED BY <4>1, FS_EmptySet DEF Starts, Ends
    <3>3. Starts(1)' = 0 /\ Ends(1)' \in Nat
      BY <1>1, NoneBeforeFirst DEF TypeInv
    <3>4. StoppedAtLine' => instruction' = 0
      BY <1>2, <2>1, <2>2, <3>1, <3>2
    <3>5. ~Uses("instructionSteps") => instruction' \in 0 - 1 .. 0
      BY <1>2, <2>1, <3>1, <3>2
    <3>6. ~Uses("instructionSteps") => instruction' \in Starts(1)' - 1 .. Ends(1)'
      BY <3>3, <3>5
    <3> QED BY <1>1, <3>1, <3>3, <3>4, <3>6 DEF LineInv, Uses
  <2>5. QED BY <1>1, <2>3, <2>4 DEF FileInv, Uses
<1>11. ASSUME NEW op, NEW reverse, Begin(op, reverse) PROVE LineInv'
  BY <1>6, <1>8, <1>11 DEF Begin, Run, sourceVars, positionVars
<1>12. CASE StepInstruction(1) \/ StepInstruction(-1) \/ StepInTarget \/ StepIn \/ StepOut
  <2>1. ~StoppedAtLine' /\ UNCHANGED <<loaded, currentLine>>
    BY <1>12 DEF StepInstruction, StepInTarget, StepIn, StepOut, StepsAtOnce, FineStep, NoRun,
       StoppedAtLine, sourceVars
  <2>2. Uses("instructionSteps") \/ UNCHANGED instruction
    BY <1>12 DEF StepInstruction, StepInTarget, StepIn, StepOut
  <2> QED BY <1>2, <1>3, <1>5, <2>1, <2>2
\* Steps of a command.
<1>13. ASSUME NEW ln \in Nat, MoveTo(ln), loaded' = loaded PROVE LineInv'
  <2>1. instruction' = Starts(ln) /\ ln = currentLine'
    BY <1>13 DEF MoveTo, InstructionAt
  <2>2. Starts(ln) \in Nat /\ Ends(ln) \in Nat /\ Starts(ln) <= Ends(ln)
    BY <1>4
  <2>3. Starts(ln) \in Starts(ln) - 1 .. Ends(ln)
    BY <2>2
  <2> QED BY <1>5, <1>13, <2>1, <2>3
<1>14. CASE ExecuteLine
  <2>1. loaded' = loaded /\ currentLine' = currentLine /\ ~Idle
    BY <1>14 DEF ExecuteLine, At, Idle, sourceVars
  <2>2. ~StoppedAtLine'
    <3>1. sent = << >>
      BY <2>1 DEF QuietInv
    <3>2. ASSUME NEW event, Stops(event) PROVE Last(sent') = event
      BY <1>3, <3>2, LastSent DEF Stops
    <3>3. ASSUME Goes("update") PROVE run'.phase = "update"
      BY <1>3, <3>3 DEF Goes, Runs
    <3> QED BY <1>14, <3>2, <3>3 DEF ExecuteLine, StoppedAtLine, Idle
  <2>3. instruction' = Passed \/ (Met # {} /\ instruction' = IF run.reverse THEN Max(Met) ELSE Min(Met))
    BY <1>14 DEF ExecuteLine
  <2>4. ASSUME instruction \in Starts(currentLine) - 1 .. Ends(currentLine)
        PROVE  instruction' \in Starts(currentLine) - 1 .. Ends(currentLine)
    <3>1. /\ Starts(currentLine) \in Nat /\ Ends(currentLine) \in Nat
          /\ Starts(currentLine) <= Ends(currentLine)
      BY <1>3, <1>4
    <3>2. CASE instruction' = Passed
      BY <1>3, <2>4, <3>1, <3>2, InstructionsMet
    <3>3. CASE Met # {} /\ run.reverse /\ instruction' = Max(Met)
      <4>1. instruction' \in Starts(currentLine) - 1 .. instruction - 1
        BY <1>3, <3>3, InstructionsMet
      <4> QED BY <1>3, <2>4, <3>1, <4>1
    <3>4. CASE Met # {} /\ ~run.reverse /\ instruction' = Min(Met)
      <4>1. instruction' \in instruction + 1 .. Ends(currentLine)
        BY <1>3, <3>4, InstructionsMet
      <4> QED BY <1>3, <2>4, <3>1, <4>1
    <3> QED BY <2>3, <3>2, <3>3, <3>4
  <2> QED BY <1>2, <1>3, <1>5, <2>1, <2>2, <2>4
<1>15. CASE ExecuteNoLine
  <2>1. ~Idle /\ UNCHANGED <<loaded, currentLine, instruction, sent>>
    BY <1>15 DEF ExecuteNoLine, At, Idle, sourceVars, positionVars
  <2>2. ~StoppedAtLine'
    BY <2>1 DEF QuietInv, StoppedAtLine
  <2> QED BY <1>6, <2>1, <2>2
<1>16. CASE UpdateCurrentLine
  <2>1. loaded' = loaded
    BY <1>16 DEF UpdateCurrentLine, sourceVars
  <2>2. CASE Stops("end") /\ UNCHANGED <<currentLine, instruction>>
    <3>1. Last(sent') = "end"
      BY <1>3, <2>2, LastSent DEF Stops
    <3> QED BY <1>6, <2>1, <2>2, <3>1 DEF StoppedAtLine
  <2>3. CASE \E ln \in Nat : MoveTo(ln)
    BY <1>13, <2>1, <2>3
  <2>4. /\ currentLine + 1 \in Nat /\ 1 \in Nat
        /\ LinesBack => currentLine - 1 \in Nat
    BY <1>3 DEF LinesBack
  <2> QED BY <1>16, <2>2, <2>3, <2>4 DEF UpdateCurrentLine
<1>17. CASE FindNextStatement
  <2>1. loaded' = loaded /\ instruction = Starts(currentLine)
    BY <1>17 DEF FindNextStatement, At, FindInv, sourceVars
  <2>2. CASE UNCHANGED <<currentLine, instruction>>
    BY <1>2, <1>3, <1>5, <2>1, <2>2
  <2>3. CASE ~NoneFound /\ MoveTo(Nearest)
    <3>1. Nearest \in Nat
      BY <1>3, <2>3, NearestFound
    <3> QED BY <1>13, <2>1, <2>3, <3>1
  <2> QED BY <1>17, <2>2, <2>3 DEF FindNextStatement, AtBreakPoint
<1>18. QED
  BY <1>7, <1>9, <1>10, <1>11, <1>12, <1>14, <1>15, <1>16, <1>17, Kinds
  DEF Running, Next, Continue, ReverseContinue, Step, StepBack, AddBreakpoint, ClearBreakPoint,
      SetInstructionBreakpoints, SetDataBreakpoints, SetExceptionBreakpoints, OnlyBreakVars,
      Configures

LEMMA LinesHold == Spec => [](TypeInv /\ LaunchInv /\ FindInv /\ QuietInv /\ FileInv /\ LineInv)
<1>1. Init => FindInv /\ QuietInv /\ FileInv
  BY DEF Init, SourceInit, FindInv, QuietInv, FileInv, NoRun, Idle
<1>2. Init => LineInv
  <2> SUFFICES ASSUME Init PROVE LineInv
    OBVIOUS
  <2>1. loaded = "none" /\ currentLine = 1 /\ instruction = 0 /\ sent = << >>
    BY DEF Init, SourceInit
  <2>2. Starts(1) = 0 /\ Ends(1) = 0
    <3>1. Words = {}
      BY <2>1 DEF Words, SourceLines
    <3> QED BY <3>1, FS_EmptySet DEF Starts, Ends
  <2>3. QED BY <2>1, <2>2 DEF LineInv, StoppedAtLine
<1>3. QED BY <1>1, <1>2, FindStep, QuietStep, FileStep, LineStep, LaunchHolds, PTL DEF Spec

(***************************************************************************)
(* For any program and any breakpoints in it: whichever way a command of   *)
(* mockRuntime.ts came, the instruction it leaves is that of the line it   *)
(* stops at, and without instruction steps it never leaves that line by    *)
(* more than the instruction before it.                                    *)
(***************************************************************************)
THEOREM InstructionFollowsLine == Spec => []InstructionOnLine
<1>1. LineInv => InstructionOnLine
  BY DEF LineInv, InstructionOnLine, AtLineStop, StoppedAtLine
<1>2. QED BY <1>1, LinesHold, PTL

(***************************************************************************)
(* For any program and any breakpoints in it: getLine of mockRuntime.ts    *)
(* never looks beyond the first or the last line of a file that has been   *)
(* read, so a command fails there only when it overtakes the reading.      *)
(***************************************************************************)
THEOREM OnlyUnreadThrows == Spec => ThrowsUnloaded
<1>1. FileInv /\ [Next]_vars => [thrown' /\ ~thrown /\ ~Uses("otherFiles") => loaded = "none"]_vars
  <2> SUFFICES ASSUME FileInv, [Next]_vars, thrown', ~thrown, ~Uses("otherFiles")
               PROVE  loaded = "none"
    OBVIOUS
  <2>1. ExecuteNoLine
    BY Kinds DEF SetBreakPoints, Configures, Start, Starting, ReadDone, Begin, StepsAtOnce, Running,
       ExecuteLine, UpdateCurrentLine, FindNextStatement, vars
  <2>2. QED BY <2>1 DEF ExecuteNoLine, FileInv
<1>2. QED BY <1>1, LinesHold, PTL DEF Spec, ThrowsUnloaded

-----------------------------------------------------------------------------
(***************************************************************************)
(* The disassembly.  The instructions are the words of the lines one after *)
(* the other, so the address of a word is the number of words before it.   *)
(***************************************************************************)
\* FlattenSeq of a sequence of sequences, step by step.
LEMMA Flattened ==
  ASSUME NEW T, NEW seqs \in Seq(Seq(T)), Len(seqs) > 0
  PROVE  \E flat : /\ \A i \in 1 .. Len(seqs) :
                        flat[i] = IF i = 1 THEN seqs[i] ELSE flat[i - 1] \o seqs[i]
                   /\ FlattenSeq(seqs) = flat[Len(seqs)]
<1> DEFINE n == Len(seqs)
           Joins(f, m) == f = [i \in 1 .. m |-> IF i = 1 THEN seqs[i] ELSE f[i - 1] \o seqs[i]]
           missing == {m \in Nat : ~\E f : Joins(f, m)}
<1>1. missing = {}
  <2>1. SUFFICES ASSUME missing # {} PROVE FALSE
    OBVIOUS
  <2>2. PICK m \in missing : \A k \in missing : m <= k
    <3>1. missing \in SUBSET Nat
      OBVIOUS
    <3> HIDE DEF missing
    <3> QED BY <2>1, <3>1, LeastNatural
  <2>3. CASE m = 0
    <3>1. 1 .. 0 = {}
      OBVIOUS
    <3>2. Joins([i \in {} |-> {}], 0)
      BY <3>1
    <3> QED BY <2>2, <2>3, <3>2
  <2>4. CASE m # 0
    <3>1. m - 1 \in Nat /\ m \in Nat /\ ~(m <= m - 1)
      BY <2>2, <2>4
    <3>2. m - 1 \notin missing
      <4> HIDE DEF missing
      <4> QED BY <2>2, <3>1
    <3>3. PICK f : Joins(f, m - 1)
      BY <3>1, <3>2
    <3> DEFINE g == [i \in 1 .. m |-> IF i = m
                                      THEN IF i = 1 THEN seqs[i] ELSE f[m - 1] \o seqs[i]
                                      ELSE f[i]]
    <3>4. ASSUME NEW i \in 1 .. m
          PROVE  g[i] = IF i = 1 THEN seqs[i] ELSE g[i - 1] \o seqs[i]
      <4>1. CASE i = m
        <5>1. i # 1 => i - 1 \in 1 .. m /\ i - 1 # m
          BY <3>1, <4>1
        <5>2. g[i] = IF i = 1 THEN seqs[i] ELSE f[m - 1] \o seqs[i]
          BY <4>1
        <5>3. i # 1 => g[i - 1] = f[m - 1]
          BY <4>1, <5>1
        <5> QED BY <5>2, <5>3
      <4>2. CASE i # m
        <5>1. i \in 1 .. m - 1 /\ g[i] = f[i]
          BY <3>1, <4>2
        <5>2. f[i] = IF i = 1 THEN seqs[i] ELSE f[i - 1] \o seqs[i]
          BY <3>3, <5>1
        <5>3. i # 1 => i - 1 \in 1 .. m /\ i - 1 # m /\ g[i - 1] = f[i - 1]
          BY <3>1, <5>1
        <5> QED BY <5>1, <5>2, <5>3
      <4> QED BY <4>1, <4>2
    <3>5. Joins(g, m)
      <4>1. g = [i \in 1 .. m |-> g[i]]
        OBVIOUS
      <4> HIDE DEF g
      <4> QED BY <3>4, <4>1
    <3> HIDE DEF g, Joins
    <3> QED BY <2>2, <3>5
  <2> QED BY <2>3, <2>4
<1> DEFINE flat == CHOOSE f : Joins(f, n)
<1>2. Joins(flat, n)
  <2>1. n \in Nat
    OBVIOUS
  <2>2. \E f : Joins(f, n)
    BY <1>1, <2>1
  <2> HIDE DEF Joins
  <2> QED BY <2>2
<1>3. FlattenSeq(seqs) = flat[n]
  BY DEF FlattenSeq
<1> HIDE DEF flat, missing
<1>4. \A i \in 1 .. n : flat[i] = IF i = 1 THEN seqs[i] ELSE flat[i - 1] \o seqs[i]
  BY <1>2
<1>5. QED BY <1>3, <1>4

LEMMA LineHasItsWords ==
  ASSUME loaded \in Files \cup {"none"}, NEW ln \in DOMAIN SourceLines
  PROVE  /\ Len(SourceLines[ln].words) \in Nat
         /\ DOMAIN SourceLines[ln].words = 1 .. Len(SourceLines[ln].words)
         /\ Ends(ln) = Starts(ln) + Len(SourceLines[ln].words)
<1>1. SourceLines \in Seq(Line)
  BY FilesHaveLines DEF Lines
<1>2. ln \in 1 .. Len(SourceLines) /\ ln \in Nat
  BY <1>1
<1>3. SourceLines[ln] \in Line
  BY <1>1
<1>4. SourceLines[ln].words \in Seq([at : Nat, size : Nat \ {0}])
  BY <1>3 DEF Line
<1> DEFINE k == Len(SourceLines[ln].words)
           before == {word \in Words : word[1] < ln}
           upTo == {word \in Words : word[1] <= ln}
           here == {ln} \X (1 .. k)
<1>5. k \in Nat /\ DOMAIN SourceLines[ln].words = 1 .. k
  BY <1>4
<1>6. /\ IsFiniteSet(Words)
      /\ \A word \in Words : /\ word[1] \in DOMAIN SourceLines
                             /\ word[2] \in DOMAIN SourceLines[word[1]].words
  BY WordsAreFinite
<1>7. \A word \in Words : word[1] \in Nat
  BY <1>1, <1>6
<1>8. here \subseteq Words
  BY <1>5 DEF Words
<1>9. \A word \in Words : word[1] = ln => word \in here
  BY <1>5 DEF Words
<1>10. upTo = before \cup here /\ before \cap here = {}
  <2>1. \A word \in here : word[1] = ln /\ word \in Words
    BY <1>8
  <2>2. \A word \in Words : word[1] <= ln <=> word[1] < ln \/ word[1] = ln
    BY <1>2, <1>7
  <2> HIDE DEF here
  <2> QED BY <1>2, <1>9, <2>1, <2>2
<1>11. IsFiniteSet(before) /\ Cardinality(before) \in Nat
  <2>1. IsFiniteSet(before)
    BY <1>6, FS_Subset
  <2> QED BY <2>1, FS_CardinalityType
<1>12. IsFiniteSet(here) /\ Cardinality(here) = k
  <2>1. IsFiniteSet({ln}) /\ Cardinality({ln}) = 1
    BY FS_Singleton
  <2>2. IsFiniteSet(1 .. k) /\ Cardinality(1 .. k) = k
    <3> HIDE DEF k
    <3>1. IsFiniteSet(1 .. k) /\ Cardinality(1 .. k) = IF 1 > k THEN 0 ELSE k - 1 + 1
      BY <1>5, FS_Interval
    <3> QED BY <1>5, <3>1
  <2>3. IsFiniteSet(here) /\ Cardinality(here) = Cardinality({ln}) * Cardinality(1 .. k)
    BY <2>1, <2>2, FS_Product
  <2>4. 1 * k = k
    BY <1>5
  <2> HIDE DEF here, k
  <2> QED BY <2>1, <2>2, <2>3, <2>4
<1>13. Cardinality(upTo) = Cardinality(before) + k
  <2> HIDE DEF before, here, upTo, k
  <2>1. /\ Cardinality(before \cup here) =
             Cardinality(before) + Cardinality(here) - Cardinality(before \cap here)
        /\ Cardinality(before \cap here) = 0
    BY <1>10, <1>11, <1>12, FS_Union, FS_EmptySet
  <2> QED BY <1>5, <1>10, <1>11, <1>12, <2>1
<1>14. QED BY <1>5, <1>13 DEF Starts, Ends

\* What the instructions are.
LEMMA InstructionsAreWords ==
  ASSUME loaded \in Files, NEW ln \in DOMAIN SourceLines, NEW w \in DOMAIN SourceLines[ln].words
  PROVE  /\ Starts(ln) + w \in DOMAIN Instructions
         /\ Instructions[Starts(ln) + w] = [line |-> ln, word |-> w]
<1> DEFINE T == [line : Nat, word : Nat]
           seqs == [l \in DOMAIN SourceLines |->
                      [k \in DOMAIN SourceLines[l].words |-> [line |-> l, word |-> k]]]
           n == Len(SourceLines)
<1>1. SourceLines \in Seq(Line) /\ n \in Nat \ {0} /\ DOMAIN SourceLines = 1 .. n
  BY FilesHaveLines DEF Lines, SourceLines
<1>2. ASSUME NEW l \in 1 .. n
      PROVE  /\ Len(SourceLines[l].words) \in Nat /\ Ends(l) = Starts(l) + Len(SourceLines[l].words)
             /\ DOMAIN SourceLines[l].words = 1 .. Len(SourceLines[l].words)
             /\ l \in Nat /\ Starts(l) \in Nat /\ Ends(l) \in Nat /\ Ends(l) = Starts(l + 1)
  <2>1. l \in Nat /\ l \in DOMAIN SourceLines /\ loaded \in Files \cup {"none"}
    BY <1>1
  <2>2. Starts(l) \in Nat /\ Ends(l) \in Nat /\ Ends(l) = Starts(l + 1)
    BY <2>1, WordsAreCounted
  <2> QED BY <2>1, <2>2, LineHasItsWords
<1>3. ASSUME NEW l \in 1 .. n
      PROVE  /\ seqs[l] \in Seq(T) /\ Len(seqs[l]) = Len(SourceLines[l].words)
             /\ \A k \in 1 .. Len(SourceLines[l].words) : seqs[l][k] = [line |-> l, word |-> k]
  <2>1. seqs[l] = [k \in 1 .. Len(SourceLines[l].words) |-> [line |-> l, word |-> k]]
    BY <1>1, <1>2
  <2>2. \A k \in 1 .. Len(SourceLines[l].words) : [line |-> l, word |-> k] \in T
    BY <1>2
  <2> HIDE DEF seqs, T
  <2> QED BY <1>2, <2>1, <2>2
<1>4. seqs \in Seq(Seq(T)) /\ Len(seqs) = n
  <2>1. seqs = [l \in 1 .. n |-> seqs[l]]
    BY <1>1
  <2> HIDE DEF seqs, T
  <2> QED BY <1>1, <1>3, <2>1
<1> HIDE DEF seqs, T
<1>5. PICK flat : /\ \A i \in 1 .. n : flat[i] = IF i = 1 THEN seqs[i] ELSE flat[i - 1] \o seqs[i]
                  /\ FlattenSeq(seqs) = flat[n]
  <2>1. Len(seqs) > 0
    BY <1>1, <1>4
  <2>2. \E flat : /\ \A i \in 1 .. Len(seqs) :
                      flat[i] = IF i = 1 THEN seqs[i] ELSE flat[i - 1] \o seqs[i]
                 /\ FlattenSeq(seqs) = flat[Len(seqs)]
    BY <1>4, <2>1, Flattened
  <2> QED BY <1>4, <2>2
<1> DEFINE Holds(i) ==
             /\ flat[i] \in Seq(T) /\ Len(flat[i]) = Ends(i)
             /\ \A l \in 1 .. i : \A k \in 1 .. Len(SourceLines[l].words) :
                  /\ Starts(l) + k \in 1 .. Ends(i)
                  /\ flat[i][Starts(l) + k] = [line |-> l, word |-> k]
           wrong == {i \in 1 .. n : ~Holds(i)}
<1>6. wrong = {}
  <2>1. SUFFICES ASSUME wrong # {} PROVE FALSE
    OBVIOUS
  <2>2. PICK m \in wrong : \A i \in wrong : m <= i
    <3>1. wrong \in SUBSET Nat
      BY <1>2
    <3> HIDE DEF wrong
    <3> QED BY <2>1, <3>1, LeastNatural
  <2>3. m \in 1 .. n
    OBVIOUS
  <2>4. CASE m = 1
    <3>1. Starts(1) = 0
      BY WordsAreCounted
    <3>2. flat[1] = seqs[1]
      BY <1>5, <2>3, <2>4
    <3>3. Holds(1)
      BY <1>2, <1>3, <2>3, <2>4, <3>1, <3>2
    <3> QED BY <2>2, <2>4, <3>3
  <2>5. CASE m # 1
    <3>1. m - 1 \in 1 .. n /\ (m - 1) + 1 = m /\ ~(m <= m - 1)
      BY <1>1, <2>3, <2>5
    <3>2. Holds(m - 1)
      <4>1. m - 1 \notin wrong
        <5> HIDE DEF wrong
        <5> QED BY <2>2, <3>1
      <4> HIDE DEF Holds
      <4> QED BY <3>1, <4>1
    <3>3. flat[m] = flat[m - 1] \o seqs[m]
      BY <1>5, <2>3, <2>5
    <3>4. Ends(m - 1) = Starts(m) /\ Ends(m) = Starts(m) + Len(seqs[m]) /\ Starts(m) \in Nat
          /\ Len(seqs[m]) \in Nat /\ Len(flat[m - 1]) = Starts(m)
      BY <1>2, <1>3, <2>3, <3>1, <3>2
    <3>5. /\ flat[m] \in Seq(T) /\ Len(flat[m]) = Ends(m)
          /\ \A i \in 1 .. Starts(m) + Len(seqs[m]) :
               flat[m][i] = IF i <= Starts(m) THEN flat[m - 1][i] ELSE seqs[m][i - Starts(m)]
      <4>1. flat[m - 1] \in Seq(T) /\ seqs[m] \in Seq(T)
        BY <1>3, <2>3, <3>2
      <4>2. PICK a, b : a = flat[m - 1] /\ b = seqs[m]
        OBVIOUS
      <4>3. /\ a \o b \in Seq(T) /\ Len(a \o b) = Len(a) + Len(b)
            /\ \A i \in 1 .. Len(a) + Len(b) :
                 (a \o b)[i] = IF i <= Len(a) THEN a[i] ELSE b[i - Len(a)]
        BY <4>1, <4>2, ConcatProperties
      <4> QED BY <3>3, <3>4, <4>2, <4>3
    <3>6. ASSUME NEW l \in 1 .. m, NEW k \in 1 .. Len(SourceLines[l].words)
          PROVE  Starts(l) + k \in 1 .. Ends(m) /\ flat[m][Starts(l) + k] = [line |-> l, word |-> k]
      <4>1. CASE l = m
        <5>1. Starts(m) + k \in 1 .. Starts(m) + Len(seqs[m]) /\ ~(Starts(m) + k <= Starts(m))
              /\ (Starts(m) + k) - Starts(m) = k /\ k \in 1 .. Len(SourceLines[m].words)
          <6>1. Len(seqs[m]) = Len(SourceLines[m].words) /\ k \in 1 .. Len(SourceLines[m].words)
            BY <1>3, <2>3, <4>1
          <6>2. k \in 1 .. Len(seqs[m]) /\ k \in Nat /\ k >= 1
            BY <3>4, <6>1
          <6> QED BY <3>4, <6>1, <6>2
        <5>2. seqs[m][k] = [line |-> m, word |-> k]
          BY <1>3, <2>3, <5>1
        <5> QED BY <3>4, <3>5, <4>1, <5>1, <5>2
      <4>2. CASE l # m
        <5>1. l \in 1 .. m - 1
          BY <2>3, <3>1, <4>2
        <5>2. /\ Starts(l) + k \in 1 .. Starts(m)
              /\ flat[m - 1][Starts(l) + k] = [line |-> l, word |-> k]
          BY <3>2, <3>4, <5>1
        <5>3. Starts(l) + k \in 1 .. Starts(m) + Len(seqs[m]) /\ Starts(l) + k <= Starts(m)
          BY <3>4, <5>2
        <5> QED BY <3>4, <3>5, <5>2, <5>3
      <4> QED BY <4>1, <4>2
    <3>7. Holds(m)
      BY <3>5, <3>6
    <3> HIDE DEF Holds
    <3> QED BY <2>2, <3>7
  <2>6. QED BY <2>4, <2>5
<1>7. Holds(n)
  <2>1. n \in 1 .. n
    BY <1>1
  <2> HIDE DEF Holds
  <2> QED BY <1>6, <2>1
<1>8. Instructions = flat[n]
  BY <1>5 DEF Instructions, seqs
<1>9. ln \in 1 .. n /\ w \in 1 .. Len(SourceLines[ln].words)
  BY <1>1, <1>2
<1>10. DOMAIN flat[n] = 1 .. Ends(n)
  BY <1>7
<1>11. QED BY <1>7, <1>8, <1>9, <1>10

(***************************************************************************)
(* For any program and any breakpoints in it: at the address that          *)
(* stackTraceRequest of mockDebug.ts gives a frame, disassembleRequest     *)
(* finds the word of the current line that the frame stands for.           *)
(***************************************************************************)
THEOREM FramesAreDisassembled == Spec => []FramesDisassemble
<1>1. TypeInv /\ LineInv => FramesDisassemble
  <2> SUFFICES ASSUME TypeInv, LineInv, AtLineStop, ~Uses("otherFiles"),
                      SourceLines[currentLine].disassembly, instruction # 0,
                      NEW frame \in DOMAIN SourceLines[currentLine].words
               PROVE  Disassemble(Reference(FrameAddress(frame))) = [line |-> currentLine, word |-> frame]
    BY DEF FramesDisassemble
  <2>1. currentLine \in DOMAIN SourceLines /\ instruction = Starts(currentLine)
    BY DEF AtLineStop, StoppedAtLine, LineInv
  <2>2. loaded \in Files
    BY <2>1 DEF TypeInv, SourceTypes, SourceLines
  <2>3. /\ Starts(currentLine) + frame \in DOMAIN Instructions
        /\ Instructions[Starts(currentLine) + frame] = [line |-> currentLine, word |-> frame]
    BY <2>1, <2>2, InstructionsAreWords
  <2>4. Starts(currentLine) \in Nat /\ frame \in Nat \ {0}
    <3>1. DOMAIN SourceLines[currentLine].words = 1 .. Len(SourceLines[currentLine].words)
      BY <2>1, <2>2, LineHasItsWords
    <3>2. Len(SourceLines[currentLine].words) \in Nat
      BY <2>1, <2>2, LineHasItsWords
    <3>3. frame \in Nat \ {0}
      BY <3>1, <3>2
    <3>4. currentLine \in Nat
      BY DEF TypeInv, PositionTypes
    <3> QED BY <2>2, <3>3, <3>4, WordsAreCounted
  <2>5. PICK address : address = Starts(currentLine) + frame - 1
    OBVIOUS
  <2>6. address \in Nat /\ address + 1 = Starts(currentLine) + frame
    BY <2>4, <2>5
  <2>7. FrameAddress(frame) = address
    BY <2>1, <2>5 DEF FrameAddress
  <2>8. Reference(address) = address
    BY <2>6 DEF Reference
  <2>9. QED BY <2>3, <2>6, <2>7, <2>8 DEF Disassemble
<1>2. QED BY <1>1, LinesHold, PTL

=============================================================================

----------------------- MODULE MockDebugSessionProofs -----------------------
(***************************************************************************)
(* Theorems about MockDebugSession, for any files, reads, requests, clients *)
(* and numbers of global variables and updates, and about the variables    *)
(* that it shows, for any names, values, encoding and fields.              *)
(***************************************************************************)
EXTENDS MockDebugSession, FiniteSetTheorems, WellFoundedInduction, SequenceTheorems, TLAPS

\* The smaller of two numbers.
LEMMA MinOfTwo ==
  ASSUME NEW a \in Nat, NEW b \in Nat
  PROVE  Min({a, b}) = IF a <= b THEN a ELSE b
<1>1. PICK m \in {a, b} : \A y \in {a, b} : m <= y
  OBVIOUS
<1>2. Min({a, b}) \in {a, b} /\ \A y \in {a, b} : Min({a, b}) <= y
  BY <1>1 DEF Min
<1>3. QED BY <1>2

-----------------------------------------------------------------------------
(***************************************************************************)
(* The requests for the globals.  The limit of a pending request is the    *)
(* number of variables it has when its token is set, and all otherwise.    *)
(***************************************************************************)
FetchInv ==
  /\ fetches \in Seq(Fetch)
  /\ FetchHonest
  /\ \A k \in DOMAIN fetches :
       fetches[k].state = "pending" =>
         fetches[k].limit = IF k \in tokens THEN fetches[k].count ELSE Globals

\* A request that begins gets the first variable and a token of its own.
LEMMA FetchBegins == FetchInv /\ FetchGlobals => FetchInv'
<1> SUFFICES ASSUME FetchInv, FetchGlobals PROVE FetchInv'
  OBVIOUS
<1> DEFINE new == [count |-> 1, limit |-> Globals, state |-> "pending"]
           n == Len(fetches) + 1
<1>1. Globals \in Nat \ {0}
  BY SessionAssumption
<1>2. new \in Fetch
  BY <1>1 DEF Fetch
<1>3. /\ fetches \in Seq(Fetch) /\ fetches' = Append(fetches, new)
      /\ tokens' = tokens \ {n}
  BY DEF FetchInv, FetchGlobals
<1>4. fetches' \in Seq(Fetch)
  BY <1>2, <1>3
<1>5. ASSUME NEW k \in DOMAIN fetches'
      PROVE  \/ k = n /\ fetches'[k] = new /\ k \notin tokens'
             \/ k \in DOMAIN fetches /\ fetches'[k] = fetches[k] /\ (k \in tokens' <=> k \in tokens)
  BY <1>3, <1>5
<1>6. FetchHonest'
  <2>1. ASSUME NEW k \in DOMAIN fetches', k = n, fetches'[k] = new
        PROVE  /\ fetches'[k].state # "answered" /\ fetches'[k].count <= fetches'[k].limit
    BY <2>1, <1>1
  <2>2. QED BY <1>5, <2>1 DEF FetchHonest, FetchInv
<1>7. ASSUME NEW k \in DOMAIN fetches', fetches'[k].state = "pending"
      PROVE  fetches'[k].limit = IF k \in tokens' THEN fetches'[k].count ELSE Globals
  BY <1>5, <1>7 DEF FetchInv
<1>8. QED BY <1>4, <1>6, <1>7 DEF FetchInv

\* The next variable of a request, its answer or its cancellation leaves the
\* other requests alone.
LEMMA FetchGoesOn ==
  ASSUME NEW k \in DOMAIN fetches, FetchInv, FetchNext(k) \/ CancelFetch(k)
  PROVE  FetchInv'
<1> DEFINE f == fetches[k]
<1>1. Globals \in Nat \ {0} /\ fetches \in Seq(Fetch) /\ f \in Fetch
  BY SessionAssumption DEF FetchInv
<1>2. f.count \in 1 .. Globals /\ f.limit \in 1 .. Globals /\ f.state \in {"pending", "answered"}
  BY <1>1 DEF Fetch
<1>3. /\ f.state = "pending" => f.count <= f.limit
      /\ f.state = "answered" => f.count = Min({f.limit + 1, Globals})
      /\ f.state = "pending" => f.limit = IF k \in tokens THEN f.count ELSE Globals
  BY DEF FetchInv, FetchHonest
<1>4. ASSUME NEW g \in Fetch,
             fetches' = [fetches EXCEPT ![k] = g],
             \A j \in DOMAIN fetches \ {k} : j \in tokens' <=> j \in tokens,
             g.state = "answered" => g.count = Min({g.limit + 1, Globals}),
             g.state = "pending" =>
               g.count <= g.limit /\ g.limit = IF k \in tokens' THEN g.count ELSE Globals
      PROVE  FetchInv'
  <2>1. fetches' \in Seq(Fetch) /\ DOMAIN fetches' = DOMAIN fetches
    BY <1>1, <1>4
  <2>2. fetches'[k] = g /\ \A j \in DOMAIN fetches \ {k} : fetches'[j] = fetches[j]
    BY <1>1, <1>4
  <2>3. ASSUME NEW j \in DOMAIN fetches'
        PROVE  /\ fetches'[j].state = "answered" =>
                    fetches'[j].count = Min({fetches'[j].limit + 1, Globals})
               /\ fetches'[j].state = "pending" => fetches'[j].count <= fetches'[j].limit
               /\ fetches'[j].state = "pending" =>
                    fetches'[j].limit = IF j \in tokens' THEN fetches'[j].count ELSE Globals
    <3>1. CASE j = k
      BY <3>1, <2>2, <1>4
    <3>2. CASE j # k
      BY <3>2, <2>1, <2>2, <1>4 DEF FetchInv, FetchHonest
    <3>3. QED BY <3>1, <3>2
  <2>4. QED BY <2>1, <2>3 DEF FetchInv, FetchHonest
<1>5. CASE FetchNext(k)
  <2> DEFINE all == f.count = Globals
             ends == all \/ k \in tokens
             c == IF all THEN f.count ELSE f.count + 1
             s == IF ends THEN "answered" ELSE f.state
             g == [f EXCEPT !.count = c, !.state = s]
  <2>1. /\ f.state = "pending"
        /\ fetches' = [fetches EXCEPT ![k] = g]
        /\ tokens' = IF ends THEN tokens \ {k} ELSE tokens
    BY <1>1, <1>5 DEF FetchNext, Token
  <2>2. c \in 1 .. Globals /\ s \in {"pending", "answered"}
    BY <1>1, <1>2
  <2>3. g \in Fetch /\ g.count = c /\ g.limit = f.limit /\ g.state = s
    <3> HIDE DEF f, c, s
    <3>1. QED BY <1>1, <2>2 DEF Fetch
  <2> HIDE DEF g
  <2>4. Min({g.limit + 1, Globals}) = IF g.limit + 1 <= Globals THEN g.limit + 1 ELSE Globals
    BY <1>1, <1>2, <2>3, MinOfTwo
  <2>5. ends => g.count = Min({g.limit + 1, Globals})
    BY <1>1, <1>2, <1>3, <2>1, <2>3, <2>4
  <2>6. ~ends => g.count <= g.limit /\ g.limit = Globals /\ k \notin tokens'
    BY <1>1, <1>2, <1>3, <2>1, <2>3
  <2>7. QED BY <1>4, <2>1, <2>3, <2>5, <2>6
<1>6. CASE CancelFetch(k)
  <2>1. Min({f.limit, f.count}) = IF f.limit <= f.count THEN f.limit ELSE f.count
    BY <1>1, <1>2, MinOfTwo
  <2>2. CASE f.state = "pending"
    <3> DEFINE g == [f EXCEPT !.limit = f.count]
    <3>1. Min({f.limit, f.count}) = f.count
      BY <1>1, <1>2, <1>3, <2>1, <2>2
    <3>2. fetches' = [fetches EXCEPT ![k] = g] /\ tokens' = tokens \cup {k}
      BY <1>1, <1>6, <2>2, <3>1 DEF CancelFetch, Fetch
    <3>3. g \in Fetch /\ g.state = "pending" /\ g.limit = f.count /\ g.count = f.count
      <4> HIDE DEF f
      <4>1. QED BY <1>1, <1>2, <2>2 DEF Fetch
    <3>4. g.count <= g.limit
      BY <1>2, <3>3
    <3>5. k \in tokens' /\ \A j \in DOMAIN fetches \ {k} : j \in tokens' <=> j \in tokens
      BY <3>2
    <3> HIDE DEF g
    <3>6. QED BY <1>4, <3>2, <3>3, <3>4, <3>5
  <2>3. CASE f.state # "pending"
    <3>1. fetches' = fetches /\ tokens' = tokens \cup {k}
      BY <1>6, <2>3 DEF CancelFetch
    <3>2. fetches' = [fetches EXCEPT ![k] = f]
      BY <1>1, <3>1
    <3>3. QED BY <1>1, <1>2, <1>3, <1>4, <2>3, <3>1, <3>2
  <2>4. QED BY <2>2, <2>3
<1>7. QED BY <1>5, <1>6

\* Everything else leaves the requests for the globals alone.
LEMMA FetchStep == FetchInv /\ [Next]_vars => FetchInv'
<1> SUFFICES ASSUME FetchInv, [Next]_vars PROVE FetchInv'
  OBVIOUS
<1>1. CASE UNCHANGED fetchVars
  BY <1>1 DEF fetchVars, FetchInv, FetchHonest
<1>2. CASE FetchGlobals
  BY <1>2, FetchBegins
<1>3. CASE \E k \in DOMAIN fetches : FetchNext(k) \/ CancelFetch(k)
  BY <1>3, FetchGoesOn
<1>4. CASE Configures
  BY <1>1, <1>4 DEF Configures, OnlyLaunch, InitializeRequest, SetBreakPointsRequest,
       LaunchRequest, ConfigurationDoneRequest, LaunchTimeout, StartProgram, ReadDone, ReadFails
<1>5. CASE ProgressSequence \/ ProgressUpdate
           \/ \E k \in DOMAIN sequences : ProgressStart(k) \/ CancelProgress(k)
  BY <1>1, <1>5 DEF OnlyProgress, ProgressSequence, ProgressUpdate, ProgressStart, CancelProgress
<1>6. CASE Inspects
  BY <1>1, <1>6 DEF Inspects
<1>7. CASE UNCHANGED vars
  BY <1>1, <1>7 DEF vars
<1>8. QED BY <1>2, <1>3, <1>4, <1>5, <1>6, <1>7 DEF Next, Waiting

(***************************************************************************)
(* For any number of requests and variables, a request for the globals     *)
(* gets all of them, or what there was when it was cancelled and one more: *)
(* getGlobalVariables and the tokens of variablesRequest.                  *)
(***************************************************************************)
THEOREM FetchesHonest == Spec => []FetchHonest
<1>1. Init => FetchInv
  BY DEF Init, FetchInv, FetchHonest
<1>2. FetchInv => FetchHonest
  BY DEF FetchInv
<1>3. QED BY <1>1, <1>2, FetchStep, PTL DEF Spec

-----------------------------------------------------------------------------
(***************************************************************************)
(* Configuration and launch.  The client that LinesOfSourceFile is about   *)
(* has at most one read outstanding, for the file that is recorded, and    *)
(* none when the launch starts the program.                                *)
(***************************************************************************)
Reads == [file : Files, waiter : {"launch", "breakpoints"}]

LaunchInv ==
  /\ reads \in Seq(Reads)
  /\ ~Does("hasty") /\ mishaps = {} =>
       /\ launch \in {"ready", "reading"} => configuration = "done"
       /\ launch = "ready" => reads = << >>
       /\ reads = << >> => loaded = sourceFile
       /\ reads # << >> =>
            /\ Len(reads) = 1 /\ reads[1].file = sourceFile
            /\ reads[1].waiter = "launch" => launch = "reading"

\* A read is taken out of the sequence, and leaves none if it was the only one.
LEMMA ReadRemoved ==
  ASSUME NEW s \in Seq(Reads), NEW i \in DOMAIN s
  PROVE  RemoveAt(s, i) \in Seq(Reads) /\ Len(RemoveAt(s, i)) = Len(s) - 1
<1>1. i \in 1 .. Len(s) /\ Len(s) \in Nat /\ i \in Int
  OBVIOUS
<1>2. SubSeq(s, 1, i - 1) \in Seq(Reads) /\ Len(SubSeq(s, 1, i - 1)) = i - 1
  BY <1>1
<1>3. SubSeq(s, i + 1, Len(s)) \in Seq(Reads) /\ Len(SubSeq(s, i + 1, Len(s))) = Len(s) - i
  BY <1>1
<1>4. /\ SubSeq(s, 1, i - 1) \o SubSeq(s, i + 1, Len(s)) \in Seq(Reads)
      /\ Len(SubSeq(s, 1, i - 1) \o SubSeq(s, i + 1, Len(s))) = (i - 1) + (Len(s) - i)
  BY <1>2, <1>3, ConcatProperties
<1>5. (i - 1) + (Len(s) - i) = Len(s) - 1
  BY <1>1
<1>6. RemoveAt(s, i) = SubSeq(s, 1, i - 1) \o SubSeq(s, i + 1, Len(s))
  BY DEF RemoveAt
<1>7. QED BY <1>4, <1>5, <1>6

\* A read that begins is added, of one of the files.
LEMMA ReadAdded ==
  ASSUME NEW file \in Files, NEW waiter \in {"launch", "breakpoints"},
         reads \in Seq(Reads), LoadSource(reads, file, waiter)
  PROVE  /\ reads' \in Seq(Reads) /\ reads' # << >> /\ sourceFile' = file
         /\ reads = << >> => Len(reads') = 1 /\ reads'[1].file = file /\ reads'[1].waiter = waiter
<1>1. Read(file, waiter) \in Reads
  BY DEF Read, Reads
<1>2. /\ reads' = Append(reads, Read(file, waiter)) /\ sourceFile' = file
      /\ Read(file, waiter).file = file /\ Read(file, waiter).waiter = waiter
  BY DEF LoadSource, Read
<1>3. Len(reads') = Len(reads) + 1
  BY <1>1, <1>2
<1>4. QED BY <1>1, <1>2, <1>3

\* Somebody waits for the first read.
LEMMA FirstWaiter ==
  ASSUME reads \in Seq(Reads), reads # << >>
  PROVE  1 \in DOMAIN reads /\ reads[1].waiter \in {"launch", "breakpoints"}
<1>1. 1 \in 1 .. Len(reads)
  OBVIOUS
<1>2. reads[1] \in Reads
  BY <1>1
<1>3. QED BY <1>1, <1>2 DEF Reads

\* Each request, timer and answer keeps the invariant of the launch.
LEMMA LaunchStep == LaunchInv /\ [Next]_vars => LaunchInv'
<1> SUFFICES ASSUME LaunchInv, [Next]_vars PROVE LaunchInv'
  OBVIOUS
<1> USE DEF Does
<1>1. reads \in Seq(Reads)
  BY DEF LaunchInv
<1>2. CASE UNCHANGED <<client, sourceVars, launchVars>>
  BY <1>2 DEF sourceVars, launchVars, LaunchInv
<1>3. CASE InitializeRequest
  BY <1>3 DEF InitializeRequest, OnlyLaunch, sourceVars, LaunchInv
<1>4. ASSUME NEW file \in Files, SetBreakPointsRequest(file)
      PROVE  LaunchInv'
  <2>1. LoadSource(reads, file, "breakpoints") /\ UNCHANGED <<client, launchVars, loaded>> /\ ~Waits
    BY <1>4 DEF SetBreakPointsRequest, OnlyLaunch
  <2>2. /\ reads' \in Seq(Reads) /\ reads' # << >> /\ sourceFile' = file
        /\ reads = << >> => Len(reads') = 1 /\ reads'[1].file = file
                            /\ reads'[1].waiter = "breakpoints"
    BY <1>1, <2>1, ReadAdded
  <2>3. ASSUME ~Does("hasty"), mishaps = {}
        PROVE  reads = << >> /\ launch \notin {"ready", "reading"}
    <3>1. launch \notin {"ready", "reading"} /\ ~Unanswered
      BY <2>1, <2>3 DEF Waits, Launching, LaunchInv
    <3>2. reads # << >> => 1 \in DOMAIN reads /\ reads[1].waiter = "breakpoints"
      BY <2>3, <3>1, FirstWaiter DEF LaunchInv
    <3>3. QED BY <3>1, <3>2 DEF Unanswered
  <2>4. QED BY <2>1, <2>2, <2>3 DEF launchVars, LaunchInv
<1>5. CASE LaunchRequest
  BY <1>5 DEF LaunchRequest, LaunchWaits, OnlyLaunch, sourceVars, LaunchInv
<1>6. CASE ConfigurationDoneRequest
  <2>1. /\ ~Waits /\ configuration' = "done"
        /\ launch' = IF launch = "waiting" THEN "ready" ELSE launch
        /\ UNCHANGED <<client, mishaps, sourceFile, loaded, reads>>
    BY <1>6 DEF ConfigurationDoneRequest, OnlyLaunch, sourceVars
  <2>2. ASSUME ~Does("hasty"), mishaps = {}, launch = "waiting"
        PROVE  reads = << >>
    <3>1. ~Unanswered
      BY <2>1, <2>2 DEF Waits
    <3>2. reads # << >> => 1 \in DOMAIN reads /\ reads[1].waiter = "breakpoints"
      BY <2>2, FirstWaiter DEF LaunchInv
    <3>3. QED BY <3>1, <3>2 DEF Unanswered
  <2>3. QED BY <2>1, <2>2 DEF LaunchInv
<1>7. CASE LaunchTimeout
  <2>1. mishaps' # {} /\ reads' = reads
    BY <1>7 DEF LaunchTimeout, sourceVars
  <2>2. QED BY <1>1, <2>1 DEF LaunchInv
<1>8. CASE StartProgram
  <2>1. launch = "ready" /\ UNCHANGED <<client, configuration, mishaps>>
    BY <1>8 DEF StartProgram, OnlyLaunch
  <2>2. CASE launch' = Ended(loaded # "none") /\ UNCHANGED sourceVars
    <3>1. launch' \in {"rejected", "compileError", "answered"}
      BY <2>2 DEF Ended
    <3>2. QED BY <2>1, <2>2, <3>1 DEF sourceVars, LaunchInv
  <2>3. CASE LoadSource(reads, Program, "launch") /\ launch' = "reading" /\ UNCHANGED loaded
    <3>1. /\ reads' \in Seq(Reads) /\ reads' # << >> /\ sourceFile' = Program
          /\ reads = << >> => Len(reads') = 1 /\ reads'[1].file = Program
                              /\ reads'[1].waiter = "launch"
      BY <1>1, <2>3, ReadAdded, SessionAssumption
    <3>2. QED BY <2>1, <2>3, <3>1 DEF LaunchInv
  <2>4. QED BY <1>8, <2>2, <2>3 DEF StartProgram
<1>9. ASSUME NEW i \in DOMAIN reads, ReadDone(i)
      PROVE  LaunchInv'
  <2>1. /\ loaded' = reads[i].file /\ reads' = RemoveAt(reads, i)
        /\ launch' = (IF reads[i].waiter = "launch" THEN Ended(TRUE) ELSE launch)
        /\ UNCHANGED <<client, configuration, mishaps, sourceFile>>
    BY <1>9 DEF ReadDone, InitializeContents, OnlyLaunch
  <2>2. Ended(TRUE) \in {"compileError", "answered"}
    BY DEF Ended
  <2>3. reads' \in Seq(Reads) /\ Len(reads') = Len(reads) - 1
    BY <1>1, <2>1, ReadRemoved
  <2>4. ASSUME ~Does("hasty"), mishaps = {}
        PROVE  reads' = << >> /\ i = 1 /\ reads[1].file = sourceFile /\ launch # "ready"
    <3>1. reads # << >>
      BY <1>1
    <3>2. Len(reads) = 1 /\ reads[1].file = sourceFile /\ launch # "ready"
      BY <2>4, <3>1 DEF LaunchInv
    <3>3. QED BY <1>1, <2>3, <3>2
  <2>5. QED BY <2>1, <2>2, <2>3, <2>4 DEF LaunchInv
<1>10. ASSUME NEW i \in DOMAIN reads, ReadFails(i)
       PROVE  LaunchInv'
  <2>1. reads' = RemoveAt(reads, i) /\ mishaps' # {}
    BY <1>10 DEF ReadFails, ReadRejected
  <2>2. reads' \in Seq(Reads)
    BY <1>1, <2>1, ReadRemoved
  <2>3. QED BY <2>1, <2>2 DEF LaunchInv
<1>11. CASE Waiting
  BY <1>2, <1>11 DEF Waiting, OnlyFetch, OnlyProgress, FetchGlobals, FetchNext, CancelFetch,
       ProgressSequence, ProgressUpdate, ProgressStart, CancelProgress
<1>12. CASE Inspects
  BY <1>2, <1>12 DEF Inspects
<1>13. CASE UNCHANGED vars
  BY <1>2, <1>13 DEF vars
<1>14. QED
  BY <1>3, <1>4, <1>5, <1>6, <1>7, <1>8, <1>9, <1>10, <1>11, <1>12, <1>13 DEF Next, Configures

(***************************************************************************)
(* For any files and any order of the client's requests: the lines that    *)
(* mockRuntime.ts runs are those of its source file, unless a read fails,  *)
(* the launch times out or the client does not wait for its answers.       *)
(***************************************************************************)
THEOREM LinesBelong == Spec => []LinesOfSourceFile
<1>1. Init => LaunchInv
  BY DEF Init, SourceInit, LaunchInv
<1>2. LaunchInv => LinesOfSourceFile
  BY DEF LaunchInv, LinesOfSourceFile
<1>3. QED BY <1>1, <1>2, LaunchStep, PTL DEF Spec

-----------------------------------------------------------------------------
(***************************************************************************)
(* Progress.  The timers are those of running sequences, one each, and the *)
(* slot, if it names a sequence, one that the client may cancel and asked  *)
(* to cancel before its end.                                               *)
(***************************************************************************)
State == [state : {"starting", "running", "ended", "cancelled"}, cancellable : BOOLEAN,
          updates : Int, asked : BOOLEAN]

\* What holds of one sequence, and of the timers.
Sound(k) ==
  LET s == sequences[k]
  IN  /\ s.state = "cancelled" => s.asked /\ s.cancellable
      /\ s.state = "starting" => ~s.cancellable /\ cancelled # k
      /\ s.state = "running" /\ cancelled = k => s.asked /\ s.cancellable

TimersRun ==
  /\ timers \in Seq(DOMAIN sequences)
  /\ \A i \in DOMAIN timers : sequences[timers[i]].state = "running"
  /\ \A i, j \in DOMAIN timers : timers[i] = timers[j] => i = j

ProgressInv ==
  /\ sequences \in Seq(State) /\ cancelled \in 0 .. Len(sequences)
  /\ cancellable \in BOOLEAN
  /\ \A k \in DOMAIN sequences : Sound(k)
  /\ TimersRun

\* A new sequence, which nobody can have asked to cancel.
LEMMA SequenceBegins == ProgressInv /\ ProgressSequence => ProgressInv'
<1> SUFFICES ASSUME ProgressInv, ProgressSequence PROVE ProgressInv'
  OBVIOUS
<1> DEFINE new == [state |-> "starting", cancellable |-> FALSE, updates |-> 0, asked |-> FALSE]
           n == Len(sequences) + 1
<1>1. /\ sequences \in Seq(State) /\ cancelled \in 0 .. Len(sequences)
      /\ \A k \in DOMAIN sequences : Sound(k)
      /\ sequences' = Append(sequences, new) /\ UNCHANGED <<timers, cancelled, cancellable>>
  BY DEF ProgressInv, ProgressSequence
<1>2. new \in State
  BY DEF State
<1>3. sequences' \in Seq(State) /\ Len(sequences') = n /\ Len(sequences) \in Nat
  BY <1>1, <1>2
<1>4. \A k \in DOMAIN sequences : k \in DOMAIN sequences' /\ sequences'[k] = sequences[k]
  BY <1>1, <1>2
<1>5. sequences'[n] = new
  BY <1>1, <1>2
<1>6. ASSUME NEW k \in DOMAIN sequences' PROVE Sound(k)'
  <2>1. CASE k \in DOMAIN sequences
    BY <2>1, <1>1, <1>4 DEF Sound
  <2>2. CASE k = n
    BY <2>2, <1>1, <1>3, <1>5 DEF Sound
  <2>3. QED BY <1>3, <1>1, <2>1, <2>2
<1>7. TimersRun'
  <2>1. timers \in Seq(DOMAIN sequences)
    BY DEF ProgressInv, TimersRun
  <2>2. DOMAIN sequences \subseteq DOMAIN sequences'
    BY <1>4
  <2>3. \A i \in DOMAIN timers : timers[i] \in DOMAIN sequences
    BY <2>1
  <2>4. timers \in Seq(DOMAIN sequences')
    BY <2>1, <2>2, <2>3
  <2>5. QED BY <1>1, <1>4, <2>3, <2>4 DEF ProgressInv, TimersRun
<1>8. QED BY <1>1, <1>3, <1>6, <1>7 DEF ProgressInv

\* A change of one sequence, of the slot and of the timers.
LEMMA SequenceChanges ==
  ASSUME NEW k \in DOMAIN sequences, NEW s \in State, ProgressInv,
         sequences' = [sequences EXCEPT ![k] = s],
         cancelled' \in 0 .. Len(sequences), cancellable' \in BOOLEAN,
         \A j \in DOMAIN sequences \ {k} : cancelled' = j => cancelled = j,
         s.state = "cancelled" => s.asked /\ s.cancellable,
         s.state = "starting" => ~s.cancellable /\ cancelled' # k,
         s.state = "running" /\ cancelled' = k => s.asked /\ s.cancellable,
         TimersRun'
  PROVE  ProgressInv'
<1>1. sequences \in Seq(State)
  BY DEF ProgressInv
<1>2. /\ sequences' \in Seq(State) /\ Len(sequences') = Len(sequences)
      /\ DOMAIN sequences' = DOMAIN sequences /\ sequences'[k] = s
      /\ \A j \in DOMAIN sequences \ {k} : sequences'[j] = sequences[j]
  BY <1>1
<1>3. ASSUME NEW j \in DOMAIN sequences PROVE Sound(j)'
  <2>1. CASE j = k
    BY <2>1, <1>2 DEF Sound
  <2>2. CASE j # k
    BY <2>2, <1>2 DEF ProgressInv, Sound
  <2>3. QED BY <2>1, <2>2
<1>4. QED BY <1>2, <1>3 DEF ProgressInv

\* The start event: the sequence gets its first timer.
LEMMA SequenceStarts ==
  ASSUME NEW k \in DOMAIN sequences, ProgressInv, ProgressStart(k)
  PROVE  ProgressInv'
<1> DEFINE f == sequences[k]
           s == [f EXCEPT !.state = "running", !.cancellable = cancellable]
<1>1. /\ sequences \in Seq(State) /\ f \in State /\ f.state = "starting"
      /\ cancelled # k /\ cancelled' = cancelled /\ cancelled \in 0 .. Len(sequences)
      /\ cancellable \in BOOLEAN /\ cancellable' = ~cancellable
  BY DEF ProgressInv, ProgressStart, Sound
<1>2. sequences' = [sequences EXCEPT ![k] = s] /\ timers' = Append(timers, k)
  BY DEF ProgressStart
<1>3. s \in State /\ s.state = "running"
  <2> HIDE DEF f
  <2>1. QED BY <1>1 DEF State
<1> HIDE DEF s
<1>4. /\ DOMAIN sequences' = DOMAIN sequences /\ sequences'[k] = s
      /\ \A j \in DOMAIN sequences \ {k} : sequences'[j] = sequences[j]
  BY <1>1, <1>2, <1>3
<1>5. TimersRun'
  <2>1. /\ timers \in Seq(DOMAIN sequences) /\ \A i \in DOMAIN timers : timers[i] \in DOMAIN sequences
        /\ \A i \in DOMAIN timers : sequences[timers[i]].state = "running"
        /\ \A i, j \in DOMAIN timers : timers[i] = timers[j] => i = j
    BY DEF ProgressInv, TimersRun
  <2>2. \A i \in DOMAIN timers : timers[i] # k
    BY <1>1, <2>1
  <2>3. /\ timers' \in Seq(DOMAIN sequences') /\ Len(timers') = Len(timers) + 1
        /\ Len(timers) \in Nat /\ timers'[Len(timers) + 1] = k
        /\ \A i \in DOMAIN timers : timers'[i] = timers[i]
    BY <1>2, <1>4, <2>1
  <2>4. \A i \in DOMAIN timers' : i \in DOMAIN timers \/ i = Len(timers) + 1
    BY <2>1, <2>3
  <2>5. \A i \in DOMAIN timers' : sequences'[timers'[i]].state = "running"
    BY <1>3, <1>4, <2>1, <2>2, <2>3, <2>4
  <2>6. \A i, j \in DOMAIN timers' : timers'[i] = timers'[j] => i = j
    BY <2>1, <2>2, <2>3, <2>4
  <2>7. QED BY <2>3, <2>5, <2>6 DEF TimersRun
<1>6. QED BY <1>1, <1>2, <1>3, <1>5, SequenceChanges

\* A cancel request, which a client sends for what was announced as cancellable.
LEMMA SequenceCancelled ==
  ASSUME NEW k \in DOMAIN sequences, ProgressInv, CancelProgress(k)
  PROVE  ProgressInv'
<1> DEFINE f == sequences[k]
           asked == f.asked \/ f.state = "running"
           s == [f EXCEPT !.asked = asked]
<1>1. /\ sequences \in Seq(State) /\ f \in State /\ f.cancellable /\ Sound(k)
      /\ cancelled' = k /\ k \in 0 .. Len(sequences) /\ cancellable' \in BOOLEAN
  BY DEF ProgressInv, CancelProgress
<1>2. sequences' = [sequences EXCEPT ![k] = s] /\ timers' = timers
  BY DEF CancelProgress
<1>3. asked \in BOOLEAN
  BY <1>1 DEF State
<1>4. s \in State /\ s.state = f.state /\ s.cancellable = f.cancellable /\ s.asked = asked
  <2> HIDE DEF f, asked
  <2>1. QED BY <1>1, <1>3 DEF State
<1> HIDE DEF s
<1>5. /\ s.state # "starting" /\ s.cancellable
      /\ s.state \in {"cancelled", "running"} => s.asked
  BY <1>1, <1>4 DEF Sound
<1>6. /\ DOMAIN sequences' = DOMAIN sequences /\ sequences'[k] = s
      /\ \A j \in DOMAIN sequences \ {k} : sequences'[j] = sequences[j]
  BY <1>1, <1>2, <1>4
<1>7. TimersRun'
  <2>1. \A i \in DOMAIN timers : timers[i] \in DOMAIN sequences
    BY DEF ProgressInv, TimersRun
  <2>2. QED BY <1>2, <1>4, <1>6, <2>1 DEF ProgressInv, TimersRun
<1>8. \A j \in DOMAIN sequences \ {k} : cancelled' # j
  BY <1>1
<1>9. QED BY <1>1, <1>2, <1>4, <1>5, <1>7, <1>8, SequenceChanges

\* The next update of the sequence whose timer is first.
LEMMA SequenceUpdates == ProgressInv /\ ProgressUpdate => ProgressInv'
<1> SUFFICES ASSUME ProgressInv, ProgressUpdate PROVE ProgressInv'
  OBVIOUS
<1> DEFINE k == Head(timers)
           f == sequences[k]
           next == IF Cancelled(k) THEN "cancelled"
                   ELSE IF Complete(k) THEN "ended" ELSE "running"
           u == f.updates + 1
           s == [f EXCEPT !.state = next, !.updates = u]
<1>1. /\ timers \in Seq(DOMAIN sequences) /\ timers # << >>
      /\ \A i \in DOMAIN timers : sequences[timers[i]].state = "running"
      /\ \A i, j \in DOMAIN timers : timers[i] = timers[j] => i = j
  BY DEF ProgressInv, TimersRun, ProgressUpdate
<1>2. /\ Len(timers) \in Nat \ {0} /\ 1 \in DOMAIN timers /\ k = timers[1]
      /\ k \in DOMAIN sequences
  BY <1>1
<1>3. /\ sequences' = [sequences EXCEPT ![k] = s]
      /\ timers' = (IF next = "running" THEN Append(Tail(timers), k) ELSE Tail(timers))
      /\ cancelled' = (IF next = "running" THEN cancelled ELSE 0)
      /\ cancellable' = cancellable
  BY DEF ProgressUpdate
<1>4. /\ sequences \in Seq(State) /\ cancelled \in 0 .. Len(sequences) /\ Sound(k)
      /\ cancellable \in BOOLEAN /\ f \in State /\ f.state = "running"
  BY <1>1, <1>2 DEF ProgressInv
<1>5. next \in {"cancelled", "ended", "running"} /\ u \in Int
  BY <1>4 DEF State
<1>6. /\ s \in State /\ s.state = next /\ s.cancellable = f.cancellable /\ s.asked = f.asked
  <2> HIDE DEF f, next, u
  <2>1. QED BY <1>4, <1>5 DEF State
<1>7. /\ next = "cancelled" => cancelled = k
      /\ next = "running" => cancelled # k
  BY DEF Cancelled
<1> HIDE DEF s, next, u
<1>8. /\ s.state = "cancelled" => s.asked /\ s.cancellable
      /\ s.state = "running" => cancelled' # k
      /\ s.state # "starting"
  BY <1>3, <1>4, <1>5, <1>6, <1>7 DEF Sound
<1>9. /\ DOMAIN sequences' = DOMAIN sequences /\ sequences'[k] = s
      /\ \A j \in DOMAIN sequences \ {k} : sequences'[j] = sequences[j]
  BY <1>2, <1>3, <1>4, <1>6
<1>10. TimersRun'
  <2> DEFINE t == Tail(timers)
  <2>1. /\ t \in Seq(DOMAIN sequences) /\ Len(t) = Len(timers) - 1 /\ Len(t) \in Nat
        /\ \A i \in 1 .. Len(t) : t[i] = timers[i + 1] /\ i + 1 \in DOMAIN timers
    BY <1>1, <1>2
  <2>2. \A i \in 1 .. Len(t) : t[i] \in DOMAIN sequences \ {k} /\ sequences[t[i]].state = "running"
    BY <1>1, <1>2, <2>1
  <2>3. \A i, j \in 1 .. Len(t) : t[i] = t[j] => i = j
    BY <1>1, <2>1
  <2>4. \A i \in 1 .. Len(t) : sequences'[t[i]].state = "running"
    BY <1>9, <2>2
  <2> HIDE DEF t, k
  <2>5. CASE next = "running"
    <3>1. timers' = Append(t, k)
      BY <1>3, <2>5 DEF t
    <3>2. /\ timers' \in Seq(DOMAIN sequences') /\ Len(timers') = Len(t) + 1
          /\ timers'[Len(t) + 1] = k /\ \A i \in 1 .. Len(t) : timers'[i] = t[i]
      BY <1>2, <1>9, <2>1, <3>1
    <3>3. \A i \in DOMAIN timers' : i \in 1 .. Len(t) \/ i = Len(t) + 1
      BY <2>1, <3>2
    <3>4. \A i \in DOMAIN timers' : sequences'[timers'[i]].state = "running"
      BY <1>6, <1>9, <2>4, <2>5, <3>2, <3>3
    <3>5. \A i, j \in DOMAIN timers' : timers'[i] = timers'[j] => i = j
      BY <2>2, <2>3, <3>2, <3>3
    <3>6. QED BY <3>2, <3>4, <3>5 DEF TimersRun
  <2>6. CASE next # "running"
    <3>1. timers' = t /\ t \in Seq(DOMAIN sequences') /\ DOMAIN t = 1 .. Len(t)
      BY <1>3, <1>9, <2>1, <2>6 DEF t
    <3>2. QED BY <2>3, <2>4, <3>1 DEF TimersRun
  <2>7. QED BY <2>5, <2>6
<1>11. /\ cancelled' \in 0 .. Len(sequences) /\ cancellable' \in BOOLEAN
       /\ \A j \in DOMAIN sequences \ {k} : cancelled' = j => cancelled = j
  BY <1>3, <1>4
<1>12. QED BY <1>2, <1>3, <1>6, <1>8, <1>10, <1>11, SequenceChanges

\* Everything else leaves progress alone.
LEMMA ProgressStep == ProgressInv /\ [Next]_vars => ProgressInv'
<1> SUFFICES ASSUME ProgressInv, [Next]_vars PROVE ProgressInv'
  OBVIOUS
<1>1. CASE UNCHANGED progressVars
  BY <1>1 DEF progressVars, ProgressInv, Sound, TimersRun
<1>2. CASE ProgressSequence \/ ProgressUpdate
  BY <1>2, SequenceBegins, SequenceUpdates
<1>3. CASE \E k \in DOMAIN sequences : ProgressStart(k) \/ CancelProgress(k)
  BY <1>3, SequenceStarts, SequenceCancelled
<1>4. CASE Configures
  BY <1>1, <1>4 DEF Configures, OnlyLaunch, InitializeRequest, SetBreakPointsRequest,
       LaunchRequest, ConfigurationDoneRequest, LaunchTimeout, StartProgram, ReadDone, ReadFails
<1>5. CASE FetchGlobals \/ \E k \in DOMAIN fetches : FetchNext(k) \/ CancelFetch(k)
  BY <1>1, <1>5 DEF OnlyFetch, FetchGlobals, FetchNext, CancelFetch
<1>6. CASE Inspects
  BY <1>1, <1>6 DEF Inspects
<1>7. CASE UNCHANGED vars
  BY <1>1, <1>7 DEF vars
<1>8. QED BY <1>2, <1>3, <1>4, <1>5, <1>6, <1>7 DEF Next, Waiting

(***************************************************************************)
(* For any number of sequences and updates, progressSequence only says     *)
(* that a sequence was cancelled when the client asked for it in time.     *)
(***************************************************************************)
THEOREM ProgressIsHonest == Spec => []ProgressHonest
<1>1. Init => ProgressInv
  BY DEF Init, ProgressInv, TimersRun
<1>2. ProgressInv => ProgressHonest
  BY DEF ProgressInv, Sound, ProgressHonest
<1>3. QED BY <1>1, <1>2, ProgressStep, PTL DEF Spec

-----------------------------------------------------------------------------
\* Numbers have a least one, which makes every induction below: the least
\* place where a claim fails.
LEMMA LeastNatural ==
  ASSUME NEW S \in SUBSET Nat, S # {}
  PROVE  \E m \in S : \A k \in S : m <= k
<1> DEFINE below == {0 .. k : k \in S}
<1>1. IsWellFoundedOn(StrictSubsetOrdering(Nat), FiniteSubsetsOf(Nat))
  BY FS_StrictSubsetOrderingWellFounded
<1>2. below \subseteq FiniteSubsetsOf(Nat)
  <2>1. \A k \in Nat : IsFiniteSet(0 .. k) /\ 0 .. k \in SUBSET Nat
    BY FS_Interval
  <2> QED BY <2>1 DEF FiniteSubsetsOf
<1>3. below # {}
  OBVIOUS
<1>4. \E x \in below : \A y \in below : ~ (<<y, x>> \in StrictSubsetOrdering(Nat))
  <2> HIDE DEF below
  <2> QED BY <1>1, <1>2, <1>3, WFMin
<1>5. PICK m \in S : \A k \in S : ~ (<<0 .. k, 0 .. m>> \in StrictSubsetOrdering(Nat))
  BY <1>4
<1>6. ASSUME NEW k \in S PROVE m <= k
  <2>1. ASSUME k < m PROVE FALSE
    <3>1. 0 .. k \in SUBSET Nat /\ 0 .. m \in SUBSET Nat
      OBVIOUS
    <3>2. 0 .. k \subseteq 0 .. m
      BY <2>1
    <3>3. m \in 0 .. m /\ m \notin 0 .. k
      BY <2>1
    <3> QED BY <1>5, <3>1, <3>2, <3>3 DEF StrictSubsetOrdering
  <2> QED BY <2>1
<1>7. QED BY <1>6

-----------------------------------------------------------------------------
(***************************************************************************)
(* The variables, as a store of objects and handles.  An object is proper  *)
(* when it has every handle that leads to it as its own reference: all     *)
(* that the program and the objects name are, and the wrappers of lazy     *)
(* variables are not.                                                      *)
(***************************************************************************)
Objects == [name : Labels, value : Values \cup {"object"}, elements : Seq(Nat),
            memory : Bytes \cup {"none"}, reference : Nat]
Stores == [heap : Seq(Objects), handles : Seq(Int)]
IsStore(s) == s = [heap |-> s.heap, handles |-> s.handles]

Proper(s, id) ==
  /\ id \in DOMAIN s.heap
  /\ \A r \in DOMAIN s.handles : s.handles[r] = id => s.heap[id].reference = r

Coherent(o) ==
  o.memory # "none" => o.value \in Strings /\ Decoded[o.memory] = o.value

\* The reference of an object leads to it, or from a lazy one to its wrapper.
Refers(s, id) ==
  LET o == s.heap[id]
  IN  o.reference # 0 =>
        /\ o.reference \in DOMAIN s.handles
        /\ s.handles[o.reference] > 0
        /\ o.name \in LazyNames <=> s.handles[o.reference] # id

References(s) ==
  /\ \A id \in DOMAIN s.heap : Refers(s, id)
  /\ \A id, jd \in DOMAIN s.heap :
       s.heap[id].reference # 0 /\ s.heap[id].reference = s.heap[jd].reference => id = jd
  /\ \A r \in DOMAIN s.handles :
       s.handles[r] > 0 => \E id \in DOMAIN s.heap : s.heap[id].reference = r
  /\ \A q, r \in DOMAIN s.handles : s.handles[q] > 0 /\ s.handles[q] = s.handles[r] => q = r

Elements(s) ==
  \A id \in DOMAIN s.heap : \A k \in DOMAIN s.heap[id].elements :
    Proper(s, s.heap[id].elements[k])

StoreOK(s) ==
  /\ s \in Stores
  /\ \A r \in DOMAIN s.handles : s.handles[r] \in -1 .. Len(s.heap)
  /\ \A id \in DOMAIN s.heap : Coherent(s.heap[id])
  /\ References(s)
  /\ Elements(s)

\* What showing objects leaves as it is.
Grows(s, t) ==
  /\ DOMAIN s.heap \subseteq DOMAIN t.heap
  /\ \A id \in DOMAIN s.heap :
       /\ MemoryOf(t.heap[id]) = MemoryOf(s.heap[id])
       /\ Proper(s, id) => Proper(t, id)
       /\ s.heap[id].memory # "none" => t.heap[id].memory # "none"
       /\ s.heap[id].reference # 0 => t.heap[id].reference # 0
       /\ t.heap[id].name = s.heap[id].name
  /\ DOMAIN s.handles \subseteq DOMAIN t.handles
  /\ \A r \in DOMAIN s.handles : t.handles[r] = s.handles[r]

\* A sequence whose elements are in a set.
LEMMA Narrowed ==
  ASSUME NEW S, NEW T, NEW a \in Seq(S), \A i \in DOMAIN a : a[i] \in T
  PROVE  a \in Seq(T)
OBVIOUS

\* Sequences that are joined.
LEMMA Joined ==
  ASSUME NEW S, NEW a \in Seq(S), NEW b \in Seq(S), NEW c, c = a \o b
  PROVE  /\ c \in Seq(S) /\ Len(c) = Len(a) + Len(b)
         /\ \A i \in DOMAIN a : i \in DOMAIN c /\ c[i] = a[i]
         /\ \A i \in DOMAIN b : Len(a) + i \in DOMAIN c /\ c[Len(a) + i] = b[i]
<1>1. /\ c \in Seq(S) /\ Len(c) = Len(a) + Len(b)
      /\ \A i \in 1 .. Len(a) + Len(b) : c[i] = IF i <= Len(a) THEN a[i] ELSE b[i - Len(a)]
  BY ConcatProperties
<1>2. Len(a) \in Nat /\ Len(b) \in Nat
  OBVIOUS
<1>3. ASSUME NEW i \in DOMAIN b PROVE Len(a) + i \in DOMAIN c /\ c[Len(a) + i] = b[i]
  <2>1. i \in 1 .. Len(b)
    OBVIOUS
  <2>2. Len(a) + i \in 1 .. Len(a) + Len(b) /\ ~(Len(a) + i <= Len(a)) /\ Len(a) + i - Len(a) = i
    BY <1>2, <2>1
  <2> QED BY <1>1, <2>2
<1>4. ASSUME NEW i \in DOMAIN a PROVE i \in DOMAIN c /\ c[i] = a[i]
  <2>1. i \in 1 .. Len(a) + Len(b) /\ i <= Len(a)
    BY <1>2
  <2> QED BY <1>1, <2>1
<1> QED BY <1>1, <1>3, <1>4

LEMMA GrowsOn ==
  ASSUME NEW s, NEW t, NEW u, Grows(s, t), Grows(t, u)
  PROVE  Grows(s, u)
BY DEF Grows

\* What the memory of an object is.
LEMMA MemoryIs ==
  ASSUME NEW o \in Objects, Coherent(o)
  PROVE  /\ MemoryOf(o) \in Bytes \cup {"none"}
         /\ MemoryOf(o) # "none" <=> o.value \in Strings
         /\ Remembering(o) \in Objects /\ Coherent(Remembering(o))
         /\ Remembering(o).memory = MemoryOf(o)
         /\ MemoryOf(Remembering(o)) = MemoryOf(o)
<1>1. /\ o.value \in Strings => Encoded[o.value] \in Bytes /\ Decoded[Encoded[o.value]] = o.value
      /\ "none" \notin Bytes
  BY CodecAssumption
<1>2. MemoryOf(o) \in Bytes \cup {"none"} /\ (MemoryOf(o) # "none" <=> o.value \in Strings)
  BY <1>1 DEF MemoryOf, Coherent, Objects
<1>3. MemoryOf(o) # "none" => Decoded[MemoryOf(o)] = o.value
  BY <1>1 DEF MemoryOf, Coherent, Objects
<1> DEFINE m == MemoryOf(o)
           p == [o EXCEPT !.memory = m]
<1>4. p \in Objects /\ p.memory = m /\ p.value = o.value
  <2> HIDE DEF m
  <2> QED BY <1>2 DEF Objects, m
<1>5. Coherent(p)
  BY <1>2, <1>3, <1>4 DEF Coherent
<1>6. MemoryOf(p) = m
  <2>1. MemoryOf(p) = IF p.memory = "none" /\ p.value \in Strings THEN Encoded[p.value] ELSE p.memory
    BY DEF MemoryOf
  <2> HIDE DEF p
  <2>2. m = "none" => o.value \notin Strings
    BY <1>2
  <2> QED BY <1>4, <2>1, <2>2
<1> QED BY <1>2, <1>4, <1>5, <1>6 DEF Remembering

\* One object changes and keeps its name, its reference and its elements, or
\* loses these.
LEMMA ObjectChanges ==
  ASSUME NEW s, StoreOK(s), NEW id \in DOMAIN s.heap, NEW o \in Objects, Coherent(o),
         o.name = s.heap[id].name, o.reference = s.heap[id].reference,
         o.elements \in {s.heap[id].elements, << >>},
         NEW t, IsStore(t), t.heap = [s.heap EXCEPT ![id] = o], t.handles = s.handles
  PROVE  /\ StoreOK(t)
         /\ DOMAIN t.heap = DOMAIN s.heap /\ t.handles = s.handles /\ t.heap[id] = o
         /\ \A j \in DOMAIN s.heap \ {id} : t.heap[j] = s.heap[j]
         /\ \A j : Proper(s, j) => Proper(t, j)
<1>1. s \in Stores /\ s.heap \in Seq(Objects) /\ s.handles \in Seq(Int)
  BY DEF StoreOK, Stores
<1>2. /\ t.heap = [s.heap EXCEPT ![id] = o] /\ t.handles = s.handles
      /\ t = [heap |-> t.heap, handles |-> t.handles]
  BY DEF IsStore
<1>3. t.heap \in Seq(Objects) /\ DOMAIN t.heap = DOMAIN s.heap /\ Len(t.heap) = Len(s.heap)
  BY <1>1, <1>2
<1>4. t \in Stores
  BY <1>1, <1>2, <1>3 DEF Stores
<1>5. /\ t.heap[id] = o
      /\ \A j \in DOMAIN s.heap \ {id} : t.heap[j] = s.heap[j]
  BY <1>1, <1>2
<1>6. \A j \in DOMAIN s.heap : /\ t.heap[j].reference = s.heap[j].reference
                               /\ t.heap[j].name = s.heap[j].name
                               /\ t.heap[j].elements \in {s.heap[j].elements, << >>}
  BY <1>5
<1>7. ASSUME NEW j, Proper(s, j) PROVE Proper(t, j)
  BY <1>2, <1>3, <1>6, <1>7 DEF Proper
<1>8. References(t)
  <2>1. References(s)
    BY DEF StoreOK
  <2> QED BY <1>2, <1>3, <1>6, <2>1 DEF References, Refers
<1>9. Elements(t)
  <2>1. Elements(s)
    BY DEF StoreOK
  <2>2. ASSUME NEW j \in DOMAIN t.heap, NEW k \in DOMAIN t.heap[j].elements
        PROVE  Proper(t, t.heap[j].elements[k])
    <3>1. j \in DOMAIN s.heap /\ t.heap[j].elements = s.heap[j].elements
      BY <1>3, <1>6, <2>2
    <3> QED BY <1>7, <2>1, <2>2, <3>1 DEF Elements
  <2> QED BY <2>2 DEF Elements
<1>10. \A j \in DOMAIN t.heap : Coherent(t.heap[j])
  BY <1>3, <1>5 DEF StoreOK
<1>11. \A r \in DOMAIN t.handles : t.handles[r] \in -1 .. Len(t.heap)
  BY <1>2, <1>3 DEF StoreOK
<1> QED BY <1>2, <1>3, <1>4, <1>5, <1>7, <1>8, <1>9, <1>10, <1>11 DEF StoreOK

\* New objects, which name proper ones or each other.
Fresh(s, objs) ==
  /\ \A k \in DOMAIN objs : objs[k].reference = 0 /\ objs[k].memory = "none"
  /\ \A k \in DOMAIN objs : \A j \in DOMAIN objs[k].elements :
       \/ objs[k].elements[j] \in Len(s.heap) + 1 .. Len(s.heap) + Len(objs)
       \/ Proper(s, objs[k].elements[j])

LEMMA ObjectsAdded ==
  ASSUME NEW s, StoreOK(s), NEW objs \in Seq(Objects), Fresh(s, objs),
         NEW t, IsStore(t), t.heap = s.heap \o objs, t.handles = s.handles
  PROVE  /\ StoreOK(t) /\ Grows(s, t)
         /\ Len(t.heap) = Len(s.heap) + Len(objs) /\ t.handles = s.handles
         /\ \A j \in DOMAIN s.heap : t.heap[j] = s.heap[j]
         /\ \A k \in DOMAIN objs :
              /\ t.heap[Len(s.heap) + k] = objs[k]
              /\ Len(s.heap) + k \in DOMAIN t.heap /\ Proper(t, Len(s.heap) + k)
<1> DEFINE n == Len(s.heap)
           m == Len(objs)
<1>1. /\ s \in Stores /\ s.heap \in Seq(Objects) /\ s.handles \in Seq(Int) /\ n \in Nat /\ m \in Nat
      /\ \A r \in DOMAIN s.handles : s.handles[r] \in -1 .. n
      /\ \A k \in DOMAIN objs : objs[k].reference = 0 /\ objs[k].memory = "none"
      /\ \A k \in DOMAIN objs : \A j \in DOMAIN objs[k].elements :
           objs[k].elements[j] \in n + 1 .. n + m \/ Proper(s, objs[k].elements[j])
  BY DEF StoreOK, Stores, Fresh
<1>2. /\ t.heap = s.heap \o objs /\ t.handles = s.handles
  OBVIOUS
<1>3. t.heap \in Seq(Objects) /\ Len(t.heap) = n + m
  BY <1>1, <1>2
<1>4. \A j \in DOMAIN s.heap : j \in DOMAIN t.heap /\ t.heap[j] = s.heap[j]
  BY <1>1, <1>2, <1>3
<1>5. \A k \in DOMAIN objs : n + k \in DOMAIN t.heap /\ t.heap[n + k] = objs[k]
  BY <1>1, <1>2, <1>3
<1>6. ASSUME NEW j \in DOMAIN t.heap, j \notin DOMAIN s.heap
      PROVE  /\ j \in n + 1 .. n + m
             /\ \E k \in DOMAIN objs : j = n + k /\ t.heap[j] = objs[k]
  <2>1. j \in n + 1 .. n + m
    BY <1>1, <1>3, <1>6
  <2>2. j - n \in DOMAIN objs /\ j = n + (j - n)
    BY <1>1, <2>1
  <2> QED BY <1>5, <2>1, <2>2
<1>7. t \in Stores
  BY <1>1, <1>2, <1>3 DEF Stores, IsStore
<1>8. ASSUME NEW j, Proper(s, j) PROVE Proper(t, j)
  BY <1>2, <1>4, <1>8 DEF Proper
<1>9. ASSUME NEW j \in n + 1 .. n + m PROVE Proper(t, j)
  <2>1. \A r \in DOMAIN s.handles : s.handles[r] # j
    BY <1>1, <1>9
  <2>2. j \in DOMAIN t.heap
    BY <1>1, <1>3, <1>9
  <2> QED BY <1>2, <2>1, <2>2 DEF Proper
<1>10. \A j \in DOMAIN t.heap : j \notin DOMAIN s.heap => t.heap[j].reference = 0
  BY <1>1, <1>6
<1>11. References(t)
  <2>1. References(s)
    BY DEF StoreOK
  <2> HIDE DEF n, m
  <2>2. \A j \in DOMAIN t.heap : Refers(t, j)
    BY <1>2, <1>4, <1>10, <2>1 DEF References, Refers
  <2>3. \A j, k \in DOMAIN t.heap :
          t.heap[j].reference # 0 /\ t.heap[j].reference = t.heap[k].reference => j = k
    <3>1. ASSUME NEW j \in DOMAIN t.heap, NEW k \in DOMAIN t.heap,
                 t.heap[j].reference # 0, t.heap[j].reference = t.heap[k].reference
          PROVE  j = k
      <4>1. j \in DOMAIN s.heap /\ k \in DOMAIN s.heap
        BY <1>10, <3>1
      <4>2. t.heap[j] = s.heap[j] /\ t.heap[k] = s.heap[k]
        BY <1>4, <4>1
      <4> QED BY <2>1, <3>1, <4>1, <4>2 DEF References
    <3> QED BY <3>1
  <2>4. \A r \in DOMAIN t.handles :
          t.handles[r] > 0 => \E j \in DOMAIN t.heap : t.heap[j].reference = r
    BY <1>2, <1>4, <2>1 DEF References
  <2>5. \A q, r \in DOMAIN t.handles : t.handles[q] > 0 /\ t.handles[q] = t.handles[r] => q = r
    BY <1>2, <2>1 DEF References
  <2> QED BY <2>2, <2>3, <2>4, <2>5 DEF References
<1>12. Elements(t)
  <2>1. ASSUME NEW j \in DOMAIN t.heap, NEW k \in DOMAIN t.heap[j].elements
        PROVE  Proper(t, t.heap[j].elements[k])
    <3>1. CASE j \in DOMAIN s.heap
      BY <1>4, <1>8, <2>1, <3>1 DEF StoreOK, Elements
    <3>2. CASE j \notin DOMAIN s.heap
      <4>1. PICK i \in DOMAIN objs : t.heap[j] = objs[i]
        BY <1>6, <3>2
      <4> QED BY <1>1, <1>8, <1>9, <2>1, <4>1
    <3> QED BY <3>1, <3>2
  <2> QED BY <2>1 DEF Elements
<1>13. \A j \in DOMAIN t.heap : Coherent(t.heap[j])
  <2>1. ASSUME NEW j \in DOMAIN t.heap PROVE Coherent(t.heap[j])
    <3>1. CASE j \in DOMAIN s.heap
      BY <1>4, <3>1 DEF StoreOK
    <3>2. CASE j \notin DOMAIN s.heap
      BY <1>1, <1>6, <3>2 DEF Coherent
    <3> QED BY <3>1, <3>2
  <2> QED BY <2>1
<1>14. \A r \in DOMAIN t.handles : t.handles[r] \in -1 .. Len(t.heap)
  BY <1>1, <1>2, <1>3
<1>15. StoreOK(t)
  BY <1>7, <1>11, <1>12, <1>13, <1>14 DEF StoreOK
<1>16. Grows(s, t)
  BY <1>2, <1>4, <1>8 DEF Grows
<1>17. \A k \in DOMAIN objs : n + k \in n + 1 .. n + m
  BY <1>1
<1> QED BY <1>2, <1>3, <1>4, <1>5, <1>9, <1>15, <1>16, <1>17

\* An object gets its reference: to itself, or a lazy one to a new wrapper.
LEMMA ObjectReferred ==
  ASSUME NEW s, StoreOK(s), NEW id, Proper(s, id), s.heap[id].reference = 0,
         NEW to \in DOMAIN s.heap, \A r \in DOMAIN s.handles : s.handles[r] # to,
         s.heap[id].name \in LazyNames <=> to # id,
         \A j \in DOMAIN s.heap : \A k \in DOMAIN s.heap[j].elements :
           s.heap[j].elements[k] = to => to = id,
         NEW t, t = Referred(s, id, to)
  PROVE  /\ StoreOK(t) /\ DOMAIN t.heap = DOMAIN s.heap
         /\ Len(t.handles) = Len(s.handles) + 1
         /\ \A r \in DOMAIN s.handles : r \in DOMAIN t.handles /\ t.handles[r] = s.handles[r]
         /\ t.heap[id].reference # 0 /\ t.heap[id].memory = s.heap[id].memory
         /\ t.heap[id].name = s.heap[id].name
         /\ MemoryOf(t.heap[id]) = MemoryOf(s.heap[id])
         /\ \A j \in DOMAIN s.heap \ {id} : t.heap[j] = s.heap[j]
         /\ \A j : Proper(s, j) /\ (j = to => j = id) => Proper(t, j)
<1> DEFINE n == Len(s.handles)
           o == [s.heap[id] EXCEPT !.reference = n + 1]
<1>1. /\ s \in Stores /\ s.heap \in Seq(Objects) /\ s.handles \in Seq(Int) /\ n \in Nat
      /\ id \in DOMAIN s.heap /\ s.heap[id] \in Objects
      /\ \A r \in DOMAIN s.handles : s.handles[r] \in -1 .. Len(s.heap)
  BY DEF StoreOK, Stores, Proper
<1>2. t.heap = [s.heap EXCEPT ![id] = o] /\ t.handles = Append(s.handles, to)
  BY <1>1 DEF Referred, Stores
<1>3. /\ o \in Objects /\ o.reference = n + 1 /\ o.name = s.heap[id].name
      /\ o.value = s.heap[id].value /\ o.memory = s.heap[id].memory
      /\ o.elements = s.heap[id].elements
  <2> DEFINE p == s.heap[id]
             r == n + 1
             q == [p EXCEPT !.reference = r]
  <2>1. p \in Objects /\ r \in Nat
    BY <1>1
  <2> HIDE DEF p, r, n
  <2>2. q \in Objects
    BY <2>1 DEF Objects
  <2>3. /\ q.reference = r /\ q.name = p.name /\ q.value = p.value
        /\ q.memory = p.memory /\ q.elements = p.elements
    BY <2>1 DEF Objects
  <2> QED BY <2>2, <2>3 DEF p, r
<1> HIDE DEF o
<1>4. /\ t.heap \in Seq(Objects) /\ DOMAIN t.heap = DOMAIN s.heap /\ t.heap[id] = o
      /\ Len(t.heap) = Len(s.heap)
      /\ \A j \in DOMAIN s.heap \ {id} : t.heap[j] = s.heap[j]
  BY <1>1, <1>2, <1>3
<1>5. to \in Int /\ to > 0
  BY <1>1
<1>6. /\ t.handles \in Seq(Int) /\ Len(t.handles) = n + 1 /\ t.handles[n + 1] = to
      /\ \A r \in DOMAIN s.handles : r \in DOMAIN t.handles /\ t.handles[r] = s.handles[r]
      /\ n + 1 \in DOMAIN t.handles /\ n + 1 \notin DOMAIN s.handles /\ n + 1 # 0
  BY <1>1, <1>2, <1>5
<1>7. \A r \in DOMAIN t.handles : r \in DOMAIN s.handles \/ r = n + 1
  BY <1>1, <1>6
<1> HIDE DEF n
<1>8. t \in Stores
  <2>1. t = [heap |-> t.heap, handles |-> t.handles]
    BY <1>1 DEF Referred, Stores
  <2> QED BY <1>4, <1>6, <2>1 DEF Stores
<1>9. ASSUME NEW j, Proper(s, j), j = to => j = id PROVE Proper(t, j)
  <2>1. j \in DOMAIN t.heap
    BY <1>4, <1>9 DEF Proper
  <2>2. ASSUME NEW r \in DOMAIN t.handles, t.handles[r] = j PROVE t.heap[j].reference = r
    <3>1. CASE r = n + 1
      BY <1>3, <1>4, <1>6, <1>9, <2>2, <3>1
    <3>2. CASE r # n + 1
      <4>1. r \in DOMAIN s.handles /\ s.handles[r] = j
        BY <1>6, <1>7, <2>2, <3>2
      <4>2. s.heap[j].reference = r /\ r # 0
        BY <1>1, <1>9, <4>1 DEF Proper
      <4>3. j # id
        BY <4>2
      <4> QED BY <1>4, <1>9, <4>2, <4>3 DEF Proper
    <3> QED BY <3>1, <3>2
  <2> QED BY <2>1, <2>2 DEF Proper
<1>10. References(s) /\ Elements(s)
  BY DEF StoreOK
<1>11. References(t)
  <2>1. ASSUME NEW j \in DOMAIN t.heap PROVE Refers(t, j)
    <3>1. CASE j = id
      BY <1>3, <1>4, <1>5, <1>6, <3>1 DEF Refers
    <3>2. CASE j # id
      <4>1. Refers(s, j) /\ t.heap[j] = s.heap[j]
        BY <1>4, <1>10, <2>1, <3>2 DEF References
      <4> QED BY <1>6, <4>1 DEF Refers
    <3> QED BY <3>1, <3>2
  <2>2. \A j \in DOMAIN t.heap \ {id} : t.heap[j].reference # n + 1
    <3>1. \A j \in DOMAIN t.heap \ {id} : Refers(s, j) /\ t.heap[j] = s.heap[j]
      BY <1>4, <1>10 DEF References
    <3> QED BY <1>6, <3>1 DEF Refers
  <2>3. ASSUME NEW j \in DOMAIN t.heap, NEW k \in DOMAIN t.heap,
               t.heap[j].reference # 0, t.heap[j].reference = t.heap[k].reference
        PROVE  j = k
    <3>1. CASE j = id \/ k = id
      BY <1>3, <1>4, <2>2, <2>3, <3>1
    <3>2. CASE j # id /\ k # id
      BY <1>4, <1>10, <2>3, <3>2 DEF References
    <3> QED BY <3>1, <3>2
  <2>4. ASSUME NEW r \in DOMAIN t.handles, t.handles[r] > 0
        PROVE  \E j \in DOMAIN t.heap : t.heap[j].reference = r
    <3>1. CASE r = n + 1
      BY <1>1, <1>3, <1>4, <3>1
    <3>2. CASE r # n + 1
      <4>1. r \in DOMAIN s.handles /\ s.handles[r] > 0
        BY <1>6, <1>7, <2>4, <3>2
      <4>2. PICK j \in DOMAIN s.heap : s.heap[j].reference = r
        BY <1>10, <4>1 DEF References
      <4>3. j # id
        BY <1>1, <4>1, <4>2
      <4> QED BY <1>4, <4>2, <4>3
    <3> QED BY <3>1, <3>2
  <2>5. ASSUME NEW q \in DOMAIN t.handles, NEW r \in DOMAIN t.handles,
               t.handles[q] > 0, t.handles[q] = t.handles[r]
        PROVE  q = r
    <3>1. CASE q = n + 1 /\ r # n + 1
      BY <1>6, <1>7, <2>5, <3>1
    <3>2. CASE q # n + 1 /\ r = n + 1
      BY <1>6, <1>7, <2>5, <3>2
    <3>3. CASE q # n + 1 /\ r # n + 1
      BY <1>6, <1>7, <1>10, <2>5, <3>3 DEF References
    <3> QED BY <3>1, <3>2, <3>3
  <2> QED BY <2>1, <2>3, <2>4, <2>5 DEF References
<1>12. Elements(t)
  <2>1. ASSUME NEW j \in DOMAIN t.heap, NEW k \in DOMAIN t.heap[j].elements
        PROVE  Proper(t, t.heap[j].elements[k])
    <3>1. j \in DOMAIN s.heap /\ t.heap[j].elements = s.heap[j].elements
      BY <1>3, <1>4, <2>1
    <3>2. Proper(s, s.heap[j].elements[k])
      BY <1>10, <2>1, <3>1 DEF Elements
    <3> QED BY <1>9, <2>1, <3>1, <3>2
  <2> QED BY <2>1 DEF Elements
<1>13. \A j \in DOMAIN t.heap : Coherent(t.heap[j])
  BY <1>1, <1>3, <1>4 DEF StoreOK, Coherent
<1>14. \A r \in DOMAIN t.handles : t.handles[r] \in -1 .. Len(t.heap)
  <2>1. to \in -1 .. Len(s.heap)
    BY <1>1
  <2> QED BY <1>1, <1>4, <1>6, <1>7, <2>1
<1>15. MemoryOf(t.heap[id]) = MemoryOf(s.heap[id])
  BY <1>3, <1>4 DEF MemoryOf
<1> QED
  BY <1>3, <1>4, <1>6, <1>8, <1>9, <1>11, <1>12, <1>13, <1>14, <1>15 DEF StoreOK, n

\* The getter of memory.
LEMMA ObjectRemembers ==
  ASSUME NEW s, StoreOK(s), NEW id \in DOMAIN s.heap,
         NEW t, IsStore(t), t.heap = [s.heap EXCEPT ![id] = Remembering(@)], t.handles = s.handles
  PROVE  /\ StoreOK(t) /\ Grows(s, t)
         /\ DOMAIN t.heap = DOMAIN s.heap /\ t.handles = s.handles
         /\ \A j \in DOMAIN s.heap \ {id} : t.heap[j] = s.heap[j]
         /\ t.heap[id].memory = MemoryOf(s.heap[id])
         /\ t.heap[id].reference = s.heap[id].reference /\ t.heap[id].name = s.heap[id].name
<1>1. s \in Stores /\ s.heap[id] \in Objects /\ Coherent(s.heap[id])
  BY DEF StoreOK, Stores
<1>2. PICK o : o = Remembering(s.heap[id])
  OBVIOUS
<1>3. /\ o \in Objects /\ Coherent(o) /\ o.memory = MemoryOf(s.heap[id])
      /\ MemoryOf(o) = MemoryOf(s.heap[id])
  BY <1>1, <1>2, MemoryIs
<1>4. /\ o.name = s.heap[id].name /\ o.reference = s.heap[id].reference
      /\ o.elements = s.heap[id].elements
  BY <1>1, <1>2 DEF Remembering, Objects
<1>5. t.heap = [s.heap EXCEPT ![id] = o]
  BY <1>1, <1>2
<1>6. s.heap[id].memory # "none" => MemoryOf(s.heap[id]) # "none"
  BY DEF MemoryOf
<1>7. o.elements \in {s.heap[id].elements, << >>}
  BY <1>4
<1>8. /\ StoreOK(t) /\ DOMAIN t.heap = DOMAIN s.heap /\ t.handles = s.handles /\ t.heap[id] = o
      /\ \A j \in DOMAIN s.heap \ {id} : t.heap[j] = s.heap[j]
      /\ \A j : Proper(s, j) => Proper(t, j)
  BY <1>3, <1>4, <1>5, <1>7, ObjectChanges
<1>9. Grows(s, t)
  BY <1>3, <1>4, <1>6, <1>8 DEF Grows
<1> QED BY <1>3, <1>4, <1>8, <1>9

\* v.reference ??= handles.create(v), of a variable that is not lazy.
LEMMA ObjectShown ==
  ASSUME NEW s, StoreOK(s), NEW id, Proper(s, id),
         s.heap[id].name \notin LazyNames \/ s.heap[id].reference # 0,
         NEW t, t = Referred(s, id, id)
  PROVE  /\ StoreOK(t) /\ Grows(s, t) /\ t.heap[id].reference # 0
         /\ t.heap[id].memory = s.heap[id].memory
<1>1. CASE s.heap[id].reference # 0
  <2>1. t = s
    BY <1>1 DEF Referred
  <2> QED BY <1>1, <2>1 DEF Grows
<1>2. CASE s.heap[id].reference = 0
  <2>1. id \in DOMAIN s.heap /\ s.handles \in Seq(Int)
    BY DEF Proper, StoreOK, Stores
  <2>2. \A r \in DOMAIN s.handles : s.handles[r] # id
    BY <1>2, <2>1 DEF Proper
  <2>3. /\ StoreOK(t) /\ DOMAIN t.heap = DOMAIN s.heap
        /\ \A r \in DOMAIN s.handles : r \in DOMAIN t.handles /\ t.handles[r] = s.handles[r]
        /\ t.heap[id].reference # 0 /\ t.heap[id].memory = s.heap[id].memory
        /\ t.heap[id].name = s.heap[id].name
        /\ MemoryOf(t.heap[id]) = MemoryOf(s.heap[id])
        /\ \A j \in DOMAIN s.heap \ {id} : t.heap[j] = s.heap[j]
        /\ \A j : Proper(s, j) => Proper(t, j)
    BY <1>2, <2>1, <2>2, ObjectReferred
  <2>4. Grows(s, t)
    BY <2>3 DEF Grows
  <2> QED BY <2>3, <2>4
<1> QED BY <1>1, <1>2

LEMMA HeapReplaced ==
  ASSUME NEW S, NEW T, NEW s \in [heap : S, handles : T], NEW h
  PROVE  [s EXCEPT !.heap = h] = [heap |-> h, handles |-> s.handles]
OBVIOUS

\* A lazy variable gets the reference of a new wrapper.
LEMMA LazyWrapped ==
  ASSUME NEW s, StoreOK(s), NEW id, Proper(s, id), s.heap[id].name \in LazyNames,
         NEW t, t = Wrapped(s, id)
  PROVE  StoreOK(t) /\ Grows(s, t) /\ t.heap[id].reference # 0
<1>1. CASE s.heap[id].reference # 0
  <2>1. t = s
    BY <1>1 DEF Wrapped
  <2> QED BY <1>1, <2>1 DEF Grows
<1>2. CASE s.heap[id].reference = 0
  <2> DEFINE o == s.heap[id]
             n == Len(s.heap)
             inner == Object("", o.value, o.elements)
             outer == Object("", "object", <<n + 1>>)
             objs == <<inner, outer>>
             u == [heap |-> s.heap \o objs, handles |-> s.handles]
  <2>1. /\ s \in Stores /\ s.heap \in Seq(Objects) /\ n \in Nat /\ id \in DOMAIN s.heap
        /\ o \in Objects /\ s.handles \in Seq(Int)
        /\ \A r \in DOMAIN s.handles : s.handles[r] \in -1 .. n
    BY DEF StoreOK, Stores, Proper
  <2>2. inner \in Objects /\ outer \in Objects
    <3>1. <<n + 1>> \in Seq(Nat)
      BY <2>1
    <3>2. "" \in Labels
      BY DEF Labels
    <3>3. o.value \in Values \cup {"object"} /\ o.elements \in Seq(Nat)
      BY <2>1 DEF Objects
    <3> HIDE DEF o, n
    <3> QED BY <3>1, <3>2, <3>3 DEF Objects, Object
  <2>3. t = Referred(u, id, n + 2)
    <3>1. \A h : [s EXCEPT !.heap = h] = [heap |-> h, handles |-> s.handles]
      BY <2>1, HeapReplaced DEF Stores
    <3>2. n + 1 + 1 = n + 2
      BY <2>1
    <3>3. t = Referred([s EXCEPT !.heap = @ \o objs], id, n + 1 + 1)
      BY <1>2 DEF Wrapped
    <3>4. [s EXCEPT !.heap = @ \o objs] = u
      <4> HIDE DEF objs
      <4> QED BY <3>1
    <3> HIDE DEF u, objs, n
    <3> QED BY <3>2, <3>3, <3>4
  <2>4. objs \in Seq(Objects) /\ Len(objs) = 2 /\ objs[1] = inner /\ objs[2] = outer
    <3> HIDE DEF inner, outer
    <3> QED BY <2>2
  <2>5. /\ inner.reference = 0 /\ inner.memory = "none" /\ inner.elements = o.elements
        /\ outer.reference = 0 /\ outer.memory = "none" /\ outer.elements = <<n + 1>>
    BY DEF Object
  <2> HIDE DEF inner, outer, objs, o, n
  <2>6. \A k \in DOMAIN objs : objs[k].reference = 0 /\ objs[k].memory = "none"
    BY <2>4, <2>5
  <2>7. ASSUME NEW k \in DOMAIN objs, NEW j \in DOMAIN objs[k].elements
        PROVE  \/ objs[k].elements[j] \in n + 1 .. n + 2
               \/ Proper(s, objs[k].elements[j])
    <3>1. CASE k = 1
      BY <2>1, <2>4, <2>5, <2>7, <3>1 DEF StoreOK, Elements, o
    <3>2. CASE k = 2
      <4>1. objs[k].elements = <<n + 1>>
        BY <2>4, <2>5, <3>2
      <4>2. objs[k].elements[j] = n + 1
        BY <2>7, <4>1
      <4> QED BY <2>1, <4>2
    <3> QED BY <2>4, <3>1, <3>2
  <2>8. /\ StoreOK(u) /\ Grows(s, u) /\ Len(u.heap) = n + 2
        /\ \A j \in DOMAIN s.heap : u.heap[j] = s.heap[j]
        /\ u.heap[n + 1] = inner /\ u.heap[n + 2] = outer
    <3>1. /\ StoreOK(u) /\ Grows(s, u) /\ Len(u.heap) = Len(s.heap) + Len(objs)
          /\ \A j \in DOMAIN s.heap : u.heap[j] = s.heap[j]
          /\ \A k \in DOMAIN objs : u.heap[Len(s.heap) + k] = objs[k]
      <4>1. Fresh(s, objs)
        BY <2>4, <2>6, <2>7 DEF n, Fresh
      <4> HIDE DEF u
      <4>2. IsStore(u) /\ u.heap = s.heap \o objs /\ u.handles = s.handles
        BY DEF u, IsStore
      <4> HIDE DEF u, objs
      <4>3. PICK w : w = u
        OBVIOUS
      <4>4. PICK added : added = objs
        OBVIOUS
      <4>5. added \in Seq(Objects) /\ Fresh(s, added)
        BY <2>4, <4>1, <4>4
      <4>6. IsStore(w) /\ w.heap = s.heap \o added /\ w.handles = s.handles
        BY <4>2, <4>3, <4>4
      <4>7. StoreOK(w) /\ Grows(s, w)
        BY <4>5, <4>6, ObjectsAdded
      <4>8. Len(w.heap) = Len(s.heap) + Len(added)
        BY <4>5, <4>6, ObjectsAdded
      <4>9. \A j \in DOMAIN s.heap : w.heap[j] = s.heap[j]
        BY <4>5, <4>6, ObjectsAdded
      <4>10. \A k \in DOMAIN added : w.heap[Len(s.heap) + k] = added[k]
        BY <4>5, <4>6, ObjectsAdded
      <4> QED BY <4>3, <4>4, <4>7, <4>8, <4>9, <4>10
    <3>2. 1 \in DOMAIN objs /\ 2 \in DOMAIN objs
      BY <2>4
    <3> QED BY <2>4, <3>1, <3>2 DEF n
  <2>9. u.handles = s.handles
    OBVIOUS
  <2> HIDE DEF u
  <2>10. u.heap \in Seq(Objects) /\ n + 2 \in DOMAIN u.heap
    BY <2>1, <2>8 DEF StoreOK, Stores
  <2>11. /\ Proper(u, id) /\ u.heap[id] = o /\ u.heap[id].reference = 0
         /\ u.heap[id].name \in LazyNames /\ n + 2 # id
    BY <1>2, <2>1, <2>8 DEF Grows, o, n
  <2>12. \A r \in DOMAIN u.handles : u.handles[r] # n + 2
    BY <2>1, <2>9
  <2>13. \A j \in DOMAIN s.heap : \A k \in DOMAIN s.heap[j].elements :
           s.heap[j].elements[k] \in DOMAIN s.heap
    BY DEF StoreOK, Elements, Proper
  <2>14. ASSUME NEW j \in DOMAIN u.heap, NEW k \in DOMAIN u.heap[j].elements
         PROVE  u.heap[j].elements[k] # n + 2
    <3>1. \A i \in DOMAIN s.heap : i # n + 2
      BY <2>1 DEF n
    <3>2. CASE j \in DOMAIN s.heap
      BY <2>8, <2>13, <2>14, <3>1, <3>2
    <3>3. CASE j = n + 1
      BY <2>1, <2>5, <2>8, <2>13, <2>14, <3>1, <3>3 DEF o
    <3>4. CASE j = n + 2
      <4>1. u.heap[j].elements = <<n + 1>>
        BY <2>5, <2>8, <3>4
      <4>2. u.heap[j].elements[k] = n + 1
        BY <2>14, <4>1
      <4> QED BY <2>1, <4>2
    <3> QED BY <2>1, <2>8, <2>10, <3>2, <3>3, <3>4 DEF n
  <2>15. /\ StoreOK(t) /\ DOMAIN t.heap = DOMAIN u.heap
         /\ \A r \in DOMAIN u.handles : r \in DOMAIN t.handles /\ t.handles[r] = u.handles[r]
         /\ t.heap[id].reference # 0 /\ t.heap[id].memory = u.heap[id].memory
         /\ t.heap[id].name = u.heap[id].name
         /\ MemoryOf(t.heap[id]) = MemoryOf(u.heap[id])
         /\ \A j \in DOMAIN u.heap \ {id} : t.heap[j] = u.heap[j]
         /\ \A j : Proper(u, j) /\ (j = n + 2 => j = id) => Proper(t, j)
    BY <2>3, <2>8, <2>10, <2>11, <2>12, <2>14, ObjectReferred
  <2>16. \A j \in DOMAIN s.heap : j # n + 2 /\ j \in DOMAIN u.heap
    BY <2>1, <2>8, <2>10 DEF n
  <2>17. Grows(s, t)
    <3>1. \A j \in DOMAIN s.heap :
            /\ MemoryOf(t.heap[j]) = MemoryOf(s.heap[j])
            /\ s.heap[j].memory # "none" => t.heap[j].memory # "none"
            /\ s.heap[j].reference # 0 => t.heap[j].reference # 0
            /\ t.heap[j].name = s.heap[j].name
      BY <2>8, <2>15, <2>16
    <3>2. \A j \in DOMAIN s.heap : Proper(s, j) => Proper(t, j)
      BY <2>8, <2>15, <2>16 DEF Grows
    <3> QED BY <2>9, <2>15, <2>16, <3>1, <3>2 DEF Grows
  <2> QED BY <2>15, <2>17
<1> QED BY <1>1, <1>2

\* convertFromRuntime: afterwards what has memory has it encoded and a reference.
LEMMA ObjectConverted ==
  ASSUME NEW s, StoreOK(s), NEW id, Proper(s, id),
         NEW t, t = ConvertFromRuntime(s, id)
  PROVE  /\ StoreOK(t) /\ Grows(s, t)
         /\ MemoryOf(s.heap[id]) # "none" =>
              t.heap[id].memory # "none" /\ t.heap[id].reference # 0
<1> DEFINE o == s.heap[id]
           shown == CASE o.name \in LazyNames -> Wrapped(s, id)
                      [] o.name \notin LazyNames /\ o.value = "object" -> Referred(s, id, id)
                      [] OTHER -> s
<1>1. PICK u : u = shown
  OBVIOUS
<1>2. /\ MemoryOf(o) = "none" => t = u
      /\ MemoryOf(o) # "none" => t = Referred([u EXCEPT !.heap[id] = Remembering(@)], id, id)
  BY <1>1 DEF ConvertFromRuntime
<1>3. /\ StoreOK(u) /\ Grows(s, u)
      /\ o.name \in LazyNames => u.heap[id].reference # 0
  <2>1. CASE o.name \in LazyNames
    BY <1>1, <2>1, LazyWrapped
  <2>2. CASE o.name \notin LazyNames /\ o.value = "object"
    BY <1>1, <2>2, ObjectShown
  <2>3. CASE o.name \notin LazyNames /\ o.value # "object"
    BY <1>1, <2>3 DEF Grows
  <2> QED BY <2>1, <2>2, <2>3
<1> HIDE DEF shown
<1>4. Proper(u, id) /\ id \in DOMAIN s.heap /\ id \in DOMAIN u.heap
  BY <1>3 DEF Grows, Proper
<1>5. CASE MemoryOf(o) = "none"
  BY <1>2, <1>3, <1>5
<1>6. CASE MemoryOf(o) # "none"
  <2> DEFINE w == [u EXCEPT !.heap[id] = Remembering(@)]
  <2>1. IsStore(w) /\ w.heap = [u.heap EXCEPT ![id] = Remembering(@)] /\ w.handles = u.handles
    <3>1. u \in [heap : Seq(Objects), handles : Seq(Int)]
      BY <1>3 DEF StoreOK, Stores
    <3> QED BY <3>1 DEF IsStore
  <2>2. PICK v : v = w
    OBVIOUS
  <2>3. /\ StoreOK(v) /\ Grows(u, v) /\ v.heap[id].memory = MemoryOf(u.heap[id])
        /\ v.heap[id].reference = u.heap[id].reference /\ v.heap[id].name = u.heap[id].name
    <3> HIDE DEF w
    <3> QED BY <1>3, <1>4, <2>1, <2>2, ObjectRemembers
  <2>4. Proper(v, id) /\ MemoryOf(u.heap[id]) = MemoryOf(o)
    BY <1>3, <1>4, <2>3 DEF Grows
  <2>5. v.heap[id].name \notin LazyNames \/ v.heap[id].reference # 0
    BY <1>3, <1>4, <2>3 DEF Grows
  <2>6. t = Referred(v, id, id)
    BY <1>2, <1>6, <2>2
  <2>7. /\ StoreOK(t) /\ Grows(v, t) /\ t.heap[id].reference # 0
        /\ t.heap[id].memory = v.heap[id].memory
    BY <2>3, <2>4, <2>5, <2>6, ObjectShown
  <2>8. Grows(s, t)
    BY <1>3, <2>3, <2>7, GrowsOn
  <2> QED BY <1>6, <2>3, <2>4, <2>7, <2>8
<1> QED BY <1>5, <1>6

\* The stores on the way, one for each object that is shown.
LEMMA ConvertedInOrder ==
  ASSUME NEW s, NEW ids, Len(ids) \in Nat
  PROVE  \E f : /\ f[0] = s
                /\ \A k \in 1 .. Len(ids) : f[k] = ConvertFromRuntime(f[k - 1], ids[k])
                /\ Converted(s, ids) = f[Len(ids)]
<1> DEFINE n == Len(ids)
           Passes(f, m) ==
             f = [k \in 0 .. m |-> IF k = 0 THEN s ELSE ConvertFromRuntime(f[k - 1], ids[k])]
           missing == {m \in Nat : ~\E f : Passes(f, m)}
<1>1. missing = {}
  <2>1. SUFFICES ASSUME missing # {} PROVE FALSE
    OBVIOUS
  <2>2. PICK m \in missing : \A k \in missing : m <= k
    <3>1. missing \in SUBSET Nat
      OBVIOUS
    <3> HIDE DEF missing
    <3> QED BY <2>1, <3>1, LeastNatural
  <2>3. CASE m = 0
    <3>1. Passes([k \in 0 .. 0 |-> s], 0)
      OBVIOUS
    <3> QED BY <2>2, <2>3, <3>1
  <2>4. CASE m # 0
    <3>1. m - 1 \in Nat /\ m \in Nat /\ ~(m <= m - 1)
      BY <2>2, <2>4
    <3>2. m - 1 \notin missing
      <4> HIDE DEF missing
      <4> QED BY <2>2, <3>1
    <3>3. PICK f : Passes(f, m - 1)
      BY <3>1, <3>2
    <3> DEFINE g == [k \in 0 .. m |-> IF k = m THEN ConvertFromRuntime(f[m - 1], ids[m]) ELSE f[k]]
    <3>4. ASSUME NEW k \in 0 .. m
          PROVE  g[k] = IF k = 0 THEN s ELSE ConvertFromRuntime(g[k - 1], ids[k])
      <4>1. CASE k = m
        <5>1. k - 1 \in 0 .. m /\ k - 1 # m /\ k # 0
          BY <2>4, <3>1, <4>1
        <5>2. g[k - 1] = f[m - 1] /\ g[k] = ConvertFromRuntime(f[m - 1], ids[m])
          BY <4>1, <5>1
        <5> QED BY <4>1, <5>1, <5>2
      <4>2. CASE k # m
        <5>1. k \in 0 .. m - 1 /\ g[k] = f[k]
          BY <3>1, <4>2
        <5>2. f[k] = IF k = 0 THEN s ELSE ConvertFromRuntime(f[k - 1], ids[k])
          BY <3>3, <5>1
        <5>3. k # 0 => k - 1 \in 0 .. m /\ k - 1 # m /\ g[k - 1] = f[k - 1]
          BY <3>1, <5>1
        <5> QED BY <5>1, <5>2, <5>3
      <4> QED BY <4>1, <4>2
    <3>5. Passes(g, m)
      <4>1. g = [k \in 0 .. m |-> g[k]]
        OBVIOUS
      <4> HIDE DEF g
      <4> QED BY <3>4, <4>1
    <3> HIDE DEF g, Passes
    <3> QED BY <2>2, <3>5
  <2> QED BY <2>3, <2>4
<1> DEFINE after == CHOOSE f : Passes(f, n)
<1>2. Passes(after, n)
  <2>1. \E f : Passes(f, n)
    BY <1>1
  <2> HIDE DEF Passes
  <2> QED BY <2>1
<1>3. Converted(s, ids) = after[n]
  BY DEF Converted
<1> HIDE DEF after, missing
<1>4. after[0] = s
  BY <1>2
<1>5. \A k \in 1 .. n : after[k] = ConvertFromRuntime(after[k - 1], ids[k])
  BY <1>2
<1> QED BY <1>3, <1>4, <1>5

\* A response that shows proper objects keeps the store in order.
LEMMA ObjectsConverted ==
  ASSUME NEW s, StoreOK(s), NEW ids, Len(ids) \in Nat, DOMAIN ids = 1 .. Len(ids),
         \A k \in DOMAIN ids : Proper(s, ids[k])
  PROVE  StoreOK(Converted(s, ids)) /\ Grows(s, Converted(s, ids))
<1> DEFINE n == Len(ids)
<1>1. PICK f : /\ f[0] = s
               /\ \A k \in 1 .. n : f[k] = ConvertFromRuntime(f[k - 1], ids[k])
               /\ Converted(s, ids) = f[n]
  BY ConvertedInOrder
<1> DEFINE bad == {k \in 0 .. n : ~(StoreOK(f[k]) /\ Grows(s, f[k]))}
<1>2. bad = {}
  <2>1. SUFFICES ASSUME bad # {} PROVE FALSE
    OBVIOUS
  <2>2. PICK m \in bad : \A k \in bad : m <= k
    <3>1. bad \in SUBSET Nat
      OBVIOUS
    <3> HIDE DEF bad
    <3> QED BY <2>1, <3>1, LeastNatural
  <2>3. m # 0
    BY <1>1, <2>2 DEF Grows
  <2>4. m \in 1 .. n /\ m - 1 \in 0 .. n /\ ~(m <= m - 1)
    BY <2>2, <2>3
  <2>5. StoreOK(f[m - 1]) /\ Grows(s, f[m - 1])
    <3>1. m - 1 \notin bad
      <4> HIDE DEF bad
      <4> QED BY <2>2, <2>4
    <3> QED BY <2>4, <3>1
  <2>6. Proper(s, ids[m]) /\ ids[m] \in DOMAIN s.heap
    BY <2>4 DEF Proper
  <2>7. Proper(f[m - 1], ids[m])
    BY <2>5, <2>6 DEF Grows
  <2>8. f[m] = ConvertFromRuntime(f[m - 1], ids[m])
    BY <1>1, <2>4
  <2>9. StoreOK(f[m]) /\ Grows(f[m - 1], f[m])
    BY <2>5, <2>7, <2>8, ObjectConverted
  <2>10. Grows(s, f[m])
    BY <2>5, <2>9, GrowsOn
  <2> QED BY <2>2, <2>9, <2>10
<1>3. n \in 0 .. n
  OBVIOUS
<1> QED BY <1>1, <1>2, <1>3

\* A response that shows one object.
LEMMA OneConverted ==
  ASSUME NEW s, NEW id
  PROVE  Converted(s, <<id>>) = ConvertFromRuntime(s, id)
<1>1. Len(<<id>>) = 1
  OBVIOUS
<1>2. PICK f : /\ f[0] = s
               /\ \A k \in 1 .. 1 : f[k] = ConvertFromRuntime(f[k - 1], <<id>>[k])
               /\ Converted(s, <<id>>) = f[1]
  <2>1. PICK ids : ids = <<id>> /\ Len(ids) = 1
    BY <1>1
  <2>2. \E f : /\ f[0] = s
               /\ \A k \in 1 .. Len(ids) : f[k] = ConvertFromRuntime(f[k - 1], ids[k])
               /\ Converted(s, ids) = f[Len(ids)]
    BY <2>1, ConvertedInOrder
  <2> QED BY <2>1, <2>2
<1>3. 1 \in 1 .. 1 /\ 1 - 1 = 0 /\ <<id>>[1] = id
  OBVIOUS
<1> QED BY <1>2, <1>3

-----------------------------------------------------------------------------
(***************************************************************************)
(* The invariant of the variables: the store, the variables of the program *)
(* and the client's copies of memory, which are of handles for objects.    *)
(***************************************************************************)
Held(s, vs, w) ==
  /\ StoreOK(s) /\ Fits(s)
  /\ vs \in Seq(Nat) /\ \A k \in DOMAIN vs : Proper(s, vs[k])
  /\ w \in [1 .. MaxHandles -> Bytes \cup {"none"}]
  /\ \A r \in 1 .. MaxHandles :
       w[r] # "none" => r \in DOMAIN s.handles /\ s.handles[r] > 0

\* The copies are what there is.
Viewed(s, w) ==
  \A r \in DOMAIN s.handles :
    w[r] # "none" => MemoryOf(s.heap[s.handles[r]]) \in {w[r], "none"}

VariablesInv == \A s \in {Store}, vs \in {variables}, w \in {view} : Held(s, vs, w)
ViewInv ==
  Does("setExpression") \/ \A s \in {Store}, w \in {view} : Viewed(s, w)

LEMMA HandleKnown ==
  ASSUME NEW s, NEW vs, NEW w, Held(s, vs, w)
  PROVE  /\ IsStore(s) /\ s.heap \in Seq(Objects) /\ s.handles \in Seq(Int)
         /\ Len(s.heap) \in Nat /\ Len(s.handles) \in Nat
         /\ Len(s.heap) <= MaxObjects /\ Len(s.handles) <= MaxHandles
         /\ DOMAIN s.handles \subseteq 1 .. MaxHandles
         /\ \A r \in DOMAIN s.handles : s.handles[r] > 0 => s.handles[r] \in DOMAIN s.heap
         /\ \A r \in DOMAIN s.handles : s.handles[r] > 0 => s.heap[s.handles[r]] \in Objects
<1>1. s \in Stores /\ s.heap \in Seq(Objects) /\ s.handles \in Seq(Int)
  BY DEF Held, StoreOK, Stores
<1>2. IsStore(s)
  BY <1>1 DEF Stores, IsStore
<1>3. Len(s.heap) <= MaxObjects /\ Len(s.handles) <= MaxHandles /\ MaxHandles \in Nat
  BY VariablesAssumption DEF Held, Fits
<1>4. \A r \in DOMAIN s.handles : s.handles[r] \in -1 .. Len(s.heap)
  BY DEF Held, StoreOK
<1>5. DOMAIN s.handles \subseteq 1 .. MaxHandles /\ Len(s.heap) \in Nat /\ Len(s.handles) \in Nat
  BY <1>1, <1>3
<1>6. \A r \in DOMAIN s.handles : s.handles[r] > 0 => s.handles[r] \in DOMAIN s.heap
  BY <1>1, <1>4
<1>7. \A j \in DOMAIN s.heap : s.heap[j] \in Objects
  BY <1>1
<1> QED BY <1>1, <1>2, <1>3, <1>5, <1>6, <1>7

LEMMA HeldGrows ==
  ASSUME NEW s, NEW vs, NEW w, Held(s, vs, w), NEW t, StoreOK(t), Grows(s, t), Fits(t)
  PROVE  Held(t, vs, w) /\ (Viewed(s, w) => Viewed(t, w))
<1>1. /\ DOMAIN s.handles \subseteq DOMAIN t.handles
      /\ \A r \in DOMAIN s.handles : t.handles[r] = s.handles[r]
      /\ \A id \in DOMAIN s.heap : MemoryOf(t.heap[id]) = MemoryOf(s.heap[id])
      /\ \A id \in DOMAIN s.heap : Proper(s, id) => Proper(t, id)
  BY DEF Grows
<1>2. \A k \in DOMAIN vs : Proper(t, vs[k])
  BY <1>1 DEF Held, Proper
<1>3. /\ w \in [1 .. MaxHandles -> Bytes \cup {"none"}] /\ vs \in Seq(Nat)
      /\ \A r \in 1 .. MaxHandles :
           w[r] # "none" => r \in DOMAIN s.handles /\ s.handles[r] > 0
  BY DEF Held
<1>4. Held(t, vs, w)
  BY <1>1, <1>2, <1>3 DEF Held
<1>5. ASSUME Viewed(s, w), NEW r \in DOMAIN t.handles, w[r] # "none"
      PROVE  MemoryOf(t.heap[t.handles[r]]) \in {w[r], "none"}
  <2>1. r \in 1 .. MaxHandles
    BY <1>4, HandleKnown
  <2>2. r \in DOMAIN s.handles /\ s.handles[r] > 0
    BY <1>3, <1>5, <2>1
  <2>3. s.handles[r] \in DOMAIN s.heap
    BY <2>2, HandleKnown
  <2> QED BY <1>1, <1>5, <2>2, <2>3 DEF Viewed
<1> QED BY <1>4, <1>5 DEF Viewed

\* The response that shows objects of a store that is held.
LEMMA ResponseShows ==
  ASSUME NEW s, StoreOK(s), NEW ids, Len(ids) \in Nat, DOMAIN ids = 1 .. Len(ids),
         \A k \in DOMAIN ids : Proper(s, ids[k]), Shows(s, ids)
  PROVE  /\ Store' = Converted(s, ids)
         /\ StoreOK(Converted(s, ids)) /\ Grows(s, Converted(s, ids)) /\ Fits(Converted(s, ids))
<1>1. PICK t : t = Converted(s, ids)
  OBVIOUS
<1>2. StoreOK(t) /\ Grows(s, t)
  BY <1>1, ObjectsConverted
<1>3. Fits(t) /\ heap' = t.heap /\ handles' = t.handles
  BY <1>1 DEF Shows
<1>4. t = [heap |-> t.heap, handles |-> t.handles]
  BY <1>2 DEF StoreOK, Stores
<1>5. Store' = t
  BY <1>3, <1>4 DEF Store
<1> QED BY <1>1, <1>2, <1>3, <1>5

\* Requests that show what there is.
LEMMA ShowsWhatThereIs ==
  ASSUME VariablesInv, NEW ids, Len(ids) \in Nat, DOMAIN ids = 1 .. Len(ids),
         \A s \in {Store} : \A k \in DOMAIN ids : Proper(s, ids[k]),
         Shows(Store, ids), UNCHANGED <<client, variables, view>>
  PROVE  VariablesInv' /\ (ViewInv => ViewInv')
<1>1. PICK s : s = Store
  OBVIOUS
<1>2. PICK t : t = Store'
  OBVIOUS
<1>3. Held(s, variables, view)
  BY <1>1 DEF VariablesInv
<1>4. StoreOK(s) /\ Shows(s, ids) /\ \A k \in DOMAIN ids : Proper(s, ids[k])
  BY <1>1, <1>3 DEF Held
<1>5. StoreOK(t) /\ Grows(s, t) /\ Fits(t)
  BY <1>2, <1>4, ResponseShows
<1>6. Held(t, variables, view) /\ (Viewed(s, view) => Viewed(t, view))
  BY <1>3, <1>5, HeldGrows
<1>7. VariablesInv'
  BY <1>2, <1>6 DEF VariablesInv
<1>8. ASSUME ViewInv PROVE ViewInv'
  <2>1. Does("setExpression") \/ Viewed(s, view)
    BY <1>1, <1>8 DEF ViewInv
  <2>2. Does("setExpression") => Does("setExpression")'
    BY DEF Does
  <2> QED BY <1>2, <1>6, <2>1, <2>2 DEF ViewInv
<1> QED BY <1>7, <1>8

\* What a container holds is proper.
LEMMA ContentsProper ==
  ASSUME NEW r \in DOMAIN handles, VariablesInv, NEW s, s = Store
  PROVE  /\ Contents(r) \in Seq(Nat) /\ \A k \in DOMAIN Contents(r) : Proper(s, Contents(r)[k])
         /\ \A name : \A id \in Named(Contents(r), name) : Proper(s, id)
         /\ \A name : \A id \in Named(variables, name) : Proper(s, id)
<1>1. Held(s, variables, view) /\ s.heap = heap /\ s.handles = handles
  BY DEF VariablesInv, Store
<1>2. variables \in Seq(Nat) /\ \A k \in DOMAIN variables : Proper(s, variables[k])
  BY <1>1 DEF Held
<1>3. Contents(r) \in Seq(Nat) /\ \A k \in DOMAIN Contents(r) : Proper(s, Contents(r)[k])
  <2>1. CASE handles[r] = LocalsScope
    BY <1>2, <2>1 DEF Contents
  <2>2. CASE handles[r] = GlobalsScope
    <3>1. Contents(r) = << >>
      BY <2>2 DEF Contents, LocalsScope, GlobalsScope
    <3>2. << >> \in Seq(Nat) /\ DOMAIN << >> = {}
      OBVIOUS
    <3> QED BY <3>1, <3>2
  <2>3. CASE handles[r] # LocalsScope /\ handles[r] # GlobalsScope
    <3>1. Contents(r) = heap[handles[r]].elements
      BY <2>3 DEF Contents
    <3>2. handles[r] \in -1 .. Len(heap) /\ Len(heap) \in Nat
      BY <1>1, HandleKnown DEF Held, StoreOK
    <3>3. handles[r] \in DOMAIN heap /\ heap[handles[r]] \in Objects
      <4>1. handles[r] > 0
        BY <2>3, <3>2 DEF LocalsScope, GlobalsScope
      <4> QED BY <1>1, <4>1, HandleKnown
    <3>4. heap[handles[r]].elements \in Seq(Nat)
      BY <3>3 DEF Objects
    <3>5. Elements(s)
      BY <1>1 DEF Held, StoreOK
    <3> QED BY <1>1, <3>1, <3>3, <3>4, <3>5 DEF Elements
  <2> QED BY <2>1, <2>2, <2>3
<1>4. ASSUME NEW ids, \A k \in DOMAIN ids : Proper(s, ids[k]), NEW name, NEW id \in Named(ids, name)
      PROVE  Proper(s, id)
  BY <1>4 DEF Named, Range
<1>5. ASSUME NEW name, NEW id \in Named(variables, name) PROVE Proper(s, id)
  BY <1>2, <1>4, <1>5
<1>6. ASSUME NEW name, NEW id \in Named(Contents(r), name) PROVE Proper(s, id)
  BY <1>3, <1>4, <1>6
<1> QED BY <1>3, <1>5, <1>6

-----------------------------------------------------------------------------
(***************************************************************************)
(* Each request keeps the invariant, and shows what it must.               *)
(***************************************************************************)
VariablesKept == VariablesInv' /\ (ViewInv => ViewInv')

\* A new store, new variables and a new view that are in order.
LEMMA StoreKept ==
  ASSUME NEW s, s = Store, VariablesInv,
         NEW t, t = Store', NEW w, w = view', UNCHANGED client,
         Held(t, variables', w), Does("setExpression") \/ (Viewed(s, view) => Viewed(t, w))
  PROVE  VariablesKept
<1>1. VariablesInv'
  BY DEF VariablesInv
<1>2. ASSUME ViewInv PROVE ViewInv'
  <2>1. Does("setExpression") \/ Viewed(s, view)
    BY <1>2 DEF ViewInv
  <2>2. Does("setExpression") => Does("setExpression")'
    BY DEF Does
  <2> QED BY <2>1, <2>2 DEF ViewInv
<1> QED BY <1>1, <1>2 DEF VariablesKept

\* Two more handles, of scopes.
LEMMA ScopesKept ==
  ASSUME VariablesInv, Scopes, UNCHANGED client
  PROVE  VariablesKept
<1>1. PICK s : s = Store
  OBVIOUS
<1>2. PICK t : t = Store'
  OBVIOUS
<1>3. /\ Held(s, variables, view) /\ s.heap = heap /\ s.handles = handles
      /\ t = [heap |-> heap', handles |-> handles']
  BY <1>1, <1>2 DEF VariablesInv, Store
<1> DEFINE n == Len(s.handles)
<1>4. /\ IsStore(s) /\ s.heap \in Seq(Objects) /\ s.handles \in Seq(Int) /\ n \in Nat
      /\ StoreOK(s) /\ Fits(s)
  BY <1>3, HandleKnown DEF Held
<1>5. /\ t.heap = s.heap /\ t.handles = s.handles \o <<0, -1>> /\ n + 2 <= MaxHandles
      /\ UNCHANGED <<variables, view>>
  BY <1>3 DEF Scopes, LocalsScope, GlobalsScope
<1>6. <<0, -1>> \in Seq(Int) /\ Len(<<0, -1>>) = 2 /\ <<0, -1>>[1] = 0 /\ <<0, -1>>[2] = -1
  OBVIOUS
<1>7. /\ t.handles \in Seq(Int) /\ Len(t.handles) = n + 2
      /\ \A r \in DOMAIN s.handles : r \in DOMAIN t.handles /\ t.handles[r] = s.handles[r]
      /\ t.handles[n + 1] = 0 /\ t.handles[n + 2] = -1
  <2>1. PICK more : more = <<0, -1>>
    OBVIOUS
  <2>2. more \in Seq(Int) /\ Len(more) = 2 /\ more[1] = 0 /\ more[2] = -1
    BY <1>6, <2>1
  <2>3. t.handles = s.handles \o more
    BY <1>5, <2>1
  <2> HIDE DEF n
  <2>4. Len(s.handles) = n
    BY DEF n
  <2>5. /\ t.handles \in Seq(Int) /\ Len(t.handles) = Len(s.handles) + Len(more)
        /\ \A r \in DOMAIN s.handles : r \in DOMAIN t.handles /\ t.handles[r] = s.handles[r]
        /\ \A r \in DOMAIN more : t.handles[Len(s.handles) + r] = more[r]
    <3>1. PICK a : a = s.handles
      OBVIOUS
    <3>2. PICK c : c = t.handles
      OBVIOUS
    <3>3. a \in Seq(Int) /\ more \in Seq(Int) /\ c = a \o more
      BY <1>4, <2>2, <2>3, <3>1, <3>2
    <3>4. /\ c \in Seq(Int) /\ Len(c) = Len(a) + Len(more)
          /\ \A i \in DOMAIN a : i \in DOMAIN c /\ c[i] = a[i]
          /\ \A i \in DOMAIN more : Len(a) + i \in DOMAIN c /\ c[Len(a) + i] = more[i]
      BY <3>3, Joined
    <3> QED BY <3>1, <3>2, <3>4
  <2>6. 1 \in DOMAIN more /\ 2 \in DOMAIN more
    BY <2>2
  <2> QED BY <2>2, <2>4, <2>5, <2>6
<1>8. \A r \in DOMAIN t.handles : t.handles[r] > 0 => r \in DOMAIN s.handles
  <2>1. \A r \in DOMAIN t.handles : r \in DOMAIN s.handles \/ r = n + 1 \/ r = n + 2
    BY <1>4, <1>7
  <2> QED BY <1>7, <2>1
<1>9. ASSUME NEW j, Proper(s, j) PROVE Proper(t, j)
  <2>1. j \in DOMAIN s.heap /\ j > 0
    BY <1>4, <1>9 DEF Proper
  <2>2. \A r \in DOMAIN t.handles : t.handles[r] = j => s.handles[r] = j /\ r \in DOMAIN s.handles
    BY <1>7, <1>8, <2>1
  <2> QED BY <1>5, <1>9, <2>1, <2>2 DEF Proper
<1>10. References(t)
  <2>1. References(s)
    BY <1>4 DEF StoreOK
  <2>2. \A j \in DOMAIN t.heap : Refers(t, j)
    BY <1>5, <1>7, <2>1 DEF References, Refers
  <2>3. \A q, r \in DOMAIN t.handles : t.handles[q] > 0 /\ t.handles[q] = t.handles[r] => q = r
    <3>1. ASSUME NEW q \in DOMAIN t.handles, NEW r \in DOMAIN t.handles,
                 t.handles[q] > 0, t.handles[q] = t.handles[r]
          PROVE  q = r
      <4>1. q \in DOMAIN s.handles /\ r \in DOMAIN s.handles
        BY <1>8, <3>1
      <4>2. t.handles[q] = s.handles[q] /\ t.handles[r] = s.handles[r]
        BY <1>7, <4>1
      <4> QED BY <2>1, <3>1, <4>1, <4>2 DEF References
    <3> QED BY <3>1
  <2>4. \A r \in DOMAIN t.handles :
          t.handles[r] > 0 => \E j \in DOMAIN t.heap : t.heap[j].reference = r
    BY <1>5, <1>7, <1>8, <2>1 DEF References
  <2> QED BY <1>5, <2>1, <2>2, <2>3, <2>4 DEF References
<1>11. Elements(t)
  BY <1>4, <1>5, <1>9 DEF StoreOK, Elements
<1>12. t \in Stores
  BY <1>3, <1>4, <1>5, <1>7 DEF Stores
<1>13. \A r \in DOMAIN t.handles : t.handles[r] \in -1 .. Len(t.heap)
  <2>1. \A r \in DOMAIN t.handles : r \in DOMAIN s.handles \/ r = n + 1 \/ r = n + 2
    BY <1>4, <1>7
  <2>2. \A r \in DOMAIN s.handles : s.handles[r] \in -1 .. Len(s.heap)
    BY <1>4 DEF StoreOK
  <2>3. 0 \in -1 .. Len(s.heap) /\ -1 \in -1 .. Len(s.heap)
    BY <1>4
  <2> HIDE DEF n
  <2> QED BY <1>5, <1>7, <2>1, <2>2, <2>3
<1>14. StoreOK(t)
  BY <1>4, <1>5, <1>10, <1>11, <1>12, <1>13 DEF StoreOK
<1>15. Grows(s, t) /\ Fits(t)
  BY <1>4, <1>5, <1>7, <1>9 DEF Grows, Fits
<1>16. Held(t, variables, view) /\ (Viewed(s, view) => Viewed(t, view))
  BY <1>3, <1>14, <1>15, HeldGrows
<1> QED BY <1>1, <1>2, <1>5, <1>16, StoreKept

\* An assignment makes a new object, of which a variable is from now on.
LEMMA AssignKept ==
  ASSUME NEW name \in Names, NEW value \in Values \cup {"object"},
         VariablesInv, Assign(name, value), UNCHANGED client
  PROVE  VariablesKept
<1>1. PICK s : s = Store
  OBVIOUS
<1>2. PICK t : t = Store'
  OBVIOUS
<1>3. /\ Held(s, variables, view) /\ s.heap = heap /\ s.handles = handles
      /\ t = [heap |-> heap', handles |-> handles']
  BY <1>1, <1>2 DEF VariablesInv, Store
<1>4. /\ IsStore(s) /\ s.heap \in Seq(Objects) /\ Len(s.heap) \in Nat /\ StoreOK(s) /\ Fits(s)
  BY <1>3, HandleKnown DEF Held
<1> DEFINE n == Len(s.heap)
           fields == IF value = "object" THEN Fields ELSE << >>
           elements == [k \in DOMAIN fields |-> n + 1 + k]
           first == Object(name, value, elements)
           rest == [k \in DOMAIN fields |-> Object(fields[k].name, fields[k].value, << >>)]
<1>5. /\ n + 1 + Len(fields) <= MaxObjects
      /\ heap' = (s.heap \o <<first>>) \o rest /\ UNCHANGED <<handles, view>>
      /\ \E old : variables' = IF old = 0 THEN Append(variables, n + 1)
                               ELSE [variables EXCEPT ![old] = n + 1]
  BY <1>3 DEF Assign
<1>6. fields \in Seq([name : Labels, value : Values]) /\ Len(fields) \in Nat
  <2>1. Fields \in Seq([name : Labels, value : Values])
    BY VariablesAssumption DEF Values
  <2>2. << >> \in Seq([name : Labels, value : Values])
    OBVIOUS
  <2> QED BY <2>1, <2>2
<1> HIDE DEF fields
<1>7. \A k \in DOMAIN fields :
        fields[k].name \in Labels /\ fields[k].value \in Values \cup {"object"}
  <2>1. \A k \in DOMAIN fields : fields[k] \in [name : Labels, value : Values]
    <3> DEFINE T == [name : Labels, value : Values]
    <3>1. fields \in Seq(T)
      BY <1>6
    <3> HIDE DEF T
    <3>2. \A k \in DOMAIN fields : fields[k] \in T
      BY <3>1
    <3> QED BY <3>2 DEF T
  <2> QED BY <2>1
<1>8. elements \in Seq(Nat) /\ DOMAIN elements = DOMAIN fields
  <2>1. elements \in [1 .. Len(fields) -> Nat]
    BY <1>4, <1>6
  <2> QED BY <1>6, <2>1
<1>9. first \in Objects
  <2>1. name \in Labels
    BY DEF Labels
  <2> HIDE DEF elements
  <2> QED BY <1>8, <2>1 DEF Object, Objects
<1>10. rest \in Seq(Objects) /\ Len(rest) = Len(fields)
  <2>1. << >> \in Seq(Nat)
    OBVIOUS
  <2>2. ASSUME NEW k \in DOMAIN fields
        PROVE  Object(fields[k].name, fields[k].value, << >>) \in Objects
    BY <1>7, <2>1 DEF Object, Objects
  <2>3. rest \in [1 .. Len(fields) -> Objects]
    BY <1>6, <2>2
  <2> QED BY <1>6, <2>3
<1> DEFINE objs == <<first>> \o rest
<1>11. first.reference = 0 /\ first.memory = "none" /\ first.elements = elements
  BY DEF Object
<1>12. \A k \in DOMAIN rest : /\ rest[k].reference = 0 /\ rest[k].memory = "none"
                              /\ rest[k].elements = << >>
  BY DEF Object
<1>13. \A j \in DOMAIN elements : elements[j] = n + 1 + j /\ j \in 1 .. Len(fields)
  BY <1>6
<1> HIDE DEF first, rest, elements
<1>14. <<first>> \in Seq(Objects) /\ Len(<<first>>) = 1 /\ <<first>>[1] = first
  BY <1>9
<1>15. PICK single : single = <<first>>
  OBVIOUS
<1>16. /\ single \in Seq(Objects) /\ Len(single) = 1 /\ single[1] = first
       /\ objs = single \o rest
  BY <1>14, <1>15
<1> HIDE DEF n, objs
<1>17. heap' = s.heap \o objs
  <2>1. heap' = (s.heap \o single) \o rest
    BY <1>5, <1>15
  <2>2. (s.heap \o single) \o rest = s.heap \o (single \o rest)
    <3>1. PICK a : a = s.heap
      OBVIOUS
    <3>2. a \in Seq(Objects) /\ single \in Seq(Objects) /\ rest \in Seq(Objects)
      BY <1>4, <1>10, <1>16, <3>1
    <3>3. (a \o single) \o rest = a \o (single \o rest)
      BY <3>2, ConcatAssociative
    <3> QED BY <3>1, <3>3
  <2> QED BY <1>16, <2>1, <2>2
<1>18. /\ objs \in Seq(Objects) /\ Len(objs) = Len(single) + Len(rest)
       /\ \A k \in DOMAIN single : objs[k] = single[k]
       /\ \A k \in DOMAIN rest : objs[Len(single) + k] = rest[k]
  <2>1. single \in Seq(Objects) /\ rest \in Seq(Objects) /\ objs = single \o rest
    BY <1>10, <1>16
  <2> QED BY <2>1, Joined
<1>19. objs \in Seq(Objects) /\ Len(objs) = 1 + Len(fields)
  BY <1>10, <1>16, <1>18
<1>20. objs[1] = first
  <2>1. 1 \in DOMAIN single
    BY <1>16
  <2> QED BY <1>16, <1>18, <2>1
<1>21. \A k \in 2 .. Len(objs) : objs[k] = rest[k - 1] /\ k - 1 \in DOMAIN rest
  <2>1. ASSUME NEW k \in 2 .. Len(objs) PROVE k - 1 \in DOMAIN rest /\ 1 + (k - 1) = k
    BY <1>6, <1>10, <1>19, <2>1
  <2> QED BY <1>16, <1>18, <2>1
<1>22. Fresh(s, objs)
  <2>1. ASSUME NEW k \in DOMAIN objs
        PROVE  /\ objs[k].reference = 0 /\ objs[k].memory = "none"
               /\ \A j \in DOMAIN objs[k].elements :
                    objs[k].elements[j] \in n + 1 .. n + Len(objs)
    <3>1. CASE k = 1
      <4>1. /\ objs[k].reference = 0 /\ objs[k].memory = "none" /\ objs[k].elements = elements
        BY <1>11, <1>20, <3>1
      <4>2. n \in Nat
        BY <1>4 DEF n
      <4> QED BY <1>6, <1>13, <1>19, <4>1, <4>2
    <3>2. CASE k # 1
      <4>1. k \in 2 .. Len(objs)
        BY <1>19, <2>1, <3>2
      <4>2. /\ objs[k].reference = 0 /\ objs[k].memory = "none" /\ objs[k].elements = << >>
        BY <1>12, <1>21, <4>1
      <4> QED BY <4>2
    <3> QED BY <3>1, <3>2
  <2> QED BY <2>1 DEF Fresh, n
<1>23. IsStore(t) /\ t.heap = s.heap \o objs /\ t.handles = s.handles
  BY <1>3, <1>5, <1>17 DEF IsStore
<1>24. /\ StoreOK(t) /\ Grows(s, t) /\ Len(t.heap) = n + Len(objs)
       /\ \A k \in DOMAIN objs : Proper(t, n + k)
  <2>1. StoreOK(t) /\ Grows(s, t)
    BY <1>4, <1>22, <1>23, <1>19, ObjectsAdded DEF n
  <2>2. Len(t.heap) = n + Len(objs)
    BY <1>4, <1>22, <1>23, <1>19, ObjectsAdded DEF n
  <2>3. \A k \in DOMAIN objs : Proper(t, n + k)
    BY <1>4, <1>22, <1>23, <1>19, ObjectsAdded DEF n
  <2> QED BY <2>1, <2>2, <2>3
<1>25. Fits(t)
  <2>1. n + Len(objs) = n + 1 + Len(fields)
    <3>1. n \in Nat /\ Len(fields) \in Nat /\ Len(objs) = 1 + Len(fields)
      BY <1>4, <1>6, <1>19 DEF n
    <3> QED BY <3>1
  <2> QED BY <1>4, <1>5, <1>23, <1>24, <2>1 DEF Fits
<1>26. Held(t, variables, view) /\ (Viewed(s, view) => Viewed(t, view))
  BY <1>3, <1>24, <1>25, HeldGrows
<1>27. Proper(t, n + 1)
  <2>1. 1 \in DOMAIN objs
    BY <1>6, <1>19
  <2> QED BY <1>24, <2>1
<1>28. variables' \in Seq(Nat) /\ \A k \in DOMAIN variables' : Proper(t, variables'[k])
  <2>1. PICK old : variables' = IF old = 0 THEN Append(variables, n + 1)
                                ELSE [variables EXCEPT ![old] = n + 1]
    BY <1>5
  <2>2. /\ variables \in Seq(Nat) /\ n + 1 \in Nat
        /\ \A k \in DOMAIN variables : Proper(t, variables[k])
    <3>1. n \in Nat
      BY <1>4 DEF n
    <3> QED BY <1>26, <3>1 DEF Held
  <2>3. CASE old = 0
    <3>1. variables' = Append(variables, n + 1)
      BY <2>1, <2>3
    <3> HIDE DEF n
    <3>2. /\ variables' \in Seq(Nat)
          /\ \A k \in DOMAIN variables' :
               \/ k \in DOMAIN variables /\ variables'[k] = variables[k]
               \/ variables'[k] = n + 1
      BY <2>2, <3>1
    <3> QED BY <1>27, <2>2, <3>2
  <2>4. CASE old # 0
    <3>1. variables' = [variables EXCEPT ![old] = n + 1]
      BY <2>1, <2>4
    <3>2. variables \in [1 .. Len(variables) -> Nat] /\ Len(variables) \in Nat
      BY <2>2
    <3>3. variables' \in [1 .. Len(variables) -> Nat]
      BY <2>2, <3>1, <3>2
    <3>4. variables' \in Seq(Nat) /\ DOMAIN variables' = DOMAIN variables
      BY <3>2, <3>3
    <3>5. \A k \in DOMAIN variables' : variables'[k] = variables[k] \/ variables'[k] = n + 1
      BY <3>1, <3>4
    <3>6. /\ variables' \in Seq(Nat) /\ DOMAIN variables' = DOMAIN variables
          /\ \A k \in DOMAIN variables' : variables'[k] = variables[k] \/ variables'[k] = n + 1
      BY <3>4, <3>5
    <3> QED BY <1>27, <2>2, <3>6
  <2> QED BY <2>3, <2>4
<1>29. Held(t, variables', view)
  BY <1>26, <1>28 DEF Held
<1> QED BY <1>1, <1>2, <1>5, <1>26, <1>29, StoreKept

\* Requests that show what there is.
LEMMA ShowingKept ==
  ASSUME VariablesInv, UNCHANGED client,
         \/ \E r \in DOMAIN handles : VariablesRequest(r)
         \/ \E name \in Names : EvaluateVariable(name)
  PROVE  VariablesKept
<1>1. PICK s : s = Store
  OBVIOUS
<1>2. Held(s, variables, view)
  BY <1>1 DEF VariablesInv
<1>3. CASE \E r \in DOMAIN handles : VariablesRequest(r)
  <2>1. PICK r \in DOMAIN handles : VariablesRequest(r)
    BY <1>3
  <2>2. PICK ids : ids = Contents(r)
    OBVIOUS
  <2>3. ids \in Seq(Nat) /\ \A k \in DOMAIN ids : Proper(s, ids[k])
    BY <1>1, <2>2, ContentsProper
  <2>4. Len(ids) \in Nat /\ DOMAIN ids = 1 .. Len(ids)
    BY <2>3
  <2>5. Shows(Store, ids) /\ UNCHANGED <<client, variables, view>>
    BY <2>1, <2>2 DEF VariablesRequest
  <2>6. \A q \in {Store} : \A k \in DOMAIN ids : Proper(q, ids[k])
    BY <1>1, <2>3
  <2> QED BY <2>4, <2>5, <2>6, ShowsWhatThereIs DEF VariablesKept
<1>4. CASE \E name \in Names : EvaluateVariable(name)
  <2>1. PICK name \in Names : EvaluateVariable(name)
    BY <1>4
  <2>2. PICK id \in Named(variables, name) : Shows(Store, <<id>>)
    BY <2>1 DEF EvaluateVariable
  <2>3. Proper(s, id)
    BY <1>2, <2>2 DEF Held, Named, Range
  <2>4. PICK ids : ids = <<id>>
    OBVIOUS
  <2>5. Len(ids) = 1 /\ DOMAIN ids = 1 .. 1 /\ ids[1] = id
    BY <2>4
  <2>6. Len(ids) \in Nat /\ DOMAIN ids = 1 .. Len(ids)
    BY <2>5
  <2>7. \A q \in {Store} : \A k \in DOMAIN ids : Proper(q, ids[k])
    BY <1>1, <2>3, <2>5
  <2>8. Shows(Store, ids) /\ UNCHANGED <<client, variables, view>>
    BY <1>4, <2>2, <2>4 DEF EvaluateVariable
  <2> QED BY <2>6, <2>7, <2>8, ShowsWhatThereIs DEF VariablesKept
<1> QED BY <1>3, <1>4

\* A value that is evaluated makes an object.
LEMMA EvaluateValueKept ==
  ASSUME NEW value \in Values, VariablesInv, EvaluateValue(value), UNCHANGED client
  PROVE  VariablesKept
<1>1. PICK s : s = Store
  OBVIOUS
<1>2. PICK t : t = Store'
  OBVIOUS
<1>3. PICK o : o = Object("eval", value, << >>)
  OBVIOUS
<1>4. PICK single : single = <<o>>
  OBVIOUS
<1>5. PICK u : u = [heap |-> s.heap \o single, handles |-> s.handles]
  OBVIOUS
<1>6. /\ Held(s, variables, view) /\ s.heap = heap /\ s.handles = handles
  BY <1>1 DEF VariablesInv, Store
<1>7. /\ IsStore(s) /\ s.heap \in Seq(Objects) /\ Len(s.heap) \in Nat /\ StoreOK(s)
  BY <1>6, HandleKnown DEF Held
<1>8. o \in Objects /\ o.reference = 0 /\ o.memory = "none" /\ o.elements = << >>
  <2>1. "eval" \in Labels /\ << >> \in Seq(Nat)
    BY DEF Labels
  <2> QED BY <1>3, <2>1 DEF Object, Objects
<1>9. single \in Seq(Objects) /\ Len(single) = 1 /\ DOMAIN single = 1 .. 1 /\ single[1] = o
  BY <1>4, <1>8
<1>10. Fresh(s, single)
  <2>1. \A k \in DOMAIN single : single[k] = o
    BY <1>9
  <2>2. DOMAIN << >> = {}
    OBVIOUS
  <2> QED BY <1>8, <2>1, <2>2 DEF Fresh
<1>11. IsStore(u) /\ u.heap = s.heap \o single /\ u.handles = s.handles
  BY <1>5 DEF IsStore
<1>12. PICK id : id = Len(s.heap) + 1
  OBVIOUS
<1>13. StoreOK(u) /\ Grows(s, u) /\ Proper(u, id)
  <2>1. StoreOK(u) /\ Grows(s, u)
    BY <1>7, <1>9, <1>10, <1>11, ObjectsAdded
  <2>2. \A k \in DOMAIN single : Proper(u, Len(s.heap) + k)
    BY <1>7, <1>9, <1>10, <1>11, ObjectsAdded
  <2> QED BY <1>9, <1>12, <2>1, <2>2
<1>14. PICK ids : ids = <<id>>
  OBVIOUS
<1>15. /\ Len(ids) = 1 /\ DOMAIN ids = 1 .. 1 /\ ids[1] = id
  BY <1>14
<1>16. Shows(u, ids) /\ UNCHANGED <<variables, view>>
  <2>1. s.heap \o single = Append(s.heap, o)
    BY <1>4, <1>7, <1>8
  <2>2. [Store EXCEPT !.heap = Append(@, o)] = [heap |-> Append(s.heap, o), handles |-> s.handles]
    BY <1>1 DEF Store
  <2>3. [Store EXCEPT !.heap = Append(@, o)] = u
    BY <1>5, <2>1, <2>2
  <2>4. Shows([Store EXCEPT !.heap = Append(@, o)], <<Len(heap) + 1>>)
    BY <1>3 DEF EvaluateValue
  <2> QED BY <1>6, <1>12, <1>14, <2>3, <2>4 DEF EvaluateValue
<1>17. StoreOK(t) /\ Grows(u, t) /\ Fits(t)
  <2>1. Len(ids) \in Nat /\ DOMAIN ids = 1 .. Len(ids) /\ \A k \in DOMAIN ids : Proper(u, ids[k])
    BY <1>13, <1>15
  <2> QED BY <1>2, <1>13, <1>16, <2>1, ResponseShows
<1>18. Held(t, variables, view) /\ (Viewed(s, view) => Viewed(t, view))
  <2>1. Grows(s, t)
    BY <1>13, <1>17, GrowsOn
  <2> QED BY <1>6, <1>17, <2>1, HeldGrows
<1> QED BY <1>1, <1>2, <1>16, <1>18, StoreKept

\* A set through a container or by expression: the object loses its memory, gets
\* a new one when it is shown, and the client is told.
LEMMA SetKept ==
  ASSUME NEW id, NEW value \in Values, VariablesInv, \A s \in {Store} : Proper(s, id),
         Sets(id, value), UNCHANGED client,
         MemoryEvent(id) \/ (Does("setExpression") /\ UNCHANGED view)
  PROVE  VariablesKept
<1>1. PICK s : s = Store
  OBVIOUS
<1>2. PICK t : t = Store'
  OBVIOUS
<1>3. PICK o : o = SetValue(heap[id], value)
  OBVIOUS
<1>4. PICK u : u = [heap |-> [s.heap EXCEPT ![id] = o], handles |-> s.handles]
  OBVIOUS
<1>5. /\ Held(s, variables, view) /\ s.heap = heap /\ s.handles = handles
      /\ Proper(s, id) /\ id \in DOMAIN s.heap
  BY <1>1 DEF VariablesInv, Store, Proper
<1>6. /\ IsStore(s) /\ s.heap \in Seq(Objects) /\ StoreOK(s) /\ s.handles \in Seq(Int)
      /\ DOMAIN s.handles \subseteq 1 .. MaxHandles /\ heap[id] \in Objects
  <2>1. /\ IsStore(s) /\ s.heap \in Seq(Objects) /\ s.handles \in Seq(Int)
        /\ DOMAIN s.handles \subseteq 1 .. MaxHandles
    BY <1>5, HandleKnown
  <2> QED BY <1>5, <2>1 DEF Held
<1>7. /\ o \in Objects /\ o.name = heap[id].name /\ o.reference = heap[id].reference
      /\ o.value = value /\ o.memory = "none" /\ o.elements = << >>
  <2>1. PICK p : p = heap[id]
    OBVIOUS
  <2>2. << >> \in Seq(Nat) /\ p \in Objects
    BY <1>6, <2>1
  <2>3. o = [p EXCEPT !.value = value, !.elements = << >>, !.memory = "none"]
    BY <1>3, <2>1 DEF SetValue
  <2>4. o \in Objects
    BY <2>2, <2>3 DEF Objects
  <2>5. /\ o.name = p.name /\ o.reference = p.reference
        /\ o.value = value /\ o.memory = "none" /\ o.elements = << >>
    BY <2>2, <2>3 DEF Objects
  <2> QED BY <2>1, <2>4, <2>5
<1>8. Coherent(o)
  BY <1>7 DEF Coherent
<1>9. IsStore(u) /\ u.heap = [s.heap EXCEPT ![id] = o] /\ u.handles = s.handles
  BY <1>4 DEF IsStore
<1>10. /\ StoreOK(u) /\ DOMAIN u.heap = DOMAIN s.heap /\ u.heap[id] = o
       /\ \A j \in DOMAIN s.heap \ {id} : u.heap[j] = s.heap[j]
       /\ \A j : Proper(s, j) => Proper(u, j)
  <2>1. o.elements \in {s.heap[id].elements, << >>}
    BY <1>7
  <2> QED BY <1>5, <1>6, <1>7, <1>8, <1>9, <2>1, ObjectChanges
<1>11. Held(u, variables, view)
  <2>1. Fits(u)
    <3>1. Len(u.heap) = Len(s.heap)
      BY <1>6, <1>9
    <3> QED BY <1>5, <1>9, <3>1 DEF Held, Fits
  <2> QED BY <1>5, <1>9, <1>10, <2>1 DEF Held
<1>12. Shows(u, <<id>>) /\ UNCHANGED variables
  <2>1. [Store EXCEPT !.heap[id] = SetValue(@, value)] = u
    BY <1>1, <1>3, <1>4 DEF Store
  <2> QED BY <2>1 DEF Sets
<1>13. /\ StoreOK(t) /\ Grows(u, t) /\ Fits(t) /\ t = ConvertFromRuntime(u, id)
  <2>1. PICK ids : ids = <<id>>
    OBVIOUS
  <2>2. Len(ids) = 1 /\ DOMAIN ids = 1 .. 1 /\ ids[1] = id
    BY <2>1
  <2>3. Len(ids) \in Nat /\ DOMAIN ids = 1 .. Len(ids) /\ \A k \in DOMAIN ids : Proper(u, ids[k])
    BY <1>5, <1>10, <2>2
  <2>4. /\ t = Converted(u, ids) /\ StoreOK(t) /\ Grows(u, t) /\ Fits(t)
    BY <1>2, <1>10, <1>12, <2>1, <2>3, ResponseShows
  <2> QED BY <2>1, <2>4, OneConverted
<1>14. /\ MemoryOf(o) # "none" => t.heap[id].memory # "none" /\ t.heap[id].reference # 0
  BY <1>5, <1>10, <1>13, ObjectConverted
<1>15. Held(t, variables, view) /\ Proper(t, id)
  BY <1>5, <1>10, <1>11, <1>13, HeldGrows DEF Grows
<1>16. /\ view' \in [1 .. MaxHandles -> Bytes \cup {"none"}]
       /\ \A r \in 1 .. MaxHandles : view'[r] = view[r] \/ view'[r] = "none"
  <2>1. view \in [1 .. MaxHandles -> Bytes \cup {"none"}]
    BY <1>5 DEF Held
  <2>2. CASE UNCHANGED view
    BY <2>1, <2>2
  <2>3. CASE \E r : view' = [view EXCEPT ![r] = "none"]
    <3>1. PICK r : view' = [view EXCEPT ![r] = "none"]
      BY <2>3
    <3> QED BY <2>1, <3>1
  <2> QED BY <2>2, <2>3 DEF MemoryEvent
<1>17. Held(t, variables', view')
  BY <1>12, <1>15, <1>16 DEF Held
<1>18. ASSUME ~Does("setExpression"), Viewed(s, view), NEW r \in DOMAIN t.handles, view'[r] # "none"
       PROVE  MemoryOf(t.heap[t.handles[r]]) \in {view'[r], "none"}
  <2>1. r \in 1 .. MaxHandles /\ view'[r] = view[r]
    BY <1>15, <1>16, <1>18, HandleKnown
  <2>2. r \in DOMAIN s.handles /\ s.handles[r] > 0 /\ s.handles[r] \in DOMAIN s.heap
    BY <1>5, <1>18, <2>1, HandleKnown DEF Held
  <2>3. t.handles[r] = s.handles[r]
    BY <1>9, <1>13, <2>2 DEF Grows
  <2>4. CASE s.handles[r] # id
    <3>1. u.heap[s.handles[r]] = s.heap[s.handles[r]]
      BY <1>10, <2>2, <2>4
    <3>2. MemoryOf(t.heap[s.handles[r]]) = MemoryOf(s.heap[s.handles[r]])
      BY <1>10, <1>13, <2>2, <3>1 DEF Grows
    <3> QED BY <1>18, <2>1, <2>2, <2>3, <3>2 DEF Viewed
  <2>5. CASE s.handles[r] = id
    <3>1. t.heap[id].reference = r
      BY <1>15, <1>18, <2>3, <2>5 DEF Proper
    <3>2. MemoryOf(t.heap[id]) = MemoryOf(o)
      BY <1>5, <1>10, <1>13 DEF Grows
    <3>3. CASE MemoryOf(o) # "none"
      <4>1. t.heap = heap' /\ t.heap[id].memory # "none" /\ t.heap[id].reference # 0
        BY <1>2, <1>14, <3>3 DEF Store
      <4>2. view' = [view EXCEPT ![r] = "none"]
        BY <1>18, <3>1, <4>1 DEF MemoryEvent
      <4>3. view'[r] = "none"
        BY <1>5, <2>1, <4>2 DEF Held
      <4> QED BY <1>18, <4>3
    <3>4. CASE MemoryOf(o) = "none"
      BY <2>3, <2>5, <3>2, <3>4
    <3> QED BY <3>3, <3>4
  <2> QED BY <2>4, <2>5
<1>19. Does("setExpression") \/ (Viewed(s, view) => Viewed(t, view'))
  BY <1>18 DEF Viewed
<1> QED BY <1>1, <1>2, <1>17, <1>19, StoreKept

\* The memory of a handle is read, and is what the client then has.
LEMMA ReadMemoryKept ==
  ASSUME NEW r \in DOMAIN handles, VariablesInv, ReadMemory(r), UNCHANGED client
  PROVE  VariablesKept
<1>1. PICK s : s = Store
  OBVIOUS
<1>2. PICK t : t = Store'
  OBVIOUS
<1>3. PICK id : id = handles[r]
  OBVIOUS
<1>4. PICK m : m = MemoryOf(heap[id])
  OBVIOUS
<1>5. /\ Held(s, variables, view) /\ s.heap = heap /\ s.handles = handles
      /\ IsStore(t) /\ t.heap = heap' /\ t.handles = handles'
  BY <1>1, <1>2 DEF VariablesInv, Store, IsStore
<1>6. /\ s.heap \in Seq(Objects) /\ StoreOK(s) /\ r \in 1 .. MaxHandles
      /\ id > 0 /\ id \in DOMAIN s.heap /\ s.heap[id] \in Objects
  <2>1. id > 0
    BY <1>3 DEF ReadMemory
  <2>2. /\ s.heap \in Seq(Objects) /\ r \in 1 .. MaxHandles
        /\ id \in DOMAIN s.heap /\ s.heap[id] \in Objects
    BY <1>3, <1>5, <2>1, HandleKnown
  <2> QED BY <1>5, <2>1, <2>2 DEF Held
<1>7. /\ t.heap = [s.heap EXCEPT ![id] = Remembering(@)] /\ t.handles = s.handles
      /\ view' = [view EXCEPT ![r] = m] /\ UNCHANGED variables
  BY <1>3, <1>4, <1>5 DEF ReadMemory
<1>8. StoreOK(t) /\ Grows(s, t) /\ DOMAIN t.heap = DOMAIN s.heap
  BY <1>5, <1>6, <1>7, ObjectRemembers
<1>9. Fits(t)
  <2>1. Len(t.heap) = Len(s.heap)
    BY <1>6, <1>7
  <2> QED BY <1>5, <1>7, <2>1 DEF Held, Fits
<1>10. Held(t, variables, view) /\ (Viewed(s, view) => Viewed(t, view))
  BY <1>5, <1>8, <1>9, HeldGrows
<1>11. m \in Bytes \cup {"none"}
  <2>1. Coherent(s.heap[id])
    BY <1>6 DEF StoreOK
  <2> QED BY <1>4, <1>5, <1>6, <2>1, MemoryIs
<1>12. /\ view' \in [1 .. MaxHandles -> Bytes \cup {"none"}] /\ view'[r] = m
       /\ \A q \in 1 .. MaxHandles \ {r} : view'[q] = view[q]
  <2>1. view \in [1 .. MaxHandles -> Bytes \cup {"none"}]
    BY <1>5 DEF Held
  <2> QED BY <1>6, <1>7, <1>11, <2>1
<1>13. Held(t, variables', view')
  <2>1. r \in DOMAIN t.handles /\ t.handles[r] > 0
    BY <1>3, <1>5, <1>6, <1>7
  <2> QED BY <1>7, <1>10, <1>12, <2>1 DEF Held
<1>14. ASSUME Viewed(s, view), NEW q \in DOMAIN t.handles, view'[q] # "none"
       PROVE  MemoryOf(t.heap[t.handles[q]]) \in {view'[q], "none"}
  <2>1. CASE q = r
    <3>1. MemoryOf(t.heap[id]) = MemoryOf(s.heap[id])
      BY <1>6, <1>8 DEF Grows
    <3> QED BY <1>3, <1>4, <1>5, <1>7, <1>12, <2>1, <3>1
  <2>2. CASE q # r
    <3>1. q \in 1 .. MaxHandles
      BY <1>13, <1>14, HandleKnown
    <3> QED BY <1>10, <1>12, <1>14, <2>2, <3>1 DEF Viewed
  <2> QED BY <2>1, <2>2
<1>15. Viewed(s, view) => Viewed(t, view')
  BY <1>14 DEF Viewed
<1> QED BY <1>1, <1>2, <1>13, <1>15, StoreKept

\* Memory that is written is decoded into the value, and to be read again.
LEMMA WriteMemoryKept ==
  ASSUME NEW r \in DOMAIN handles, VariablesInv, WriteMemory(r), UNCHANGED client
  PROVE  VariablesKept
<1>1. PICK s : s = Store
  OBVIOUS
<1>2. PICK t : t = Store'
  OBVIOUS
<1>3. PICK id : id = handles[r]
  OBVIOUS
<1>4. PICK bytes \in Bytes : heap' = [heap EXCEPT ![id] = SetMemory(heap[id], bytes)]
  BY <1>3 DEF WriteMemory, Overwritten
<1>5. PICK o : o = SetMemory(heap[id], bytes)
  OBVIOUS
<1>6. /\ Held(s, variables, view) /\ s.heap = heap /\ s.handles = handles
      /\ IsStore(t) /\ t.heap = heap' /\ t.handles = handles'
  BY <1>1, <1>2 DEF VariablesInv, Store, IsStore
<1>7. /\ s.heap \in Seq(Objects) /\ StoreOK(s) /\ r \in 1 .. MaxHandles
      /\ id > 0 /\ id \in DOMAIN s.heap /\ s.heap[id] \in Objects
  <2>1. id > 0
    BY <1>3 DEF WriteMemory
  <2>2. /\ s.heap \in Seq(Objects) /\ r \in 1 .. MaxHandles
        /\ id \in DOMAIN s.heap /\ s.heap[id] \in Objects
    BY <1>3, <1>6, <2>1, HandleKnown
  <2> QED BY <1>6, <2>1, <2>2 DEF Held
<1>8. /\ Decoded[bytes] \in Strings /\ "none" \notin Bytes
  BY CodecAssumption
<1>9. /\ o \in Objects /\ Coherent(o) /\ o.name = s.heap[id].name
      /\ o.reference = s.heap[id].reference /\ o.elements = s.heap[id].elements
  <2>1. PICK p : p = s.heap[id]
    OBVIOUS
  <2>2. PICK value \in Strings : value = Decoded[bytes]
    BY <1>8
  <2>3. p \in Objects /\ value \in Values
    BY <1>7, <2>1 DEF Values
  <2>4. o = [p EXCEPT !.memory = bytes, !.value = value]
    BY <1>5, <1>6, <2>1, <2>2 DEF SetMemory
  <2>5. o \in Objects
    BY <2>3, <2>4 DEF Objects
  <2>6. /\ o.name = p.name /\ o.reference = p.reference
        /\ o.value = value /\ o.memory = bytes /\ o.elements = p.elements
    BY <2>3, <2>4 DEF Objects
  <2> QED BY <2>1, <2>2, <2>5, <2>6 DEF Coherent
<1>10. /\ t.heap = [s.heap EXCEPT ![id] = o] /\ t.handles = s.handles
       /\ view' = [view EXCEPT ![r] = "none"] /\ UNCHANGED variables
  BY <1>4, <1>5, <1>6 DEF WriteMemory
<1>11. /\ StoreOK(t) /\ DOMAIN t.heap = DOMAIN s.heap
       /\ \A j \in DOMAIN s.heap \ {id} : t.heap[j] = s.heap[j]
       /\ \A j : Proper(s, j) => Proper(t, j)
  <2>1. o.elements \in {s.heap[id].elements, << >>}
    BY <1>9
  <2> QED BY <1>6, <1>7, <1>9, <1>10, <2>1, ObjectChanges
<1>12. Fits(t)
  <2>1. Len(t.heap) = Len(s.heap)
    BY <1>7, <1>10
  <2> QED BY <1>6, <1>10, <2>1 DEF Held, Fits
<1>13. /\ view' \in [1 .. MaxHandles -> Bytes \cup {"none"}] /\ view'[r] = "none"
       /\ \A q \in 1 .. MaxHandles \ {r} : view'[q] = view[q]
  <2>1. view \in [1 .. MaxHandles -> Bytes \cup {"none"}]
    BY <1>6 DEF Held
  <2> QED BY <1>7, <1>10, <2>1
<1>14. Held(t, variables', view')
  BY <1>6, <1>10, <1>11, <1>12, <1>13 DEF Held
<1>15. ASSUME Viewed(s, view), NEW q \in DOMAIN t.handles, view'[q] # "none"
       PROVE  MemoryOf(t.heap[t.handles[q]]) \in {view'[q], "none"}
  <2>1. q # r /\ q \in DOMAIN s.handles /\ r \in DOMAIN s.handles
    BY <1>6, <1>10, <1>13, <1>15
  <2>2. q \in 1 .. MaxHandles /\ view'[q] = view[q]
    BY <1>13, <1>14, <1>15, <2>1, HandleKnown
  <2>3. s.handles[q] > 0 /\ s.handles[q] \in DOMAIN s.heap
    BY <1>6, <1>15, <2>1, <2>2, HandleKnown DEF Held
  <2>4. s.handles[q] # id
    BY <1>3, <1>6, <1>7, <2>1, <2>3 DEF StoreOK, References
  <2> QED BY <1>10, <1>11, <1>15, <2>1, <2>2, <2>3, <2>4 DEF Viewed
<1>16. Viewed(s, view) => Viewed(t, view')
  BY <1>15 DEF Viewed
<1> QED BY <1>1, <1>2, <1>14, <1>16, StoreKept

-----------------------------------------------------------------------------
\* No variables and no handles at first.
LEMMA VariablesBegin == Init => VariablesInv /\ ViewInv
<1> SUFFICES ASSUME Init PROVE VariablesInv /\ ViewInv
  OBVIOUS
<1>1. PICK s : s = Store
  OBVIOUS
<1>2. /\ s = [heap |-> << >>, handles |-> << >>] /\ variables = << >>
      /\ view = [r \in 1 .. MaxHandles |-> "none"]
  BY <1>1 DEF Init, VariablesInit, Store
<1>3. s.heap = << >> /\ s.handles = << >>
  BY <1>2
<1>4. DOMAIN << >> = {} /\ Len(<< >>) = 0 /\ << >> \in Seq(Nat) /\ << >> \in Seq(Objects)
  OBVIOUS
<1>5. << >> \in Seq(Int)
  OBVIOUS
<1>6. s \in Stores
  BY <1>2, <1>4, <1>5 DEF Stores
<1>7. StoreOK(s)
  BY <1>3, <1>4, <1>6 DEF StoreOK, References, Elements
<1>8. Fits(s)
  BY <1>3, <1>4, VariablesAssumption DEF Fits
<1>9. Held(s, variables, view)
  BY <1>2, <1>4, <1>7, <1>8 DEF Held
<1>10. Viewed(s, view)
  BY <1>3, <1>4 DEF Viewed
<1> QED BY <1>1, <1>9, <1>10 DEF VariablesInv, ViewInv

\* Everything else leaves the variables alone.
LEMMA VariablesStep == VariablesInv /\ [Next]_vars => VariablesKept
<1> SUFFICES ASSUME VariablesInv, [Next]_vars PROVE VariablesKept
  OBVIOUS
<1>1. CASE UNCHANGED <<client, variableVars>>
  <2>1. Store' = Store /\ UNCHANGED <<client, variables, view>>
    BY <1>1 DEF variableVars, Store
  <2> QED BY <2>1 DEF VariablesKept, VariablesInv, ViewInv, Does
<1>2. CASE Configures
  BY <1>1, <1>2 DEF Configures, OnlyLaunch, InitializeRequest, SetBreakPointsRequest,
       LaunchRequest, ConfigurationDoneRequest, LaunchTimeout, StartProgram, ReadDone, ReadFails
<1>3. CASE FetchGlobals \/ \E k \in DOMAIN fetches : FetchNext(k) \/ CancelFetch(k)
  BY <1>1, <1>3 DEF OnlyFetch, FetchGlobals, FetchNext, CancelFetch
<1>4. CASE ProgressSequence \/ ProgressUpdate
           \/ \E k \in DOMAIN sequences : ProgressStart(k) \/ CancelProgress(k)
  BY <1>1, <1>4 DEF OnlyProgress, ProgressSequence, ProgressUpdate, ProgressStart, CancelProgress
<1>5. CASE UNCHANGED vars
  BY <1>1, <1>5 DEF vars
<1>6. CASE Inspects
  <2>1. VariableRequests(Does("setExpression")) /\ UNCHANGED client
    BY <1>6 DEF Inspects
  <2>2. PICK s : s = Store
    OBVIOUS
  <2>3. CASE Scopes
    BY <2>1, <2>3, ScopesKept
  <2>4. CASE \E name \in Names, value \in Values \cup {"object"} : Assign(name, value)
    BY <2>1, <2>4, AssignKept
  <2>5. CASE \E name \in Names : EvaluateVariable(name)
    BY <2>1, <2>5, ShowingKept
  <2>6. CASE \E value \in Values : EvaluateValue(value)
    BY <2>1, <2>6, EvaluateValueKept
  <2>7. CASE \E r \in DOMAIN handles : VariablesRequest(r)
    BY <2>1, <2>7, ShowingKept
  <2>8. CASE \E r \in DOMAIN handles : ReadMemory(r) \/ WriteMemory(r)
    BY <2>1, <2>8, ReadMemoryKept, WriteMemoryKept
  <2>9. CASE \E r \in DOMAIN handles : \E id \in DOMAIN heap, value \in Values :
               SetVariable(r, heap[id].name, value)
    <3>1. PICK r \in DOMAIN handles :
            \E id \in DOMAIN heap, value \in Values : SetVariable(r, heap[id].name, value)
      BY <2>9
    <3>2. PICK jd \in DOMAIN heap, value \in Values : SetVariable(r, heap[jd].name, value)
      BY <3>1
    <3>3. PICK id \in Named(Contents(r), heap[jd].name) : Sets(id, value) /\ MemoryEvent(id)
      BY <3>2 DEF SetVariable
    <3>4. Proper(s, id)
      BY <2>2, <3>3, ContentsProper
    <3> QED BY <2>1, <2>2, <3>3, <3>4, SetKept
  <2>10. CASE Does("setExpression") /\ \E name \in Names, value \in Values : SetExpression(name, value)
    <3>1. PICK name \in Names, value \in Values : SetExpression(name, value)
      BY <2>10
    <3>2. PICK id \in Named(variables, name) : Sets(id, value) /\ UNCHANGED view
      BY <3>1 DEF SetExpression
    <3>3. Proper(s, id)
      <4>1. Held(s, variables, view)
        BY <2>2 DEF VariablesInv
      <4> QED BY <3>2, <4>1 DEF Held, Named, Range
    <3> QED BY <2>1, <2>2, <2>10, <3>2, <3>3, SetKept
  <2> QED BY <2>1, <2>3, <2>4, <2>5, <2>6, <2>7, <2>8, <2>9, <2>10 DEF VariableRequests
<1> QED BY <1>2, <1>3, <1>4, <1>5, <1>6 DEF Next, Waiting

\* What the invariant says of the variables.
LEMMA VariablesHold == VariablesInv => MemoryCoherent /\ ReferencesOwned /\ VariablesTypeOK
<1> SUFFICES ASSUME VariablesInv PROVE MemoryCoherent /\ ReferencesOwned /\ VariablesTypeOK
  OBVIOUS
<1>1. PICK s : s = Store
  OBVIOUS
<1>2. /\ Held(s, variables, view) /\ s.heap = heap /\ s.handles = handles
  BY <1>1 DEF VariablesInv, Store
<1>3. StoreOK(s) /\ References(s) /\ Elements(s)
  BY <1>2 DEF Held, StoreOK
<1>4. MemoryCoherent
  BY <1>2, <1>3 DEF StoreOK, Coherent, MemoryCoherent
<1>5. ReferencesOwned
  <2>1. ASSUME NEW r \in DOMAIN handles, handles[r] > 0
        PROVE  /\ \E id \in DOMAIN heap :
                    Owners(r) = {id} /\ (heap[id].name \in LazyNames <=> id # handles[r])
               /\ \A q \in DOMAIN handles : q # r => handles[q] # handles[r]
    <3>1. PICK id \in DOMAIN heap : heap[id].reference = r
      BY <1>2, <1>3, <2>1 DEF References
    <3>2. r # 0
      BY <1>2, <2>1, HandleKnown
    <3>3. Owners(r) = {id}
      BY <1>2, <1>3, <3>1, <3>2 DEF References, Owners
    <3>4. heap[id].name \in LazyNames <=> id # handles[r]
      BY <1>2, <1>3, <3>1, <3>2 DEF References, Refers
    <3>5. \A q \in DOMAIN handles : q # r => handles[q] # handles[r]
      BY <1>2, <1>3, <2>1 DEF References
    <3> QED BY <3>3, <3>4, <3>5
  <2> QED BY <2>1 DEF ReferencesOwned
<1>6. VariablesTypeOK
  <2>1. /\ heap \in Seq(Objects) /\ handles \in Seq(Int) /\ Len(heap) \in Nat
        /\ Len(heap) <= MaxObjects /\ Len(handles) <= MaxHandles /\ Len(handles) \in Nat
        /\ MaxObjects \in Nat /\ MaxHandles \in Nat
    BY <1>2, HandleKnown, VariablesAssumption
  <2>2. \A j : Proper(s, j) => j \in 1 .. MaxObjects
    BY <1>2, <2>1 DEF Proper
  <2>3. ASSUME NEW id \in DOMAIN heap PROVE heap[id] \in Element
    <3>1. PICK o : o = heap[id]
      OBVIOUS
    <3>2. o \in Objects
      BY <2>1, <3>1
    <3>3. \A k \in DOMAIN o.elements : o.elements[k] \in 1 .. MaxObjects
      BY <1>2, <1>3, <2>2, <3>1 DEF Elements
    <3>4. o.elements \in Seq(1 .. MaxObjects)
      <4>1. o.elements \in Seq(Nat)
        BY <3>2 DEF Objects
      <4> QED BY <3>3, <4>1, Narrowed
    <3>5. o.reference \in 0 .. MaxHandles
      <4>1. o.reference \in Nat
        BY <3>2 DEF Objects
      <4>2. o.reference # 0 => o.reference \in DOMAIN handles
        BY <1>2, <1>3, <3>1 DEF References, Refers
      <4> QED BY <2>1, <4>1, <4>2
    <3> QED BY <3>1, <3>2, <3>4, <3>5 DEF Objects, Element
  <2>4. heap \in Seq(Element)
    BY <2>1, <2>3
  <2>5. handles \in Seq(-1 .. MaxObjects)
    <3>1. \A r \in DOMAIN handles : handles[r] \in -1 .. MaxObjects
      BY <1>2, <1>3, <2>1 DEF StoreOK
    <3> QED BY <2>1, <3>1
  <2>6. variables \in Seq(1 .. MaxObjects)
    <3>1. variables \in Seq(Nat) /\ \A k \in DOMAIN variables : variables[k] \in 1 .. MaxObjects
      BY <1>2, <2>2 DEF Held
    <3> QED BY <3>1, Narrowed
  <2>7. view \in [1 .. MaxHandles -> Bytes \cup {"none"}]
    BY <1>2 DEF Held
  <2> QED BY <2>4, <2>5, <2>6, <2>7 DEF VariablesTypeOK
<1> QED BY <1>4, <1>5, <1>6

(***************************************************************************)
(* For any values, encodings and requests, however many: the bytes that a  *)
(* RuntimeVariable keeps decode to the value it has.                       *)
(***************************************************************************)
THEOREM MemoryIsTheValues == Spec => []MemoryCoherent
<1>1. VariablesInv /\ [Next]_vars => VariablesInv'
  BY VariablesStep DEF VariablesKept
<1>2. VariablesInv => MemoryCoherent
  BY VariablesHold
<1> QED BY <1>1, <1>2, VariablesBegin, PTL DEF Spec

(***************************************************************************)
(* For any variables and requests, convertFromRuntime gives a variable one *)
(* reference and a reference to one variable.                              *)
(***************************************************************************)
THEOREM ReferencesMeanOne == Spec => []ReferencesOwned
<1>1. VariablesInv /\ [Next]_vars => VariablesInv'
  BY VariablesStep DEF VariablesKept
<1>2. VariablesInv => ReferencesOwned
  BY VariablesHold
<1> QED BY <1>1, <1>2, VariablesBegin, PTL DEF Spec

(***************************************************************************)
(* For any requests of a client that does not assign to expressions, the   *)
(* MemoryEvents of setVariableRequest suffice for the client to show the   *)
(* memory there is.                                                        *)
(***************************************************************************)
THEOREM ViewStaysCurrent == Spec => []ViewCurrent
<1>1. VariablesInv /\ ViewInv /\ [Next]_vars => VariablesInv' /\ ViewInv'
  BY VariablesStep DEF VariablesKept
<1>2. VariablesInv /\ ViewInv => ViewCurrent
  <2> SUFFICES ASSUME VariablesInv, ViewInv PROVE ViewCurrent
    OBVIOUS
  <2>1. PICK s : s = Store
    OBVIOUS
  <2>2. s.heap = heap /\ s.handles = handles
    BY <2>1 DEF Store
  <2>3. Does("setExpression") \/ Viewed(s, view)
    BY <2>1 DEF ViewInv
  <2> QED BY <2>2, <2>3 DEF ViewCurrent, Viewed
<1> QED BY <1>1, <1>2, VariablesBegin, PTL DEF Spec

-----------------------------------------------------------------------------
(***************************************************************************)
(* The types of the other fields.  A sequence counts its updates: it has   *)
(* had none when it starts and never all of them while it runs.            *)
(***************************************************************************)
Counted(k) ==
  LET s == sequences[k]
  IN  /\ s.updates \in 0 .. Updates
      /\ s.state = "starting" => s.updates = 0
      /\ s.state = "running" => s.updates # Updates

CountInv == \A k \in DOMAIN sequences : Counted(k)

FieldsInv ==
  /\ client \in Clients
  /\ sourceFile \in Files \cup {"none"} /\ loaded \in Files \cup {"none"}
  /\ configuration \in {"none", "requested", "done"}
  /\ launch \in {"none", "waiting", "ready", "reading",
                 "answered", "compileError", "rejected"}
  /\ mishaps \subseteq {"timeout", "launch", "breakpoints"}
  /\ tokens \subseteq DOMAIN fetches

\* An update is counted before the sequence is found to be complete.
LEMMA CountStep == ProgressInv /\ CountInv /\ [Next]_vars => CountInv'
<1> SUFFICES ASSUME ProgressInv, CountInv, [Next]_vars PROVE CountInv'
  OBVIOUS
<1>1. sequences \in Seq(State) /\ Updates \in Nat \ {0}
  BY SessionAssumption DEF ProgressInv
<1>2. CASE UNCHANGED sequences
  BY <1>2 DEF CountInv, Counted
<1>3. ASSUME NEW k \in DOMAIN sequences, NEW s \in State, Counted(k)' ,
             sequences' = [sequences EXCEPT ![k] = s]
      PROVE  CountInv'
  BY <1>1, <1>3 DEF CountInv, Counted
<1>4. CASE ProgressSequence
  <2> DEFINE new == [state |-> "starting", cancellable |-> FALSE, updates |-> 0, asked |-> FALSE]
  <2>1. sequences' = Append(sequences, new)
    BY <1>4 DEF ProgressSequence
  <2>2. ASSUME NEW k \in DOMAIN sequences'
        PROVE  sequences'[k] = new \/ (k \in DOMAIN sequences /\ sequences'[k] = sequences[k])
    BY <1>1, <2>1
  <2>3. ASSUME NEW k \in DOMAIN sequences', sequences'[k] = new
        PROVE  Counted(k)'
    BY <1>1, <2>3 DEF Counted
  <2> QED BY <2>2, <2>3 DEF CountInv, Counted
<1>5. ASSUME NEW k \in DOMAIN sequences, ProgressStart(k)
      PROVE  CountInv'
  <2>1. PICK f \in State : f = sequences[k]
    BY <1>1
  <2>2. PICK s : s = [f EXCEPT !.state = "running", !.cancellable = cancellable]
    OBVIOUS
  <2>3. s \in State /\ s.state = "running" /\ s.updates = f.updates
    BY <2>2 DEF State, ProgressInv
  <2>4. f.state = "starting" /\ sequences' = [sequences EXCEPT ![k] = s]
    BY <1>5, <2>1, <2>2 DEF ProgressStart
  <2>5. sequences'[k] = s
    BY <1>1, <2>4
  <2>6. f.updates = 0
    BY <2>1, <2>4 DEF CountInv, Counted
  <2>7. Counted(k)'
    BY <1>1, <2>3, <2>5, <2>6 DEF Counted
  <2> QED BY <1>3, <2>3, <2>4, <2>7
<1>6. ASSUME NEW k \in DOMAIN sequences, CancelProgress(k)
      PROVE  CountInv'
  <2>1. PICK f \in State : f = sequences[k]
    BY <1>1
  <2>2. PICK s : s = [f EXCEPT !.asked = @ \/ f.state = "running"]
    OBVIOUS
  <2>3. s \in State /\ s.state = f.state /\ s.updates = f.updates
    <3>1. PICK asked \in BOOLEAN : asked = (f.asked \/ f.state = "running")
      OBVIOUS
    <3>2. s = [f EXCEPT !.asked = asked]
      BY <2>2, <3>1
    <3> QED BY <3>2 DEF State
  <2>4. sequences' = [sequences EXCEPT ![k] = s]
    BY <1>6, <2>1, <2>2 DEF CancelProgress
  <2>5. sequences'[k] = s
    BY <1>1, <2>4
  <2>6. Counted(k)'
    BY <2>1, <2>3, <2>5 DEF CountInv, Counted
  <2> QED BY <1>3, <2>3, <2>4, <2>6
<1>7. CASE ProgressUpdate
  <2>1. PICK k : k = Head(timers)
    OBVIOUS
  <2>2. k \in DOMAIN sequences /\ sequences[k].state = "running"
    BY <1>7, <2>1 DEF ProgressInv, TimersRun, ProgressUpdate
  <2>3. PICK f \in State : f = sequences[k]
    BY <1>1, <2>2
  <2>4. PICK next : next = IF Cancelled(k) THEN "cancelled"
                           ELSE IF Complete(k) THEN "ended" ELSE "running"
    OBVIOUS
  <2>5. PICK s : s = [f EXCEPT !.state = next, !.updates = f.updates + 1]
    OBVIOUS
  <2>6. f.updates \in 0 .. Updates /\ f.updates # Updates
    BY <2>2, <2>3 DEF CountInv, Counted
  <2>7. s \in State /\ s.state = next /\ s.updates = f.updates + 1
    <3>1. next \in {"cancelled", "ended", "running"} /\ f.updates + 1 \in Int
      BY <2>4, <2>6
    <3>2. PICK u \in Int : u = f.updates + 1
      BY <3>1
    <3>3. s = [f EXCEPT !.state = next, !.updates = u]
      BY <2>5, <3>2
    <3> QED BY <3>1, <3>2, <3>3 DEF State
  <2>8. sequences' = [sequences EXCEPT ![k] = s]
    BY <1>7, <2>1, <2>3, <2>4, <2>5 DEF ProgressUpdate
  <2>9. sequences'[k] = s
    BY <1>1, <2>2, <2>8
  <2>10. next = "running" => f.updates + 1 # Updates
    BY <2>3, <2>4 DEF Complete
  <2>11. f.updates + 1 \in 0 .. Updates
    BY <1>1, <2>6
  <2>12. next # "starting"
    BY <2>4
  <2>13. Counted(k)'
    BY <2>7, <2>9, <2>10, <2>11, <2>12 DEF Counted
  <2> QED BY <1>3, <2>2, <2>7, <2>8, <2>13
<1>8. CASE Configures
  BY <1>2, <1>8 DEF Configures, OnlyLaunch, progressVars, InitializeRequest, SetBreakPointsRequest,
       LaunchRequest, ConfigurationDoneRequest, LaunchTimeout, StartProgram, ReadDone, ReadFails
<1>9. CASE FetchGlobals \/ \E k \in DOMAIN fetches : FetchNext(k) \/ CancelFetch(k)
  BY <1>2, <1>9 DEF OnlyFetch, progressVars, FetchGlobals, FetchNext, CancelFetch
<1>10. CASE Inspects \/ UNCHANGED vars
  BY <1>2, <1>10 DEF Inspects, vars, progressVars
<1> QED BY <1>4, <1>5, <1>6, <1>7, <1>8, <1>9, <1>10 DEF Next, Waiting

\* The launch, the current file and the tokens have the values they may have.
LEMMA FieldsStep == FieldsInv /\ LaunchInv /\ FetchInv /\ [Next]_vars => FieldsInv'
<1> SUFFICES ASSUME FieldsInv, LaunchInv, FetchInv, [Next]_vars PROVE FieldsInv'
  OBVIOUS
<1>1. reads \in Seq(Reads) /\ fetches \in Seq(Fetch)
  BY DEF LaunchInv, FetchInv
<1>2. CASE UNCHANGED <<client, sourceVars, launchVars, fetchVars>>
  BY <1>2 DEF sourceVars, launchVars, fetchVars, FieldsInv
<1>3. CASE InitializeRequest
  BY <1>3 DEF InitializeRequest, OnlyLaunch, sourceVars, fetchVars, FieldsInv
<1>4. CASE \E file \in Files : SetBreakPointsRequest(file)
  BY <1>4 DEF SetBreakPointsRequest, LoadSource, OnlyLaunch, launchVars, fetchVars, FieldsInv
<1>5. CASE LaunchRequest \/ ConfigurationDoneRequest \/ LaunchTimeout
  BY <1>5 DEF LaunchRequest, LaunchWaits, ConfigurationDoneRequest, LaunchTimeout, OnlyLaunch,
       sourceVars, fetchVars, FieldsInv
<1>6. \A lines \in BOOLEAN : Ended(lines) \in {"rejected", "compileError", "answered"}
  BY DEF Ended
<1>7. CASE StartProgram
  <2>1. /\ launch' \in {"rejected", "compileError", "answered", "reading"}
        /\ sourceFile' \in {sourceFile, Program} /\ loaded' = loaded
    BY <1>6, <1>7 DEF StartProgram, LoadSource, sourceVars
  <2> QED BY <1>7, <2>1, SessionAssumption DEF StartProgram, OnlyLaunch, fetchVars, FieldsInv
<1>8. ASSUME NEW i \in DOMAIN reads
      PROVE  reads[i].file \in Files /\ reads[i].waiter \in {"launch", "breakpoints"}
  <2>1. reads[i] \in Reads
    BY <1>1
  <2> QED BY <2>1 DEF Reads
<1>9. ASSUME NEW i \in DOMAIN reads, ReadDone(i)
      PROVE  FieldsInv'
  BY <1>6, <1>8, <1>9 DEF ReadDone, InitializeContents, OnlyLaunch, fetchVars, FieldsInv
<1>10. ASSUME NEW i \in DOMAIN reads, ReadFails(i)
       PROVE  FieldsInv'
  BY <1>8, <1>10 DEF ReadFails, ReadRejected, OnlyLaunch, fetchVars, FieldsInv
<1>11. CASE FetchGlobals
  <2> DEFINE new == [count |-> 1, limit |-> Globals, state |-> "pending"]
  <2>1. fetches' = Append(fetches, new) /\ tokens' \subseteq tokens
    BY <1>11 DEF FetchGlobals
  <2>2. DOMAIN fetches \subseteq DOMAIN fetches'
    BY <1>1, <2>1
  <2> QED BY <1>11, <2>1, <2>2 DEF FetchGlobals, OnlyFetch, sourceVars, launchVars, FieldsInv
<1>12. ASSUME NEW k \in DOMAIN fetches, FetchNext(k) \/ CancelFetch(k)
       PROVE  FieldsInv'
  <2>1. DOMAIN fetches' = DOMAIN fetches /\ tokens' \subseteq tokens \cup {k}
    BY <1>12 DEF FetchNext, CancelFetch
  <2> QED BY <1>12, <2>1 DEF FetchNext, CancelFetch, OnlyFetch, sourceVars, launchVars, FieldsInv
<1>13. CASE \/ ProgressSequence \/ ProgressUpdate
            \/ \E k \in DOMAIN sequences : ProgressStart(k) \/ CancelProgress(k)
  BY <1>2, <1>13 DEF ProgressSequence, ProgressUpdate, ProgressStart, CancelProgress, OnlyProgress
<1>14. CASE Inspects \/ UNCHANGED vars
  BY <1>2, <1>14 DEF Inspects, vars
<1> QED BY <1>3, <1>4, <1>5, <1>7, <1>9, <1>10, <1>11, <1>12, <1>13, <1>14
    DEF Next, Configures, Waiting

(***************************************************************************)
(* For any values of the constants, the fields of the session, its source, *)
(* its variables and its timers have the types they are declared with.     *)
(***************************************************************************)
THEOREM SessionTypesHold == Spec => []TypeOK
<1>1. Init => FieldsInv /\ LaunchInv /\ FetchInv /\ ProgressInv /\ CountInv
  <2> SUFFICES ASSUME Init PROVE FieldsInv /\ LaunchInv /\ FetchInv /\ ProgressInv /\ CountInv
    OBVIOUS
  <2>1. FieldsInv
    BY DEF Init, SourceInit, FieldsInv
  <2>2. LaunchInv
    BY DEF Init, SourceInit, LaunchInv
  <2>3. FetchInv
    BY DEF Init, FetchInv, FetchHonest
  <2>4. ProgressInv
    BY DEF Init, ProgressInv, TimersRun
  <2>5. CountInv
    BY DEF Init, CountInv
  <2> QED BY <2>1, <2>2, <2>3, <2>4, <2>5
<1>2. VariablesInv /\ [Next]_vars => VariablesInv'
  BY VariablesStep DEF VariablesKept
<1>3. FieldsInv /\ LaunchInv /\ FetchInv /\ ProgressInv /\ CountInv /\ VariablesInv => TypeOK
  <2> SUFFICES ASSUME FieldsInv, LaunchInv, FetchInv, ProgressInv, CountInv, VariablesInv
               PROVE  TypeOK
    OBVIOUS
  <2>1. sequences \in Seq(Sequence)
    <3>1. sequences \in Seq(State)
      BY DEF ProgressInv
    <3>2. ASSUME NEW k \in DOMAIN sequences PROVE sequences[k] \in Sequence
      <4>1. PICK f \in State : f = sequences[k]
        BY <3>1
      <4>2. f.updates \in 0 .. Updates
        BY <4>1 DEF CountInv, Counted
      <4>3. f \in Sequence
        BY <4>2 DEF State, Sequence
      <4> QED BY <4>1, <4>3
    <3> QED BY <3>1, <3>2
  <2>2. cancelled \in {0} \cup DOMAIN sequences
    <3>1. Len(sequences) \in Nat /\ DOMAIN sequences = 1 .. Len(sequences)
      BY <2>1
    <3> QED BY <3>1 DEF ProgressInv
  <2>3. timers \in Seq(DOMAIN sequences) /\ cancellable \in BOOLEAN
    BY DEF ProgressInv, TimersRun
  <2>4. reads \in Seq([file : Files, waiter : {"launch", "breakpoints"}])
    BY DEF LaunchInv, Reads
  <2>5. fetches \in Seq(Fetch)
    BY DEF FetchInv
  <2>6. VariablesTypeOK
    BY VariablesHold
  <2> QED BY <2>1, <2>2, <2>3, <2>4, <2>5, <2>6 DEF FieldsInv, TypeOK
<1> QED BY <1>1, <1>2, <1>3, FieldsStep, LaunchStep, FetchStep, ProgressStep, CountStep,
    VariablesBegin, PTL DEF Spec

=============================================================================

-------------------------- MODULE MockDebugSession --------------------------
(***************************************************************************)
(* src/mockDebug.ts: the mock debug session where it waits: the launch     *)
(* waits for the configuration and for a file, a breakpoints request for a *)
(* file, the global variables and the progress for timers, and a cancel    *)
(* request may meet each of them anywhere.  MockRuntime has the requests   *)
(* that run the program.                                                   *)
(*                                                                         *)
(* JavaScript runs one callback at a time: an action is what happens up to *)
(* the next await.                                                         *)
(***************************************************************************)
EXTENDS MockSource, MockVariables, FiniteSetsExt

CONSTANTS
  Program,      \* the file that is launched
  Clients,      \* the sets of things a client does
  Globals,      \* the number of global variables, 10
  Updates,      \* the updates of a progress sequence, 100
  MaxFetches, MaxProgress   \* bounds: requests for the globals, sequences

\* What a client does.  A hasty one does not wait for answers before it sets
\* more breakpoints or finishes the configuration.
Features == {"launch", "hasty", "stopOnEntry", "compileError",
             "globals", "progress", "variables", "setExpression"}

ASSUME SessionAssumption ==
  /\ Program \in Files /\ MaxReads \in Nat \ {0}
  /\ Clients \subseteq SUBSET Features
  /\ Globals \in Nat \ {0} /\ Updates \in Nat \ {0}
  /\ MaxFetches \in Nat /\ MaxProgress \in Nat

VARIABLES
  client,          \* the features of this client
  configuration,   \* "none", then "requested" by the InitializedEvent, then "done"
  launch,          \* the launch request: "none", where it waits, how it ended
  mishaps,         \* "timeout", and the waiters of reads that have failed
  fetches,         \* the requests for the globals; a request is named by its place
  tokens,          \* _cancellationTokens, those that are true
  sequences,       \* the progress sequences; the place stands for the ID
  timers,          \* the sequences waiting for their next update, in order
  cancelled,       \* _cancelledProgressId, 0 for undefined
  cancellable      \* _isProgressCancellable

sourceVars == <<sourceFile, loaded, reads>>
launchVars == <<configuration, launch, mishaps>>
fetchVars == <<fetches, tokens>>
progressVars == <<sequences, timers, cancelled, cancellable>>
vars == <<client, sourceVars, launchVars, fetchVars, progressVars, variableVars>>

Init ==
  /\ SourceInit /\ VariablesInit
  /\ client \in Clients
  /\ configuration = "none" /\ launch = "none" /\ mishaps = {}
  /\ fetches = << >> /\ tokens = {}
  /\ sequences = << >> /\ timers = << >> /\ cancelled = 0 /\ cancellable = TRUE

Does(feature) == feature \in client

-----------------------------------------------------------------------------
(***************************************************************************)
(* Configuration and launch.                                               *)
(***************************************************************************)
OnlyLaunch == UNCHANGED <<client, fetchVars, progressVars, variableVars>>

InitializeRequest ==
  /\ Does("launch") /\ configuration = "none"
  /\ configuration' = "requested"
  /\ OnlyLaunch /\ UNCHANGED <<launch, mishaps, sourceVars>>

\* The answers a client that is not hasty waits for.  The launch is one of them
\* when the configuration is done; a failed read leaves a request without answer.
Unanswered == \E i \in DOMAIN reads : reads[i].waiter = "breakpoints"
Launching == launch \in {"waiting", "ready", "reading"}
Waits ==
  /\ ~Does("hasty")
  /\ Unanswered \/ "breakpoints" \in mishaps \/ (configuration = "done" /\ Launching)

\* With breakpoints in another file than the current one; other requests are
\* answered at once.
SetBreakPointsRequest(file) ==
  /\ configuration # "none" /\ ~Waits
  /\ Len(reads) + 1 < MaxReads
  /\ LoadSource(reads, file, "breakpoints")
  /\ OnlyLaunch /\ UNCHANGED <<launchVars, loaded>>

LaunchAtOnce == "ready"                                               \* fault
LaunchWaits == "waiting"
LaunchRequest ==
  /\ configuration # "none" /\ launch = "none"
  /\ launch' = LaunchWaits
  /\ OnlyLaunch /\ UNCHANGED <<configuration, mishaps, sourceVars>>

\* The notification wakes a launch that waits for it, and is lost otherwise.
ConfigurationDoneRequest ==
  /\ configuration = "requested" /\ ~Waits
  /\ configuration' = "done"
  /\ launch' = IF launch = "waiting" THEN "ready" ELSE launch
  /\ OnlyLaunch /\ UNCHANGED <<mishaps, sourceVars>>

NoTimeout == FALSE                                                    \* fault
Timeout == launch = "waiting"
LaunchTimeout ==
  /\ Timeout
  /\ launch' = "ready" /\ mishaps' = mishaps \cup {"timeout"}
  /\ OnlyLaunch /\ UNCHANGED <<configuration, sourceVars>>

\* How a launch ends whose file has been loaded, or is taken to be: without lines
\* it throws, unless it only looks for a line to stop at.
Ended(lines) ==
  CASE ~lines /\ ~Does("stopOnEntry") -> "rejected"
    [] (lines \/ Does("stopOnEntry")) /\ Does("compileError") -> "compileError"
    [] OTHER -> "answered"

StartProgram ==
  /\ launch = "ready"
  /\ \/ /\ IsCurrent(Program)
        /\ launch' = Ended(loaded # "none")
        /\ UNCHANGED sourceVars
     \/ /\ LoadSource(reads, Program, "launch")
        /\ launch' = "reading"
        /\ UNCHANGED loaded
  /\ OnlyLaunch /\ UNCHANGED <<configuration, mishaps>>

ReadDone(i) ==
  /\ InitializeContents(i)
  /\ launch' = IF reads[i].waiter = "launch" THEN Ended(TRUE) ELSE launch
  /\ OnlyLaunch /\ UNCHANGED <<configuration, mishaps>>

ReadFails(i) ==
  /\ ReadRejected(i)
  /\ launch' = IF reads[i].waiter = "launch" THEN "rejected" ELSE launch
  /\ mishaps' = mishaps \cup {reads[i].waiter}
  /\ OnlyLaunch /\ UNCHANGED configuration

-----------------------------------------------------------------------------
(***************************************************************************)
(* The global variables: getGlobalVariables makes one a second and looks   *)
(* at the token of its request after each.                                 *)
(***************************************************************************)
OnlyFetch == UNCHANGED <<client, sourceVars, launchVars, progressVars, variableVars>>

\* limit: the variables there were when the client cancelled the request.
FetchGlobals ==
  /\ Does("globals") /\ Len(fetches) < MaxFetches
  /\ fetches' = Append(fetches, [count |-> 1, limit |-> Globals, state |-> "pending"])
  /\ tokens' = tokens \ {Len(fetches) + 1}
  /\ OnlyFetch

TokenOfAny(k) == tokens # {}                                          \* fault
Token(k) == k \in tokens

FetchNext(k) ==
  /\ fetches[k].state = "pending"
  /\ LET all == fetches[k].count = Globals
         ends == all \/ Token(k)
     IN  /\ fetches' = [fetches EXCEPT ![k].count = IF all THEN @ ELSE @ + 1,
                                       ![k].state = IF ends THEN "answered" ELSE @]
         /\ tokens' = IF ends THEN tokens \ {k} ELSE tokens
  /\ OnlyFetch

\* cancelRequest, which is not answered itself and may come too late.
CancelFetch(k) ==
  /\ tokens' = tokens \cup {k}
  /\ fetches' = IF fetches[k].state = "pending"
                THEN [fetches EXCEPT ![k].limit = Min({@, fetches[k].count})] ELSE fetches
  /\ OnlyFetch

-----------------------------------------------------------------------------
(***************************************************************************)
(* Progress: the timers of all sequences are equally long, so they end in  *)
(* the order in which they were set.                                       *)
(***************************************************************************)
OnlyProgress == UNCHANGED <<client, sourceVars, launchVars, fetchVars, variableVars>>

\* evaluateRequest, "progress".
ProgressSequence ==
  /\ Does("progress") /\ Len(sequences) < MaxProgress
  /\ sequences' = Append(sequences, [state |-> "starting", cancellable |-> FALSE,
                                     updates |-> 0, asked |-> FALSE])
  /\ OnlyProgress /\ UNCHANGED <<timers, cancelled, cancellable>>

ProgressStart(k) ==
  /\ sequences[k].state = "starting" /\ \A j \in 1 .. k - 1 : sequences[j].state # "starting"
  /\ sequences' = [sequences EXCEPT ![k].state = "running", ![k].cancellable = cancellable]
  /\ cancellable' = ~cancellable
  /\ timers' = Append(timers, k)
  /\ OnlyProgress /\ UNCHANGED cancelled

CancelledAny(k) == cancelled # 0                                      \* fault
Cancelled(k) == cancelled = k

CompleteLate(k) == sequences[k].updates = Updates                     \* fault
Complete(k) == sequences[k].updates + 1 = Updates

\* The next update; with it a sequence ends that is cancelled or complete, and
\* clears the one slot there is.
ProgressUpdate ==
  /\ timers # << >>
  /\ LET k == Head(timers)
         next == IF Cancelled(k) THEN "cancelled"
                 ELSE IF Complete(k) THEN "ended" ELSE "running"
     IN  /\ sequences' = [sequences EXCEPT ![k].state = next, ![k].updates = @ + 1]
         /\ timers' = IF next = "running" THEN Append(Tail(timers), k) ELSE Tail(timers)
         /\ cancelled' = IF next = "running" THEN cancelled ELSE 0
  /\ OnlyProgress /\ UNCHANGED cancellable

\* cancelRequest, for an operation that was announced as cancellable.
CancelProgress(k) ==
  /\ sequences[k].cancellable
  /\ cancelled' = k
  /\ sequences' = [sequences EXCEPT ![k].asked = @ \/ sequences[k].state = "running"]
  /\ OnlyProgress /\ UNCHANGED <<timers, cancellable>>

-----------------------------------------------------------------------------
Configures ==
  \/ InitializeRequest
  \/ \E file \in Files : SetBreakPointsRequest(file)
  \/ LaunchRequest \/ ConfigurationDoneRequest \/ LaunchTimeout \/ StartProgram
  \/ \E i \in DOMAIN reads : ReadDone(i) \/ ReadFails(i)

Waiting ==
  \/ FetchGlobals
  \/ \E k \in DOMAIN fetches : FetchNext(k) \/ CancelFetch(k)
  \/ ProgressSequence \/ ProgressUpdate
  \/ \E k \in DOMAIN sequences : ProgressStart(k) \/ CancelProgress(k)

Inspects ==
  /\ Does("variables") /\ VariableRequests(Does("setExpression"))
  /\ UNCHANGED <<client, sourceVars, launchVars, fetchVars, progressVars>>

Next == Configures \/ Waiting \/ Inspects

Spec == Init /\ [][Next]_vars

\* Timers go off, and the read of the launched file is answered or fails.
LaunchRead ==
  \E i \in DOMAIN reads : reads[i].waiter = "launch" /\ (ReadDone(i) \/ ReadFails(i))

Fairness == WF_vars(LaunchTimeout) /\ WF_vars(StartProgram) /\ WF_vars(LaunchRead)

FairSpec == Spec /\ Fairness

-----------------------------------------------------------------------------
Fetch == [count : 1 .. Globals, limit : 1 .. Globals, state : {"pending", "answered"}]
Sequence == [state : {"starting", "running", "ended", "cancelled"}, cancellable : BOOLEAN,
             updates : 0 .. Updates, asked : BOOLEAN]

\* The types of the session's fields.
TypeOK ==
  /\ client \in Clients
  /\ sourceFile \in Files \cup {"none"} /\ loaded \in Files \cup {"none"}
  /\ reads \in Seq([file : Files, waiter : {"launch", "breakpoints"}])
  /\ configuration \in {"none", "requested", "done"}
  /\ launch \in {"none", "waiting", "ready", "reading",
                 "answered", "compileError", "rejected"}
  /\ mishaps \subseteq {"timeout", "launch", "breakpoints"}
  /\ fetches \in Seq(Fetch) /\ tokens \subseteq DOMAIN fetches
  /\ sequences \in Seq(Sequence) /\ timers \in Seq(DOMAIN sequences)
  /\ cancelled \in {0} \cup DOMAIN sequences /\ cancellable \in BOOLEAN
  /\ VariablesTypeOK

(***************************************************************************)
(* The lines that the program runs are those of the file that is recorded  *)
(* as the current one, whenever no file is being read: for a client that   *)
(* waits for its answers and is not overtaken by the timeout, as long as   *)
(* no read fails.  What orders the reads of the configuration and of the   *)
(* launch is that the launch waits for configurationDone.                  *)
(***************************************************************************)
LinesOfSourceFile ==
  ~Does("hasty") /\ mishaps = {} /\ reads = << >> => loaded = sourceFile

(***************************************************************************)
(* Every launch ends, although the notification that it waits for is lost  *)
(* when it comes before the request.                                       *)
(***************************************************************************)
LaunchSettles == Launching ~> launch \in {"answered", "compileError", "rejected"}

(***************************************************************************)
(* A request for the globals that is not cancelled gets all of them, and a *)
(* cancelled one at most one more than there were then, whatever is asked  *)
(* and cancelled besides, in time or too late.                             *)
(***************************************************************************)
FetchHonest ==
  \A k \in DOMAIN fetches :
    LET fetch == fetches[k]
    IN  /\ fetch.state = "answered" => fetch.count = Min({fetch.limit + 1, Globals})
        /\ fetch.state = "pending" => fetch.count <= fetch.limit

(***************************************************************************)
(* A sequence says that it was cancelled only if the client cancelled it   *)
(* while it ran, and one that was not announced as cancellable never does. *)
(***************************************************************************)
ProgressHonest ==
  \A k \in DOMAIN sequences :
    sequences[k].state = "cancelled" => sequences[k].asked /\ sequences[k].cancellable

(***************************************************************************)
(* The memory that the client shows for a reference is that of the object  *)
(* behind it, as long as the object has memory and the client does not     *)
(* assign to expressions, which sends no MemoryEvent.                      *)
(***************************************************************************)
ViewCurrent ==
  ~Does("setExpression") =>
    \A r \in DOMAIN handles :
      view[r] # "none" => MemoryOf(heap[handles[r]]) \in {view[r], "none"}
=============================================================================

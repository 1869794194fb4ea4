----------------------------- MODULE DapSession -----------------------------
(***************************************************************************)
(* src/server/session.go: the session of one client.  StartSession reads   *)
(* requests and starts a goroutine for each; the goroutines hand their     *)
(* responses and events over an unbuffered channel to the one goroutine    *)
(* that writes them to the client.  At the end of the input StartSession   *)
(* waits for the request goroutines, closes the channel and returns, and   *)
(* main with it.                                                           *)
(*                                                                         *)
(* What a goroutine still has to do is a sequence of steps.  This module   *)
(* has the step that belongs to the session, sending a message;            *)
(* MonkeyHandler has the others.                                           *)
(***************************************************************************)
EXTENDS Integers, Sequences, FiniteSets

CONSTANT MaxRequests   \* bound: the requests a client sends

ASSUME SessionAssumption == MaxRequests \in Nat

Requests == 1 .. MaxRequests
Runner == 0            \* the goroutine that OnLaunchRequest leaves behind
Goroutines == {Runner} \cup Requests

Events == {"initialized", "thread", "stopped", "exception", "terminated", "nil"}
Messages == {"response"} \cup Events

VARIABLES
  requests,    \* the requests read
  active,      \* the goroutines started and not finished
  todo,        \* todo[g]: the steps goroutine g has left
  sendWg,      \* the counter of the wait group
  stopDebug,   \* the channels, "open" or "closed"
  sendQueue,
  outgoing,    \* the message sendFromQueue has received and not yet written
  wire,        \* the messages written to the client
  reader,      \* where StartSession is
  panic        \* why the process died, "none" while it is alive

sessionVars == <<requests, active, todo, sendWg, stopDebug, sendQueue, outgoing, wire,
                 reader, panic>>

SessionInit ==
  /\ requests = << >>
  /\ active = {}
  /\ todo = [g \in Goroutines |-> << >>]
  /\ sendWg = 0
  /\ stopDebug = "open" /\ sendQueue = "open"
  /\ outgoing = << >> /\ wire = << >>
  /\ reader = "reading"
  /\ panic = "none"

Alive == panic = "none" /\ reader # "exited"

\* g is about to take this step.
At(g, step) == Alive /\ todo[g] # << >> /\ Head(todo[g]) = step

\* g takes these steps in place of the one it is at.
Instead(g, steps) == todo' = [todo EXCEPT ![g] = steps \o Tail(@)]
Goes(g) == Instead(g, << >>)
Returns(g) == todo' = [todo EXCEPT ![g] = << >>]

Panics(why) == /\ panic' = why
               /\ UNCHANGED <<requests, active, todo, sendWg, stopDebug, sendQueue,
                              outgoing, wire, reader>>

-----------------------------------------------------------------------------
\* handleRequest: sendWg.Add(1), then the goroutine.
HandleRequest(request, steps) ==
  LET g == Len(requests) + 1
  IN  /\ Alive /\ reader = "reading" /\ g \in Requests
      /\ requests' = Append(requests, request)
      /\ active' = active \cup {g}
      /\ todo' = [todo EXCEPT ![g] = steps]
      /\ sendWg' = sendWg + 1
      /\ UNCHANGED <<stopDebug, sendQueue, outgoing, wire, reader, panic>>

\* dispatchRequest has returned: sendWg.Done(), but for what launch left behind.
DoneTwice(g) == IF g = Runner THEN 0 ELSE 2                           \* fault
Done(g) == IF g = Runner THEN 0 ELSE 1

Finish(g) ==
  /\ Alive /\ g \in active /\ todo[g] = << >>
  /\ active' = active \ {g}
  /\ sendWg' = sendWg - Done(g)
  /\ UNCHANGED <<requests, todo, stopDebug, sendQueue, outgoing, wire, reader, panic>>

\* A message goes over when both ends are there; a closed channel panics.
Send(g, m) ==
  /\ At(g, m)
  /\ \/ /\ sendQueue = "open" /\ outgoing = << >>
        /\ outgoing' = <<[from |-> g, type |-> m]>>
        /\ Goes(g)
        /\ UNCHANGED <<requests, active, sendWg, stopDebug, sendQueue, wire, reader, panic>>
     \/ sendQueue = "closed" /\ Panics("sendOnClosedSendQueue")

SendFromQueue ==
  /\ Alive /\ outgoing # << >>
  /\ wire' = wire \o outgoing
  /\ outgoing' = << >>
  /\ UNCHANGED <<requests, active, todo, sendWg, stopDebug, sendQueue, reader, panic>>

-----------------------------------------------------------------------------
\* The end of StartSession.
EndOfInput ==
  /\ Alive /\ reader = "reading"
  /\ reader' = "waiting"
  /\ stopDebug' = "closed"
  /\ UNCHANGED <<requests, active, todo, sendWg, sendQueue, outgoing, wire, panic>>

NotDrained == TRUE                                                    \* fault
Drained == sendWg = 0

CloseQueue ==
  /\ Alive /\ reader = "waiting" /\ Drained
  /\ reader' = "closing"
  /\ sendQueue' = "closed"
  /\ UNCHANGED <<requests, active, todo, sendWg, stopDebug, outgoing, wire, panic>>

\* conn.Close() and the return of main, which ends every other goroutine.
Exit ==
  /\ Alive /\ reader = "closing"
  /\ reader' = "exited"
  /\ UNCHANGED <<requests, active, todo, sendWg, stopDebug, sendQueue, outgoing, wire, panic>>

\* log.Fatal on what is not a message of the protocol.
Fatal ==
  /\ Alive /\ reader = "reading"
  /\ reader' = "exited"
  /\ UNCHANGED <<requests, active, todo, sendWg, stopDebug, sendQueue, outgoing, wire, panic>>

\* log.Fatalf of dispatchRequest, in the goroutine of a message it does not know.
FatalRequest(g) ==
  /\ At(g, "fatal")
  /\ reader' = "exited"
  /\ UNCHANGED <<requests, active, todo, sendWg, stopDebug, sendQueue, outgoing, wire, panic>>
=============================================================================

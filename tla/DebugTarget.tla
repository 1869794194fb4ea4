---------------------------- MODULE DebugTarget ----------------------------
(***************************************************************************)
(* What the debug driver promises to the request handlers, without the     *)
(* program, its frames and its lines: a debuggee that is started once,     *)
(* moves only while a command runs it, never moves back to the start nor   *)
(* on from the end, and stays failed once it has failed.  MonkeyDriver     *)
(* implements it; the handlers of MonkeyHandler run on it.                 *)
(***************************************************************************)
EXTENDS Naturals

CONSTANT Runners    \* who may run a command

VARIABLES
  machine,   \* "none" while there is no virtual machine, then its state
  failed,    \* len(d.Errors) > 0
  busy,      \* busy[g]: what g is running, a step or a run to a breakpoint
  panic      \* why the process died, "none" while it is alive

targetVars == <<machine, failed, busy, panic>>

Machines == {"none", "OFF", "STOPPED", "DONE"}
Commands == {"step", "run"}

TargetInit ==
  /\ machine = "none"
  /\ failed = FALSE
  /\ busy = [g \in Runners |-> "idle"]
  /\ panic = "none"

\* Driver.State
DriverState ==
  IF machine = "none" THEN "COMPILER_ERROR"
  ELSE IF failed /\ machine = "STOPPED" THEN "RUNTIME_ERROR"
  ELSE machine

\* Where the machine may be after it has executed some instructions.
Moves ==
  CASE machine = "none"    -> {"none"}
    [] machine = "OFF"     -> {"OFF", "STOPPED", "DONE"}
    [] machine = "STOPPED" -> {"STOPPED", "DONE"}
    [] machine = "DONE"    -> {"DONE"}

Start(ok) ==
  /\ panic = "none" /\ machine = "none" /\ ~failed
  /\ IF ok
     THEN machine' = "OFF" /\ UNCHANGED failed
     ELSE failed' = TRUE /\ UNCHANGED machine
  /\ UNCHANGED <<busy, panic>>

Begin(g, command) ==
  /\ panic = "none" /\ machine # "none" /\ busy[g] = "idle"
  /\ busy' = [busy EXCEPT ![g] = command]
  /\ UNCHANGED <<machine, failed, panic>>

\* The command executes instructions and goes on, or returns.
Moved ==
  /\ machine' \in Moves
  /\ failed' \in {failed, TRUE}
  /\ UNCHANGED panic

Continues(g) ==
  /\ panic = "none" /\ busy[g] # "idle"
  /\ Moved
  /\ UNCHANGED busy

\* A step always leaves the start; a run to a breakpoint may stop there.
Ends(g) ==
  /\ panic = "none" /\ busy[g] # "idle"
  /\ Moved
  /\ busy[g] = "step" => machine' # "OFF"
  /\ busy' = [busy EXCEPT ![g] = "idle"]

\* The program, or a question about its position, panics.
Dies ==
  /\ panic = "none"
  /\ panic' = "program"
  /\ UNCHANGED <<machine, failed, busy>>

TargetNext ==
  \/ \E ok \in BOOLEAN : Start(ok)
  \/ \E g \in Runners, command \in Commands : Begin(g, command)
  \/ \E g \in Runners : Continues(g) \/ Ends(g)
  \/ Dies

TargetSpec == TargetInit /\ [][TargetNext]_targetVars
=============================================================================

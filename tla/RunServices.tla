------------------------------ MODULE RunServices ------------------------------
(***************************************************************************)
(* The services beside a supervised QEMU (Service.Supervise of             *)
(* internal/supervisor/supervisor.go): the serial log sink and the         *)
(* monitoring, set up before and after QEMU's start, taken down in one     *)
(* order when the run ends and in another when its start fails.  A         *)
(* supervisor may also be killed; QEMU then goes with it.                  *)
(*                                                                         *)
(* The requests that stop a VM are SupervisedRun's; here QEMU just ends.   *)
(***************************************************************************)
EXTENDS SerialLog, Monitoring

\* What is looked at together: whether the VM has a metrics port, how much its guest prints
\* at most (a bound), and the lengths of the log files it may begin with.
CONSTANT Scenarios

ASSUME ScenariosAssumption ==
  Scenarios \subseteq [metrics : BOOLEAN, output : Nat, leftovers : SUBSET Nat]

VARIABLES
  main,      \* where Service.Supervise is
  scenario,  \* one of Scenarios
  qemu       \* "none", "running", "gone" (reaped)

vars == <<main, scenario, qemu, logVars, monVars>>

Init ==
  /\ main = "off" /\ scenario \in Scenarios /\ qemu = "none"
  /\ LogInit(scenario.leftovers) /\ MonInit

-----------------------------------------------------------------------------
(* Starting. *)

\* The metrics port is bound first: a run whose port is taken ends here.
Begin ==
  /\ main = "off"
  /\ main' = "sink" /\ BeginSink
  /\ UNCHANGED <<scenario, qemu, slots, fifo, writers, reader, output, chunk, produced,
                 whole, monVars>>

SinkReady ==
  /\ main = "sink" /\ copier = At("read")
  /\ main' = "start"
  /\ UNCHANGED <<scenario, qemu, logVars, monVars>>

\* implementation.Start, and all up to the monitoring; a start that failed left no QEMU.
StartQEMU ==
  /\ main = "start"
  /\ \/ qemu' = "running" /\ Attach /\ main' = "monitor"
     \/ main' = "abort" /\ UNCHANGED <<qemu, writers>>
  /\ UNCHANGED <<scenario, slots, fifo, reader, output, copier, chunk, produced, whole,
                 monVars>>

StartMonitoring ==
  /\ main = "monitor" /\ scenario.metrics
  /\ \E fallback \in RunStates : Seed(fallback)
  /\ main' = "seed"
  /\ UNCHANGED <<scenario, qemu, logVars>>

Monitored ==
  /\ main = "seed" /\ Serve
  /\ main' = "check"
  /\ UNCHANGED <<scenario, qemu, logVars>>

\* Ready; or QEMU ended already, the start was cancelled or its result cannot be reported.
Ready ==
  /\ main = "check" \/ (main = "monitor" /\ ~scenario.metrics)
  /\ main' = "running"
  /\ UNCHANGED <<scenario, qemu, logVars, monVars>>

StartFails ==
  /\ main \in {"monitor", "check"}
  /\ main' = "undo"
  /\ UNCHANGED <<scenario, qemu, logVars, monVars>>

-----------------------------------------------------------------------------
(* The end of a run: the log to its end, then the monitoring. *)

QEMUEnds ==
  /\ qemu = "running"
  /\ qemu' = "gone" /\ Detach
  /\ UNCHANGED <<main, scenario, slots, fifo, reader, output, copier, chunk, produced, whole,
                 monVars>>

FinishLog ==
  /\ main = "running" /\ qemu = "gone"
  /\ Finish /\ main' = "drain"
  /\ UNCHANGED <<scenario, qemu, monVars>>

LogFinished ==
  /\ main = "drain" /\ copier = At("ended")
  /\ StopServing /\ main' = "join"
  /\ UNCHANGED <<scenario, qemu, logVars>>

-----------------------------------------------------------------------------
(* A start that fails: the monitoring, QEMU, then the log. *)

UndoMonitoring ==
  /\ main = "undo"
  /\ StopServing /\ main' = "undo-join"
  /\ UNCHANGED <<scenario, qemu, logVars>>

MonitoringUndone ==
  /\ main = "undo-join" /\ Stopped
  /\ main' = "force"
  /\ UNCHANGED <<scenario, qemu, logVars, monVars>>

\* run.force returns when QEMU was reaped.
ForceQEMU ==
  /\ main = "force"
  /\ qemu' = "gone" /\ Detach /\ main' = "abort"
  /\ UNCHANGED <<scenario, slots, fifo, reader, output, copier, chunk, produced, whole,
                 monVars>>

AbortLog ==
  /\ main = "abort"
  /\ Abort /\ main' = "abort-wait"
  /\ UNCHANGED <<scenario, qemu, monVars>>

-----------------------------------------------------------------------------

\* The supervisor's process ends, and a ping in flight with it.
Gone ==
  /\ main' = "off" /\ qemu' = "none"
  /\ SinkGone /\ Unmonitored
  /\ UNCHANGED scenario

End ==
  /\ \/ main = "sink" /\ copier = At("failed")
     \/ main = "abort-wait" /\ copier = At("ended")
     \/ main = "join" /\ Stopped
  /\ Gone

Crash == main # "off" /\ Gone

LogSteps ==
  /\ OpenFile \/ OpenPipe \/ CopyStep \/ (produced < scenario.output /\ Produce)
  /\ UNCHANGED <<main, scenario, qemu, monVars>>

MonitoringSteps ==
  /\ CollectorStep \/ Tick \/ BeginPing \/ PingStep
  /\ UNCHANGED <<main, scenario, qemu, logVars>>

Starting == Begin \/ SinkReady \/ StartQEMU \/ StartMonitoring \/ Monitored \/ Ready \/ StartFails

Ending ==
  \/ FinishLog \/ LogFinished
  \/ UndoMonitoring \/ MonitoringUndone \/ ForceQEMU \/ AbortLog \/ End

Next == Starting \/ QEMUEnds \/ Ending \/ Crash \/ LogSteps \/ MonitoringSteps

Spec == Init /\ [][Next]_vars

\* The goroutines of a supervisor go on, and what they wait for has a deadline; guests
\* print, QEMU ends and requests come as they like.
Fairness ==
  /\ WF_vars(Ending)
  /\ WF_vars(CopyStep /\ UNCHANGED <<main, scenario, qemu, monVars>>)
  /\ WF_vars(CollectorStep /\ UNCHANGED <<main, scenario, qemu, logVars>>)
  /\ WF_vars(PingStep /\ UNCHANGED <<main, scenario, qemu, logVars>>)

FairSpec == Spec /\ Fairness

\* A teardown ends, in either order: the copy loop sees the end of a FIFO nobody writes to,
\* and the collector the end of its context, whatever step each of them was at.
TeardownEnds ==
  main \in {"drain", "join", "undo", "undo-join", "force", "abort", "abort-wait"} ~> main = "off"
=============================================================================

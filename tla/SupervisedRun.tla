---------------------------- MODULE SupervisedRun ----------------------------
(***************************************************************************)
(* One supervised run of a VM, from readiness to the exit record:          *)
(* internal/supervisor/run.go, control_server.go and the terminal part of  *)
(* supervisor.go.  The actors are the goroutines of the supervisor:        *)
(*                                                                         *)
(*   Main        the supervisor itself: waitForTermination, the teardown   *)
(*               and finalizeRun;                                          *)
(*   a \in Conns the handler of one control connection, which answers a    *)
(*               status or a stop request (a connection slot is used again *)
(*               once its handler has ended);                              *)
(*   the serve loop that accepts connections;                              *)
(*   runGraceful one goroutine for each graceful attempt;                  *)
(*   force       the one goroutine that owns ForceStop;                    *)
(*   the goroutine that waits for the backend and closes run.done.         *)
(*                                                                         *)
(* A step is one critical section of run.mu or one channel operation.      *)
(* The backend (QEMU) is seen through backend.Instance: RequestShutdown is *)
(* accepted or refused, ForceStop returns only after the child is reaped,  *)
(* and the guest may exit by itself at any moment, cleanly or not.         *)
(***************************************************************************)
EXTENDS Naturals, FiniteSets

CONSTANTS
  Conns,       \* slots for control connections
  Main,        \* the supervisor's main goroutine
  Attempts,    \* gracefulAttempt objects; an unreferenced one is used again
  LiveStates,  \* what instance.Status may report of a live guest
  None         \* nil

Callers == Conns \cup {Main}

\* The callers of stopWithProgress, each waiting on at most one attempt, leave
\* an unreferenced attempt for the next.
ASSUME RunAssumption ==
  /\ Main \notin Conns /\ "returned" \notin Conns
  /\ None \notin Attempts \cup Conns \cup {"returned"}
  /\ IsFiniteSet(Conns) /\ IsFiniteSet(Attempts)
  /\ Cardinality(Attempts) > Cardinality(Conns)
  /\ LiveStates # {} /\ LiveStates \subseteq {"running", "paused"}

VARIABLES
  child,       \* "alive", or how the backend process ended: "clean", "failed"
  done,        \* run.done is closed and run.terminal set
  state,       \* run.status.State
  stopping,    \* run.stopping
  intentional, \* run.intentional
  graceful,    \* run.graceful: the shared attempt, or None
  phase,       \* what runGraceful is doing for each attempt
  deadline,    \* each attempt's context: "live", "expired" or "cancelled"
  accepted,    \* attempt.accepted
  attemptErr,  \* attempt.err, meaningful once phase is "done"
  force,       \* the force goroutine
  forceWaits,  \* the attempt whose request it waits for (requestDone)
  forceErr,    \* run.forceErr # nil
  pc,          \* where each caller stands
  want,        \* the request a handler decoded; Main asks for "stop", then "force"
  my,          \* the attempt a caller waits on
  verdict,     \* what a caller was told and a handler is to answer
  told,        \* the last progress frame written to a connection
  marked,      \* run.connections[c]: a stop request was decoded
  open,        \* the server's end of the connection is open
  sent,        \* the terminal frame written: "none", "lost" or a verdict
  serving,     \* the serve loop: None while in AcceptUnix, an accepted
               \* connection, or "returned"
  listening,   \* the listener is open
  internalFailure, \* the context given to Supervise ended the run
  lastExit     \* last_exit.json of this run: "none", "zero" or "nonzero"

childVars   == <<child, done>>
flagVars    == <<state, stopping, intentional>>
attemptVars == <<graceful, phase, deadline, accepted, attemptErr>>
forceVars   == <<force, forceWaits, forceErr>>
callerVars  == <<pc, want, my, verdict, told>>
connVars    == <<marked, open, sent>>
serverVars  == <<serving, listening>>
mainVars    == <<internalFailure, lastExit>>
vars == <<childVars, flagVars, attemptVars, forceVars, callerVars, connVars,
          serverVars, mainVars>>

StopPCs == {"stop", "force", "waitRequest", "waitDone", "waitForce"}
ConnPCs == {"idle", "accepted", "reading", "marking", "status", "query", "store",
            "reply", "closing"} \cup StopPCs
MainPCs == {"select", "returned", "awaitDone", "closeListener",
            "waitServe", "closeConns", "waitHandlers", "finalize", "over"} \cup StopPCs
Verdicts == {"none", "ok", "timeout", "error", "stopping"} \cup LiveStates

\* run.connections, and the count of run.handlers: the handlers that are tracked.
Handlers == {c \in Conns : pc[c] \notin {"idle", "accepted"}}

\* attempt.request is closed.
RequestClosed(a) == phase[a] \in {"accepted", "settling", "done"}
ForceDone        == force = "done"
ForceStarted     == force # "idle"

Init ==
  /\ child = "alive" /\ done = FALSE
  /\ state \in LiveStates /\ stopping = FALSE /\ intentional = FALSE
  /\ graceful = None
  /\ phase      = [a \in Attempts |-> "unused"]
  /\ deadline   = [a \in Attempts |-> "live"]
  /\ accepted   = [a \in Attempts |-> FALSE]
  /\ attemptErr = [a \in Attempts |-> "none"]
  /\ force = "idle" /\ forceWaits = None /\ forceErr = FALSE
  /\ pc      = [c \in Callers |-> IF c = Main THEN "select" ELSE "idle"]
  /\ want    = [c \in Callers |-> "none"]
  /\ my      = [c \in Callers |-> None]
  /\ verdict = [c \in Callers |-> "none"]
  /\ told    = [c \in Conns |-> "none"]
  /\ marked  = [c \in Conns |-> FALSE]
  /\ open    = [c \in Conns |-> TRUE]
  /\ sent    = [c \in Conns |-> "none"]
  /\ serving = None /\ listening = TRUE
  /\ internalFailure = FALSE /\ lastExit = "none"

-----------------------------------------------------------------------------
(* The backend and the outside world. *)

\* The guest powers off or QEMU dies: cmd.Wait returns in reap.
ChildExits ==
  /\ child = "alive"
  /\ child' \in {"clean", "failed"}
  /\ UNCHANGED <<done, flagVars, attemptVars, forceVars, callerVars, connVars,
                 serverVars, mainVars>>

\* newSupervisedRun's goroutine receives the exit and closes run.done.
PublishExit ==
  /\ child # "alive" /\ ~done
  /\ done' = TRUE
  /\ UNCHANGED <<child, flagVars, attemptVars, forceVars, callerVars, connVars,
                 serverVars, mainVars>>

\* context.WithTimeout of an attempt: the first caller's timeout.
DeadlineExpires(a) ==
  /\ phase[a] \in {"requesting", "accepted"} /\ deadline[a] = "live"
  /\ deadline' = [deadline EXCEPT ![a] = "expired"]
  /\ UNCHANGED <<childVars, flagVars, graceful, phase, accepted, attemptErr, forceVars,
                 callerVars, connVars, serverVars, mainVars>>

-----------------------------------------------------------------------------
(* stopWithProgress and force, for a handler or for Main. *)

Return(c) == IF c = Main THEN "returned" ELSE "reply"

\* onProgress: Main passes nil, and a frame to a closed connection is dropped.
Tell(c, stage) ==
  told' = IF c \in Conns /\ open[c] THEN [told EXCEPT ![c] = stage] ELSE told

GoTo(c, where) == pc' = [pc EXCEPT ![c] = where]

\* A graceful stop after a force has started waits for the force.
StopJoinsForce(c) ==
  /\ pc[c] = "stop" /\ ForceStarted
  /\ Tell(c, "forcing")
  /\ GoTo(c, "waitForce")
  /\ UNCHANGED <<childVars, flagVars, attemptVars, forceVars, want, my, verdict, connVars,
                 serverVars, mainVars>>

\* A graceful stop shares the attempt that exists ...
StopJoinsAttempt(c) ==
  /\ pc[c] = "stop" /\ ~ForceStarted /\ graceful # None
  /\ my' = [my EXCEPT ![c] = graceful]
  /\ GoTo(c, "waitRequest")
  /\ UNCHANGED <<childVars, flagVars, attemptVars, forceVars, want, verdict, told, connVars,
                 serverVars, mainVars>>

\* ... or creates one, with its goroutine and deadline.
BeginAttempt(c) ==
  \E a \in Attempts :
    /\ phase[a] = "unused"
    /\ graceful' = a
    /\ phase' = [phase EXCEPT ![a] = "requesting"]
    /\ my' = [my EXCEPT ![c] = a]
    /\ UNCHANGED <<deadline, accepted, attemptErr>>

\* Mutant: every stop makes an attempt of its own.
StopBeginsAttemptUnshared(c) ==
  /\ pc[c] = "stop" /\ ~ForceStarted
  /\ BeginAttempt(c)
  /\ GoTo(c, "waitRequest")
  /\ UNCHANGED <<childVars, flagVars, forceVars, want, verdict, told, connVars,
                 serverVars, mainVars>>

StopBeginsAttempt(c) ==
  /\ pc[c] = "stop" /\ ~ForceStarted /\ graceful = None
  /\ BeginAttempt(c)
  /\ GoTo(c, "waitRequest")
  /\ UNCHANGED <<childVars, flagVars, forceVars, want, verdict, told, connVars,
                 serverVars, mainVars>>

\* First select: the request was settled, or a force overtook it.
RequestSettled(c) ==
  /\ pc[c] = "waitRequest" /\ RequestClosed(my[c])
  /\ IF accepted[my[c]] THEN Tell(c, "acknowledged") ELSE UNCHANGED told
  /\ GoTo(c, "waitDone")
  /\ UNCHANGED <<childVars, flagVars, attemptVars, forceVars, want, my, verdict, connVars,
                 serverVars, mainVars>>

\* Caller c is the last to refer to a: a is garbage, to be allocated again.
LastReference(c, a) == graceful # a /\ \A d \in Callers \ {c} : my[d] # a

\* Second select: the attempt ended.
AttemptAnswers(c) ==
  LET a == my[c] IN
  /\ pc[c] = "waitDone" /\ phase[a] = "done"
  /\ verdict' = [verdict EXCEPT ![c] = attemptErr[a]]
  /\ my' = [my EXCEPT ![c] = None]
  /\ GoTo(c, Return(c))
  /\ IF LastReference(c, a)
     THEN /\ phase' = [phase EXCEPT ![a] = "unused"]
          /\ deadline' = [deadline EXCEPT ![a] = "live"]
          /\ attemptErr' = [attemptErr EXCEPT ![a] = "none"]
     ELSE UNCHANGED <<phase, deadline, attemptErr>>
  /\ UNCHANGED <<childVars, flagVars, graceful, accepted, forceVars, want, told, connVars,
                 serverVars, mainVars>>

\* Either select: forceDone is closed.
ForceOvertakes(c) ==
  /\ pc[c] \in {"waitRequest", "waitDone"} /\ ForceDone
  /\ Tell(c, "forcing")
  /\ my' = [my EXCEPT ![c] = None]
  /\ GoTo(c, "waitForce")
  /\ UNCHANGED <<childVars, flagVars, attemptVars, forceVars, want, verdict, connVars,
                 serverVars, mainVars>>

\* force(): the first caller sets the flags, cancels the attempt and starts the
\* goroutine; every caller then waits for forceDone.
CallForce(c) ==
  /\ pc[c] = "force"
  /\ Tell(c, "forcing")
  /\ IF ForceStarted
     THEN UNCHANGED <<flagVars, deadline, force, forceWaits>>
     ELSE /\ stopping' = TRUE /\ intentional' = TRUE /\ state' = "stopping"
          /\ force' = "handoff"
          /\ forceWaits' = graceful
          /\ deadline' = [a \in Attempts |->
                            IF a = graceful /\ deadline[a] = "live"
                            THEN "cancelled" ELSE deadline[a]]
  /\ GoTo(c, "waitForce")
  /\ UNCHANGED <<childVars, graceful, phase, accepted, attemptErr, forceErr, want, my,
                 verdict, connVars, serverVars, mainVars>>

ForceAnswers(c) ==
  /\ pc[c] = "waitForce" /\ ForceDone
  /\ verdict' = [verdict EXCEPT ![c] = IF forceErr THEN "error" ELSE "ok"]
  /\ GoTo(c, Return(c))
  /\ UNCHANGED <<childVars, flagVars, attemptVars, forceVars, want, my, told, connVars,
                 serverVars, mainVars>>

-----------------------------------------------------------------------------
(* runGraceful. *)

\* RequestShutdown returned nil: the stop is under way.
RequestAccepted(a) ==
  /\ phase[a] = "requesting"
  /\ accepted' = [accepted EXCEPT ![a] = TRUE]
  /\ IF ForceStarted
     THEN /\ phase' = [phase EXCEPT ![a] = "settling"]
          /\ UNCHANGED flagVars
     ELSE /\ phase' = [phase EXCEPT ![a] = "accepted"]
          /\ intentional' = TRUE /\ stopping' = TRUE /\ state' = "stopping"
  /\ UNCHANGED <<childVars, graceful, deadline, attemptErr, forceVars, callerVars, connVars,
                 serverVars, mainVars>>

\* Mutant: a refused attempt stays the shared one, and no stop can be retried.
RequestRefusedSticky(a) ==
  /\ phase[a] = "requesting"
  /\ IF ForceStarted
     THEN /\ phase' = [phase EXCEPT ![a] = "settling"]
          /\ UNCHANGED <<graceful, attemptErr>>
     ELSE /\ phase' = [phase EXCEPT ![a] = "done"]
          /\ attemptErr' = [attemptErr EXCEPT ![a] = "ok"]
          /\ UNCHANGED graceful
  /\ UNCHANGED <<childVars, flagVars, deadline, accepted, forceVars, callerVars, connVars,
                 serverVars, mainVars>>

\* It returned an error: the attempt is over and a later stop may try again.
RequestRefused(a) ==
  /\ phase[a] = "requesting"
  /\ IF ForceStarted
     THEN /\ phase' = [phase EXCEPT ![a] = "settling"]
          /\ UNCHANGED <<graceful, attemptErr>>
     ELSE /\ phase' = [phase EXCEPT ![a] = "done"]
          /\ attemptErr' = [attemptErr EXCEPT ![a] =
                              IF deadline[a] = "expired" THEN "timeout" ELSE "error"]
          /\ graceful' = IF graceful = a THEN None ELSE graceful
  /\ UNCHANGED <<childVars, flagVars, deadline, accepted, forceVars, callerVars, connVars,
                 serverVars, mainVars>>

EndAttempt(a, err) ==
  /\ phase' = [phase EXCEPT ![a] = "done"]
  /\ attemptErr' = [attemptErr EXCEPT ![a] = err]
  /\ UNCHANGED <<childVars, flagVars, graceful, deadline, accepted, forceVars, callerVars,
                 connVars, serverVars, mainVars>>

GuestStopped(a) == phase[a] = "accepted" /\ done /\ EndAttempt(a, "ok")

\* Mutant: only a force ends the wait for a guest that does not stop.
AttemptOutlivesDeadline(a) ==
  /\ phase[a] = "accepted" /\ deadline[a] = "cancelled" /\ ~ForceStarted
  /\ EndAttempt(a, "timeout")

\* ctx.Done of an accepted attempt: a timeout, unless a force is under way.
AttemptTimesOut(a) ==
  /\ phase[a] = "accepted" /\ deadline[a] # "live" /\ ~ForceStarted
  /\ EndAttempt(a, "timeout")

AttemptYields(a) ==
  /\ phase[a] = "accepted" /\ deadline[a] # "live" /\ ForceStarted
  /\ phase' = [phase EXCEPT ![a] = "settling"]
  /\ UNCHANGED <<childVars, flagVars, graceful, deadline, accepted, attemptErr, forceVars,
                 callerVars, connVars, serverVars, mainVars>>

\* forceDone is closed: the attempt takes the result of the force.
AttemptTakesForce(a) ==
  /\ phase[a] \in {"accepted", "settling"} /\ ForceDone
  /\ EndAttempt(a, IF forceErr THEN "error" ELSE "ok")

-----------------------------------------------------------------------------
(* The force goroutine. *)

\* Mutant: ForceStop does not wait for the request in flight.
ForceHandoffNoWait ==
  /\ force = "handoff"
  /\ force' = "running"
  /\ UNCHANGED <<childVars, flagVars, attemptVars, forceWaits, forceErr, callerVars, connVars,
                 serverVars, mainVars>>

ForceHandoff ==
  /\ force = "handoff"
  /\ forceWaits # None => RequestClosed(forceWaits)
  /\ force' = "running"
  /\ UNCHANGED <<childVars, flagVars, attemptVars, forceWaits, forceErr, callerVars, connVars,
                 serverVars, mainVars>>

\* QMP quit or SIGKILL ends the child (quit may give it a clean exit).
ForceKills == force = "running" /\ ChildExits

\* ForceStop returns once the child is reaped; killing it may have failed.
ForceStopReturns ==
  /\ force = "running" /\ child # "alive"
  /\ force' = "reap"
  /\ forceErr' \in BOOLEAN
  /\ UNCHANGED <<childVars, flagVars, attemptVars, forceWaits, callerVars, connVars,
                 serverVars, mainVars>>

\* Mutant: forceDone is closed without waiting for run.done.
ForceFinishesEarly ==
  /\ force = "reap"
  /\ force' = "done"
  /\ UNCHANGED <<childVars, flagVars, attemptVars, forceWaits, forceErr, callerVars, connVars,
                 serverVars, mainVars>>

ForceFinishes ==
  /\ force = "reap" /\ done
  /\ force' = "done"
  /\ UNCHANGED <<childVars, flagVars, attemptVars, forceWaits, forceErr, callerVars, connVars,
                 serverVars, mainVars>>

-----------------------------------------------------------------------------
(* The serve loop and the handlers of control connections. *)

\* AcceptUnix returns a connection to the serve loop ...
Accept(c) ==
  /\ listening /\ serving = None /\ pc[c] = "idle"
  /\ serving' = c
  /\ GoTo(c, "accepted")
  /\ UNCHANGED <<childVars, flagVars, attemptVars, forceVars, want, my, verdict, told, connVars,
                 listening, mainVars>>

\* ... which tracks it and starts its handler.
Track(c) ==
  /\ serving = c
  /\ serving' = None
  /\ GoTo(c, "reading")
  /\ UNCHANGED <<childVars, flagVars, attemptVars, forceVars, want, my, verdict, told, connVars,
                 listening, mainVars>>

\* AcceptUnix fails on the closed listener, and the server's context is done.
ServeReturns ==
  /\ serving = None /\ ~listening
  /\ serving' = "returned"
  /\ UNCHANGED <<childVars, flagVars, attemptVars, forceVars, callerVars, connVars,
                 listening, mainVars>>

\* Mutant: the handler goes on with a stop without knowing which.
DecodeForgets(c) ==
  /\ pc[c] = "reading" /\ open[c]
  /\ \/ want' = [want EXCEPT ![c] = "status"] /\ GoTo(c, "status")
     \/ UNCHANGED want /\ GoTo(c, "marking")
  /\ UNCHANGED <<childVars, flagVars, attemptVars, forceVars, my, verdict, told, connVars,
                 serverVars, mainVars>>

\* DecodeRequest returns a valid request for this VM.
Decode(c) ==
  /\ pc[c] = "reading" /\ open[c]
  /\ \E request \in {"status", "stop", "force"} :
       /\ want' = [want EXCEPT ![c] = request]
       /\ GoTo(c, IF request = "status" THEN "status" ELSE "marking")
  /\ UNCHANGED <<childVars, flagVars, attemptVars, forceVars, my, verdict, told, connVars,
                 serverVars, mainVars>>

\* The peer is not authorized, the request is malformed or names another VM, the
\* client hung up, or the server closed the connection.
ReadFails(c) ==
  /\ pc[c] = "reading"
  /\ verdict' = [verdict EXCEPT ![c] = "error"]
  /\ GoTo(c, "reply")
  /\ UNCHANGED <<childVars, flagVars, attemptVars, forceVars, want, my, told, connVars,
                 serverVars, mainVars>>

\* markStopConnection, then the dispatch to stopWithProgress.
Mark(c) ==
  /\ pc[c] = "marking"
  /\ marked' = [marked EXCEPT ![c] = TRUE]
  /\ GoTo(c, want[c])
  /\ UNCHANGED <<childVars, flagVars, attemptVars, forceVars, want, my, verdict, told, open,
                 sent, serverVars, mainVars>>

\* currentStatus: the cached state once a stop is under way ...
StatusCached(c) ==
  /\ pc[c] = "status"
  /\ IF stopping
     THEN verdict' = [verdict EXCEPT ![c] = state] /\ GoTo(c, "reply")
     ELSE UNCHANGED verdict /\ GoTo(c, "query")
  /\ UNCHANGED <<childVars, flagVars, attemptVars, forceVars, want, my, told, connVars,
                 serverVars, mainVars>>

\* ... else instance.Status, without the lock ...
StatusQueried(c) ==
  /\ pc[c] = "query"
  /\ \/ /\ child = "alive"
        /\ \E s \in LiveStates : verdict' = [verdict EXCEPT ![c] = s]
        /\ GoTo(c, "store")
     \/ /\ verdict' = [verdict EXCEPT ![c] = "error"]
        /\ GoTo(c, "reply")
  /\ UNCHANGED <<childVars, flagVars, attemptVars, forceVars, want, my, told, connVars,
                 serverVars, mainVars>>

\* Mutant: the queried state is stored without looking at stopping again.
StatusStoredBlindly(c) ==
  /\ pc[c] = "store"
  /\ state' = verdict[c]
  /\ verdict' = [verdict EXCEPT ![c] = state']
  /\ GoTo(c, "reply")
  /\ UNCHANGED <<childVars, stopping, intentional, attemptVars, forceVars, want, my, told,
                 connVars, serverVars, mainVars>>

\* ... and it is stored only if no stop has begun meanwhile.
StatusStored(c) ==
  /\ pc[c] = "store"
  /\ state' = IF stopping THEN state ELSE verdict[c]
  /\ verdict' = [verdict EXCEPT ![c] = state']
  /\ GoTo(c, "reply")
  /\ UNCHANGED <<childVars, stopping, intentional, attemptVars, forceVars, want, my, told,
                 connVars, serverVars, mainVars>>

\* The terminal frame is written, and the connection closed.
Reply(c) ==
  /\ pc[c] = "reply"
  /\ sent' = [sent EXCEPT ![c] = IF open[c] THEN verdict[c] ELSE "lost"]
  /\ open' = [open EXCEPT ![c] = FALSE]
  /\ GoTo(c, "closing")
  /\ UNCHANGED <<childVars, flagVars, attemptVars, forceVars, want, my, verdict, told, marked,
                 serverVars, mainVars>>

\* untrackConnection; the slot becomes that of another connection.
Untrack(c) ==
  /\ pc[c] = "closing"
  /\ GoTo(c, "idle")
  /\ want'    = [want EXCEPT ![c] = "none"]
  /\ verdict' = [verdict EXCEPT ![c] = "none"]
  /\ told'    = [told EXCEPT ![c] = "none"]
  /\ marked'  = [marked EXCEPT ![c] = FALSE]
  /\ open'    = [open EXCEPT ![c] = TRUE]
  /\ sent'    = [sent EXCEPT ![c] = "none"]
  /\ UNCHANGED <<childVars, flagVars, attemptVars, forceVars, my, serverVars, mainVars>>

-----------------------------------------------------------------------------
(* Main: waitForTermination, the teardown and finalizeRun. *)

MainGoes(from, to) == pc[Main] = from /\ GoTo(Main, to)

\* waitForTermination's select: the child is gone, the context is done, or a
\* signal arrived (later signals are ignored).
MainSeesExit ==
  /\ done /\ MainGoes("select", "awaitDone")
  /\ UNCHANGED <<childVars, flagVars, attemptVars, forceVars, want, my, verdict, told, connVars,
                 serverVars, mainVars>>

MainCancelled ==
  /\ MainGoes("select", "force")
  /\ want' = [want EXCEPT ![Main] = "force"]
  /\ internalFailure' = TRUE
  /\ UNCHANGED <<childVars, flagVars, attemptVars, forceVars, my, verdict, told, connVars,
                 serverVars, lastExit>>

MainSignalled ==
  /\ MainGoes("select", "stop")
  /\ want' = [want EXCEPT ![Main] = "stop"]
  /\ UNCHANGED <<childVars, flagVars, attemptVars, forceVars, my, verdict, told, connVars,
                 serverVars, mainVars>>

\* Mutant: a graceful stop that failed is not followed by a force.
StopReturnedNoEscalation ==
  /\ MainGoes("returned", "awaitDone")
  /\ UNCHANGED <<childVars, flagVars, attemptVars, forceVars, want, my, verdict, told, connVars,
                 serverVars, mainVars>>

\* After a signal, a graceful stop that failed is followed by a force.
StopReturned ==
  /\ IF want[Main] = "stop" /\ verdict[Main] # "ok"
     THEN MainGoes("returned", "force") /\ want' = [want EXCEPT ![Main] = "force"]
     ELSE MainGoes("returned", "awaitDone") /\ UNCHANGED want
  /\ UNCHANGED <<childVars, flagVars, attemptVars, forceVars, my, verdict, told, connVars,
                 serverVars, mainVars>>

MainTearsDown(from, to) ==
  /\ MainGoes(from, to)
  /\ UNCHANGED <<childVars, flagVars, attemptVars, forceVars, want, my, verdict, told,
                 serving, mainVars>>

\* <-run.done, then sink.finish and monitor.stop.
ExitSeen ==
  /\ done
  /\ MainTearsDown("awaitDone", "closeListener")
  /\ UNCHANGED <<connVars, listening>>

CloseListener ==
  /\ MainTearsDown("closeListener", "waitServe")
  /\ listening' = FALSE
  /\ UNCHANGED connVars

\* Mutant: the serve loop is not waited for.
ServeLeftBehind ==
  MainTearsDown("waitServe", "closeConns") /\ UNCHANGED <<connVars, listening>>

ServeJoined ==
  /\ serving = "returned"
  /\ MainTearsDown("waitServe", "closeConns")
  /\ UNCHANGED <<connVars, listening>>

\* Mutant: idle connections are left open.
CloseNoConnections ==
  MainTearsDown("closeConns", "waitHandlers") /\ UNCHANGED <<connVars, listening>>

CloseNonStopConnections ==
  /\ MainTearsDown("closeConns", "waitHandlers")
  /\ open' = [c \in Conns |-> open[c] /\ (c \in Handlers => marked[c])]
  /\ UNCHANGED <<marked, sent, listening>>

\* handlers.Wait, then completedForceError.
HandlersJoined ==
  /\ Handlers = {}
  /\ ForceStarted => ForceDone
  /\ MainTearsDown("waitHandlers", "finalize")
  /\ UNCHANGED <<connVars, listening>>

\* Mutant: the error of a force does not reach the exit record.
TerminalOutcomeNoForce ==
  IF internalFailure THEN "nonzero"
  ELSE IF intentional \/ child = "clean" THEN "zero"
  ELSE "nonzero"

\* terminalOutcome.
TerminalOutcome ==
  IF internalFailure \/ forceErr THEN "nonzero"
  ELSE IF intentional \/ child = "clean" THEN "zero"
  ELSE "nonzero"

\* finalizeRun: CleanupRuntime, whose failure makes the exit code nonzero, and
\* WriteLastExit, which may fail.
Finalize ==
  /\ MainGoes("finalize", "over")
  /\ lastExit' \in {TerminalOutcome, "nonzero", "none"}
  /\ UNCHANGED <<childVars, flagVars, attemptVars, forceVars, want, my, verdict, told, connVars,
                 serverVars, internalFailure>>

-----------------------------------------------------------------------------
StopStep(c) ==
  \/ StopJoinsForce(c) \/ StopJoinsAttempt(c) \/ StopBeginsAttempt(c)
  \/ RequestSettled(c) \/ AttemptAnswers(c) \/ ForceOvertakes(c)
  \/ CallForce(c) \/ ForceAnswers(c)

HandlerStep(c) ==
  \/ Mark(c) \/ StatusCached(c) \/ StatusQueried(c) \/ StatusStored(c)
  \/ Reply(c) \/ Untrack(c)

GracefulStep(a) ==
  \/ RequestAccepted(a) \/ RequestRefused(a) \/ GuestStopped(a)
  \/ AttemptTimesOut(a) \/ AttemptYields(a) \/ AttemptTakesForce(a)

ForceStep == ForceHandoff \/ ForceStopReturns \/ ForceFinishes

MainStep ==
  \/ MainSeesExit \/ StopReturned \/ ExitSeen \/ CloseListener
  \/ ServeJoined \/ CloseNonStopConnections \/ HandlersJoined \/ Finalize

\* The supervisor's process ends after Finalize.
Next ==
  \/ ChildExits \/ PublishExit
  \/ \E a \in Attempts : DeadlineExpires(a) \/ GracefulStep(a)
  \/ \E c \in Callers : StopStep(c)
  \/ \E c \in Conns : Accept(c) \/ Track(c) \/ Decode(c) \/ ReadFails(c) \/ HandlerStep(c)
  \/ ServeReturns
  \/ ForceStep
  \/ MainStep \/ MainCancelled \/ MainSignalled

Spec == Init /\ [][Next]_vars

\* Every goroutine that can run does; deadlines pass; a backend call returns
\* (each is bounded by its context) and ForceStop ends the child.  Nothing is
\* assumed of the guest, of signals or of clients: a client may never send a
\* request, but a read of a connection closed under it fails.
Fairness ==
  /\ WF_vars(PublishExit) /\ WF_vars(ForceKills) /\ WF_vars(ForceStep)
  /\ WF_vars(MainStep) /\ WF_vars(ServeReturns)
  /\ \A a \in Attempts : WF_vars(DeadlineExpires(a)) /\ WF_vars(GracefulStep(a))
  /\ \A c \in Callers : WF_vars(StopStep(c))
  /\ \A c \in Conns : /\ WF_vars(Track(c)) /\ WF_vars(HandlerStep(c))
                      /\ WF_vars(~open[c] /\ ReadFails(c))

FairSpec == Spec /\ Fairness

-----------------------------------------------------------------------------
(* Properties. *)

TypeOK ==
  /\ child \in {"alive", "clean", "failed"} /\ done \in BOOLEAN
  /\ state \in LiveStates \cup {"stopping"}
  /\ stopping \in BOOLEAN /\ intentional \in BOOLEAN
  /\ graceful \in Attempts \cup {None}
  /\ phase \in [Attempts -> {"unused", "requesting", "accepted", "settling", "done"}]
  /\ deadline \in [Attempts -> {"live", "expired", "cancelled"}]
  /\ accepted \in [Attempts -> BOOLEAN]
  /\ attemptErr \in [Attempts -> {"none", "ok", "timeout", "error"}]
  /\ force \in {"idle", "handoff", "running", "reap", "done"}
  /\ forceWaits \in Attempts \cup {None} /\ forceErr \in BOOLEAN
  /\ pc \in [Callers -> ConnPCs \cup MainPCs]
  /\ pc[Main] \in MainPCs /\ \A c \in Conns : pc[c] \in ConnPCs
  /\ want \in [Callers -> {"none", "status", "stop", "force"}]
  /\ my \in [Callers -> Attempts \cup {None}]
  /\ verdict \in [Callers -> Verdicts]
  /\ \A c \in Callers : pc[c] \in {"waitRequest", "waitDone"} => my[c] # None
  /\ \A c \in Conns : /\ pc[c] = "marking" => want[c] \in {"stop", "force"}
                      /\ pc[c] = "store" => verdict[c] \in LiveStates
  /\ told \in [Conns -> {"none", "acknowledged", "forcing"}]
  /\ marked \in [Conns -> BOOLEAN] /\ open \in [Conns -> BOOLEAN]
  /\ sent \in [Conns -> Verdicts \cup {"lost"}]
  /\ serving \in Conns \cup {None, "returned"} /\ listening \in BOOLEAN
  /\ internalFailure \in BOOLEAN
  /\ lastExit \in {"none", "zero", "nonzero"}

\* The backend sees at most one shutdown request at a time, whatever number of
\* clients and signals ask for a stop (run.go: "Share one graceful attempt across
\* callers").
OneRequestInFlight ==
  \A a, b \in Attempts :
    phase[a] = "requesting" /\ phase[b] = "requesting" => a = b

\* ForceStop never overlaps a shutdown request (run.go: "That handoff keeps
\* guest-agent/QMP shutdown work from overlapping child teardown").
HandoffSafe ==
  force \in {"running", "reap", "done"} => \A a \in Attempts : phase[a] # "requesting"

\* A stop is reported successful only after the child was reaped and run.done
\* closed, along every path: the shared attempt, a joined force, an own force.
SuccessMeansExited ==
  \A c \in Callers :
    want[c] \in {"stop", "force"} /\ verdict[c] = "ok" => done

\* Once a stop is under way the reported state is "stopping", however status
\* queries that began earlier come back (currentStatus looks at stopping twice),
\* and a client is told "acknowledged" only of a stop that is under way.
StoppingSticks ==
  /\ stopping <=> state = "stopping"
  /\ \A c \in Conns : told[c] = "acknowledged" => stopping

\* When the exit record is written nothing is left running that could change the
\* outcome or use the child: no handler, no request, no force.
QuietAtFinalize ==
  pc[Main] \in {"finalize", "over"} =>
    /\ Handlers = {} /\ serving = "returned"
    /\ \A a \in Attempts : phase[a] # "requesting"
    /\ force \in {"idle", "done"}

\* Exit code 0 is recorded only if the guest ended cleanly, or the exit was asked
\* for (a shutdown request accepted, or a force) and no force failed.
CleanExitEarned ==
  lastExit = "zero" =>
    /\ ~forceErr /\ ~internalFailure
    /\ \/ child = "clean"
       \/ ForceStarted
       \/ graceful # None /\ accepted[graceful]

\* Exactly one terminal frame completes a stop request (protocol.go, on
\* StopProgress and on Response).  The code does not keep this: a request that was
\* decoded but not yet marked when the teardown closes the other connections loses
\* its answer.
StopGetsTerminalFrame ==
  \A c \in Conns :
    pc[c] = "closing" /\ want[c] \in {"stop", "force"} => sent[c] # "lost"

\* Once the child has exited the supervisor finishes: no client, idle, waiting or
\* slow, keeps it from writing the exit record.
ExitIsRecorded == done ~> (pc[Main] = "over")

\* A signal ends the run even if the guest ignores the shutdown request.
SignalEndsRun == (pc[Main] = "stop") ~> (pc[Main] = "over")

\* Every stop that was dispatched is answered.
StopIsAnswered == \A c \in Conns : (pc[c] = "stop") ~> (pc[c] = "closing")

\* What clients are promised, without the machinery (see StopContract).
Promise(c) ==
  CASE want[c] \notin {"stop", "force"} -> "idle"
    [] want[c] \in {"stop", "force"} /\ pc[c] \notin {"reply", "closing"} -> "asked"
    [] OTHER -> IF verdict[c] = "ok" THEN "stopped" ELSE "refused"

Contract == INSTANCE StopContract WITH
  Clients <- Conns,
  vm      <- IF pc[Main] = "over" THEN "recorded" ELSE IF done THEN "down" ELSE "up",
  request <- [c \in Conns |-> Promise(c)]

\* The supervised run keeps the contract.
ImplementsContract == Contract!Spec
=============================================================================

------------------------- MODULE SupervisedRunProofs -------------------------
(***************************************************************************)
(* Proofs about SupervisedRun, for any connections, attempts and states of *)
(* the guest.                                                              *)
(***************************************************************************)
EXTENDS SupervisedRun, TLAPS

-----------------------------------------------------------------------------
(* Type correctness. *)

\* The initial state of a run has the declared types.
LEMMA InitType == Init => TypeOK
<1> SUFFICES ASSUME Init PROVE TypeOK
  OBVIOUS
<1>1. Main \in Callers /\ Conns \subseteq Callers /\ \A c \in Conns : c # Main
  BY RunAssumption DEF Callers
<1>2. /\ pc \in [Callers -> ConnPCs \cup MainPCs]
      /\ pc[Main] \in MainPCs /\ \A c \in Conns : pc[c] \in ConnPCs
      /\ \A c \in Callers : pc[c] \notin {"waitRequest", "waitDone", "store"}
  BY <1>1 DEF Init, ConnPCs, MainPCs
<1>3. /\ want \in [Callers -> {"none", "status", "stop", "force"}]
      /\ my \in [Callers -> Attempts \cup {None}]
      /\ verdict \in [Callers -> Verdicts]
  BY DEF Init, Verdicts
<1>4. /\ phase \in [Attempts -> {"unused", "requesting", "accepted", "settling", "done"}]
      /\ deadline \in [Attempts -> {"live", "expired", "cancelled"}]
      /\ accepted \in [Attempts -> BOOLEAN]
      /\ attemptErr \in [Attempts -> {"none", "ok", "timeout", "error"}]
  BY DEF Init
<1>5. /\ told \in [Conns -> {"none", "acknowledged", "forcing"}]
      /\ marked \in [Conns -> BOOLEAN] /\ open \in [Conns -> BOOLEAN]
      /\ sent \in [Conns -> Verdicts \cup {"lost"}]
  BY DEF Init, Verdicts
<1> QED BY <1>1, <1>2, <1>3, <1>4, <1>5 DEF Init, TypeOK

\* A step of a caller of stopWithProgress preserves the types.
LEMMA StopStepType ==
  ASSUME TypeOK, NEW c \in Callers, StopStep(c)
  PROVE  TypeOK'
<1> USE RunAssumption DEF TypeOK, Callers, StopPCs, ConnPCs, MainPCs, Verdicts, GoTo, Tell, Return,
        childVars, flagVars, attemptVars, forceVars, callerVars, connVars, serverVars, mainVars
<1>1. CASE StopJoinsForce(c)    BY <1>1 DEF StopJoinsForce
<1>2. CASE StopJoinsAttempt(c)  BY <1>2 DEF StopJoinsAttempt
<1>3. CASE StopBeginsAttempt(c) BY <1>3 DEF StopBeginsAttempt, BeginAttempt
<1>4. CASE RequestSettled(c)    BY <1>4 DEF RequestSettled
<1>5. CASE AttemptAnswers(c)    BY <1>5 DEF AttemptAnswers
<1>6. CASE ForceOvertakes(c)    BY <1>6 DEF ForceOvertakes
<1>7. CASE CallForce(c)
  <2>1. CASE ForceStarted  BY <1>7, <2>1 DEF CallForce
  <2>2. CASE ~ForceStarted BY <1>7, <2>2 DEF CallForce
  <2> QED BY <2>1, <2>2
<1>8. CASE ForceAnswers(c)      BY <1>8 DEF ForceAnswers
<1> QED BY <1>1, <1>2, <1>3, <1>4, <1>5, <1>6, <1>7, <1>8 DEF StopStep

\* A step of runGraceful, or the deadline of its context, preserves the types.
LEMMA GracefulStepType ==
  ASSUME TypeOK, NEW a \in Attempts, GracefulStep(a) \/ DeadlineExpires(a)
  PROVE  TypeOK'
<1> USE RunAssumption
    DEF TypeOK, EndAttempt, childVars, flagVars, attemptVars, forceVars, callerVars,
        connVars, serverVars, mainVars
<1>1. CASE RequestAccepted(a)
  <2>1. accepted' \in [Attempts -> BOOLEAN] BY <1>1 DEF RequestAccepted
  <2>2. intentional' \in BOOLEAN /\ stopping' \in BOOLEAN BY <1>1 DEF RequestAccepted
  <2>3. /\ state' \in LiveStates \cup {"stopping"}
        /\ phase' \in [Attempts -> {"unused", "requesting", "accepted", "settling", "done"}]
    BY <1>1 DEF RequestAccepted
  <2>4. UNCHANGED <<childVars, graceful, deadline, attemptErr, forceVars, callerVars, connVars,
                    serverVars, mainVars>>
    BY <1>1 DEF RequestAccepted
  <2> QED BY <2>1, <2>2, <2>3, <2>4
<1>2. CASE RequestRefused(a)
  <2>1. CASE ForceStarted  BY <1>2, <2>1 DEF RequestRefused
  <2>2. CASE ~ForceStarted BY <1>2, <2>2 DEF RequestRefused
  <2> QED BY <2>1, <2>2
<1>3. CASE GuestStopped(a)      BY <1>3 DEF GuestStopped
<1>4. CASE AttemptTimesOut(a)   BY <1>4 DEF AttemptTimesOut
<1>5. CASE AttemptYields(a)     BY <1>5 DEF AttemptYields
<1>6. CASE AttemptTakesForce(a) BY <1>6 DEF AttemptTakesForce
<1>7. CASE DeadlineExpires(a)   BY <1>7 DEF DeadlineExpires
<1> QED BY <1>1, <1>2, <1>3, <1>4, <1>5, <1>6, <1>7 DEF GracefulStep

\* A step of the force goroutine or of the backend preserves the types.
LEMMA ForceStepType ==
  ASSUME TypeOK, ForceStep \/ ChildExits \/ PublishExit
  PROVE  TypeOK'
<1> USE RunAssumption DEF TypeOK, childVars, flagVars, attemptVars, forceVars, callerVars, connVars,
        serverVars, mainVars
<1>1. CASE ForceHandoff     BY <1>1 DEF ForceHandoff
<1>2. CASE ForceStopReturns BY <1>2 DEF ForceStopReturns
<1>3. CASE ForceFinishes    BY <1>3 DEF ForceFinishes
<1>4. CASE ChildExits       BY <1>4 DEF ChildExits
<1>5. CASE PublishExit      BY <1>5 DEF PublishExit
<1> QED BY <1>1, <1>2, <1>3, <1>4, <1>5 DEF ForceStep

\* A step of a connection's handler preserves the types.
LEMMA HandlerStepType ==
  ASSUME TypeOK, NEW c \in Conns,
         Accept(c) \/ Track(c) \/ Decode(c) \/ ReadFails(c) \/ HandlerStep(c)
  PROVE  TypeOK'
<1> USE RunAssumption DEF TypeOK, Callers, StopPCs, ConnPCs, MainPCs, Verdicts, GoTo,
        childVars, flagVars, attemptVars, forceVars, callerVars, connVars, serverVars, mainVars
<1>1. CASE Accept(c)        BY <1>1 DEF Accept
<1>2. CASE Track(c)         BY <1>2 DEF Track
<1>3. CASE Decode(c)
  <2>1. PICK request \in {"status", "stop", "force"} :
          /\ want' = [want EXCEPT ![c] = request]
          /\ pc' = [pc EXCEPT ![c] = IF request = "status" THEN "status" ELSE "marking"]
    BY <1>3 DEF Decode
  <2> QED BY <1>3, <2>1 DEF Decode
<1>4. CASE ReadFails(c)     BY <1>4 DEF ReadFails
<1>5. CASE Mark(c)
  <2>1. marked' \in [Conns -> BOOLEAN] BY <1>5 DEF Mark
  <2>2. /\ pc[c] = "marking" /\ pc' = [pc EXCEPT ![c] = want[c]]
        /\ UNCHANGED <<childVars, flagVars, attemptVars, forceVars, want, my, verdict, told,
                       open, sent, serverVars, mainVars>>
    BY <1>5 DEF Mark
  <2> QED BY <2>1, <2>2
<1>6. CASE StatusCached(c)  BY <1>6 DEF StatusCached
<1>7. CASE StatusQueried(c) BY <1>7 DEF StatusQueried
<1>8. CASE StatusStored(c)  BY <1>8 DEF StatusStored
<1>9. CASE Reply(c)         BY <1>9 DEF Reply
<1>10. CASE Untrack(c)      BY <1>10 DEF Untrack
<1> QED BY <1>1, <1>2, <1>3, <1>4, <1>5, <1>6, <1>7, <1>8, <1>9, <1>10 DEF HandlerStep

\* A step of the main goroutine or of the serve loop preserves the types.
LEMMA MainStepType ==
  ASSUME TypeOK, MainStep \/ MainCancelled \/ MainSignalled \/ ServeReturns
  PROVE  TypeOK'
<1> USE RunAssumption DEF TypeOK, Callers, StopPCs, ConnPCs, MainPCs, Verdicts, GoTo, MainGoes,
        MainTearsDown,
        childVars, flagVars, attemptVars, forceVars, callerVars, connVars, serverVars, mainVars
<1>1. CASE MainSeesExit   BY <1>1 DEF MainSeesExit
<1>2. CASE StopReturned   BY <1>2 DEF StopReturned
<1>3. CASE ExitSeen       BY <1>3 DEF ExitSeen
<1>4. CASE CloseListener
  <2>1. listening' \in BOOLEAN BY <1>4 DEF CloseListener
  <2>2. MainTearsDown("closeListener", "waitServe") /\ UNCHANGED connVars
    BY <1>4 DEF CloseListener
  <2> QED BY <2>1, <2>2
<1>5. CASE ServeJoined    BY <1>5 DEF ServeJoined
<1>6. CASE CloseNonStopConnections
  <2>1. open' \in [Conns -> BOOLEAN] BY <1>6 DEF CloseNonStopConnections
  <2>2. open' \in [Conns -> BOOLEAN] => TypeOK' BY <1>6 DEF CloseNonStopConnections
  <2> QED BY <2>1, <2>2
<1>7. CASE HandlersJoined BY <1>7 DEF HandlersJoined
<1>8. CASE Finalize       BY <1>8 DEF Finalize, TerminalOutcome
<1>9. CASE MainCancelled  BY <1>9 DEF MainCancelled
<1>10. CASE MainSignalled BY <1>10 DEF MainSignalled
<1>11. CASE ServeReturns  BY <1>11 DEF ServeReturns
<1> QED BY <1>1, <1>2, <1>3, <1>4, <1>5, <1>6, <1>7, <1>8, <1>9, <1>10, <1>11 DEF MainStep

\* Every step preserves the types.
LEMMA NextType == TypeOK /\ [Next]_vars => TypeOK'
<1> SUFFICES ASSUME TypeOK, [Next]_vars PROVE TypeOK'
  OBVIOUS
<1>1. CASE UNCHANGED vars
  BY <1>1 DEF TypeOK, vars, childVars, flagVars, attemptVars, forceVars, callerVars, connVars,
              serverVars, mainVars
<1>2. CASE Next
  BY <1>2, StopStepType, GracefulStepType, ForceStepType, HandlerStepType, MainStepType DEF Next
<1> QED BY <1>1, <1>2

\* The types declared for the fields of supervisedRun, and for where each goroutine
\* stands, hold for ever.
THEOREM TypeCorrect == Spec => []TypeOK
<1>1. Init => TypeOK BY InitType
<1>2. TypeOK /\ [Next]_vars => TypeOK' BY NextType
<1> QED BY <1>1, <1>2, PTL DEF Spec

-----------------------------------------------------------------------------
(* What each actor leaves alone. *)

\* A caller of stopWithProgress.
LEMMA StopStepFrame ==
  ASSUME NEW c \in Callers, StopStep(c)
  PROVE  UNCHANGED <<childVars, accepted, forceErr, want, connVars, serverVars, mainVars>>
BY DEF StopStep, StopJoinsForce, StopJoinsAttempt, StopBeginsAttempt, BeginAttempt, RequestSettled,
       AttemptAnswers, ForceOvertakes, CallForce, ForceAnswers, attemptVars, forceVars, callerVars

\* runGraceful and its deadline.
LEMMA GracefulStepFrame ==
  ASSUME NEW a \in Attempts, GracefulStep(a) \/ DeadlineExpires(a)
  PROVE  UNCHANGED <<childVars, forceVars, callerVars, connVars, serverVars, mainVars>>
BY DEF GracefulStep, RequestAccepted, RequestRefused, GuestStopped, AttemptTimesOut, AttemptYields,
       AttemptTakesForce, EndAttempt, DeadlineExpires

\* The force goroutine and the backend.
LEMMA ForceStepFrame ==
  ASSUME ForceStep \/ ChildExits \/ PublishExit
  PROVE  UNCHANGED <<flagVars, attemptVars, forceWaits, callerVars, connVars, serverVars,
                     mainVars>>
BY DEF ForceStep, ForceHandoff, ForceStopReturns, ForceFinishes, ChildExits, PublishExit, forceVars

\* The handler of a connection.
LEMMA HandlerStepFrame ==
  ASSUME NEW c \in Conns,
         Accept(c) \/ Track(c) \/ Decode(c) \/ ReadFails(c) \/ HandlerStep(c)
  PROVE  UNCHANGED <<childVars, stopping, intentional, attemptVars, forceVars, my, listening,
                     mainVars>>
BY DEF HandlerStep, Accept, Track, Decode, ReadFails, Mark, StatusCached, StatusQueried,
       StatusStored, Reply, Untrack, flagVars, serverVars

\* The main goroutine and the serve loop.
LEMMA MainStepFrame ==
  ASSUME MainStep \/ MainCancelled \/ MainSignalled \/ ServeReturns
  PROVE  UNCHANGED <<childVars, flagVars, attemptVars, forceVars, my, verdict, told>>
BY DEF MainStep, MainSeesExit, MainCancelled, MainSignalled, StopReturned, ExitSeen, CloseListener,
       ServeJoined, CloseNonStopConnections, HandlersJoined, Finalize, MainTearsDown, ServeReturns,
       callerVars

-----------------------------------------------------------------------------
(* The handoff between the graceful request and the force. *)

\* The only request in flight is that of the shared attempt, which the force has
\* waited for before it goes on.
Handoff ==
  /\ \A a \in Attempts : phase[a] = "requesting" => graceful = a
  /\ force # "idle" => forceWaits = graceful
  /\ force \in {"running", "reap", "done"} => \A a \in Attempts : phase[a] # "requesting"

\* Every step keeps the handoff.
LEMMA HandoffInductive == TypeOK /\ Handoff /\ [Next]_vars => Handoff'
<1> SUFFICES ASSUME TypeOK, Handoff, [Next]_vars PROVE Handoff'
  OBVIOUS
<1>1. ASSUME UNCHANGED <<phase, graceful, force, forceWaits>> PROVE Handoff'
  BY <1>1 DEF Handoff
<1>2. ASSUME NEW c \in Callers, StopStep(c) PROVE Handoff'
  <2>1. CASE StopBeginsAttempt(c)
    BY <2>1, RunAssumption
    DEF StopBeginsAttempt, BeginAttempt, ForceStarted, Handoff, TypeOK, forceVars
  <2>2. CASE AttemptAnswers(c)
    <3>1. my[c] \in Attempts BY <2>2 DEF AttemptAnswers, TypeOK
    <3>2. \A a \in Attempts : phase'[a] = "requesting" => phase[a] = "requesting"
      BY <2>2, <3>1 DEF AttemptAnswers, TypeOK
    <3>3. UNCHANGED <<graceful, force, forceWaits>> BY <2>2 DEF AttemptAnswers, forceVars
    <3> QED BY <3>2, <3>3 DEF Handoff
  <2>3. CASE CallForce(c)
    <3>1. UNCHANGED <<phase, graceful>> BY <2>3 DEF CallForce
    <3>2. \/ UNCHANGED <<force, forceWaits>>
          \/ force' = "handoff" /\ forceWaits' = graceful
      BY <2>3 DEF CallForce
    <3> QED BY <3>1, <3>2 DEF Handoff
  <2>4. CASE \/ StopJoinsForce(c) \/ StopJoinsAttempt(c) \/ RequestSettled(c)
             \/ ForceOvertakes(c) \/ ForceAnswers(c)
    BY <2>4, <1>1 DEF StopJoinsForce, StopJoinsAttempt, RequestSettled, ForceOvertakes,
                      ForceAnswers, attemptVars, forceVars
  <2> QED BY <1>2, <2>1, <2>2, <2>3, <2>4 DEF StopStep
<1>3. ASSUME NEW a \in Attempts, GracefulStep(a) \/ DeadlineExpires(a) PROVE Handoff'
  <2>1. UNCHANGED <<force, forceWaits>> BY <1>3, GracefulStepFrame DEF forceVars
  <2>2. \A b \in Attempts : phase'[b] = "requesting" =>
          phase[b] = "requesting" /\ (b = a => UNCHANGED phase)
    BY <1>3 DEF GracefulStep, RequestAccepted, RequestRefused, GuestStopped, AttemptTimesOut,
                AttemptYields, AttemptTakesForce, EndAttempt, DeadlineExpires, TypeOK
  <2>3. \/ UNCHANGED graceful
        \/ force = "idle" /\ graceful = a /\ phase[a] = "requesting" /\ phase'[a] = "done"
    BY <1>3 DEF GracefulStep, RequestAccepted, RequestRefused, GuestStopped, AttemptTimesOut,
                AttemptYields, AttemptTakesForce, EndAttempt, DeadlineExpires, TypeOK, ForceStarted
  <2> QED BY <2>1, <2>2, <2>3 DEF Handoff
<1>4. CASE ForceStep \/ ChildExits \/ PublishExit
  <2>1. UNCHANGED <<phase, graceful, forceWaits>> BY <1>4, ForceStepFrame DEF attemptVars
  <2>2. CASE ForceHandoff
    BY <2>1, <2>2, RunAssumption DEF ForceHandoff, Handoff, RequestClosed, TypeOK
  <2>3. CASE ForceStopReturns \/ ForceFinishes
    BY <2>1, <2>3 DEF ForceStopReturns, ForceFinishes, Handoff
  <2>4. CASE ChildExits \/ PublishExit
    BY <2>1, <2>4 DEF ChildExits, PublishExit, Handoff, forceVars
  <2> QED BY <1>4, <2>2, <2>3, <2>4 DEF ForceStep
<1>5. ASSUME NEW c \in Conns,
             Accept(c) \/ Track(c) \/ Decode(c) \/ ReadFails(c) \/ HandlerStep(c)
      PROVE Handoff'
  BY <1>1, <1>5, HandlerStepFrame DEF attemptVars, forceVars
<1>6. CASE MainStep \/ MainCancelled \/ MainSignalled \/ ServeReturns
  BY <1>1, <1>6, MainStepFrame DEF attemptVars, forceVars
<1>7. CASE UNCHANGED vars
  BY <1>1, <1>7 DEF vars, attemptVars, forceVars
<1> QED BY <1>2, <1>3, <1>4, <1>5, <1>6, <1>7 DEF Next

\* The handoff holds throughout a run.
LEMMA HandoffInvariant == Spec => []Handoff
<1>1. Init => Handoff BY DEF Init, Handoff
<1>2. TypeOK /\ Handoff /\ [Next]_vars => Handoff' BY HandoffInductive
<1> QED BY <1>1, <1>2, TypeCorrect, PTL DEF Spec

\* However many clients and signals ask for a stop, at most one shutdown request is
\* with the backend.
THEOREM OneRequest == Spec => []OneRequestInFlight
<1>1. Handoff => OneRequestInFlight BY DEF Handoff, OneRequestInFlight
<1> QED BY <1>1, HandoffInvariant, PTL

\* ForceStop never runs beside a shutdown request.
THEOREM HandoffIsSafe == Spec => []HandoffSafe
<1>1. Handoff => HandoffSafe BY DEF Handoff, HandoffSafe
<1> QED BY <1>1, HandoffInvariant, PTL

-----------------------------------------------------------------------------
(* A stop reported successful. *)

\* Whoever reports success (the force, an attempt, or a caller who was answered)
\* does so once run.done is closed.
Reaped ==
  /\ force = "done" => done
  /\ \A a \in Attempts : phase[a] = "done" /\ attemptErr[a] = "ok" => done
  /\ \A c \in Callers : verdict[c] = "ok" => done

\* Every step keeps Reaped.
LEMMA ReapedInductive == TypeOK /\ Reaped /\ [Next]_vars => Reaped'
<1> SUFFICES ASSUME TypeOK, Reaped, [Next]_vars PROVE Reaped'
  OBVIOUS
<1>1. ASSUME UNCHANGED <<done, force, phase, attemptErr, verdict>> PROVE Reaped'
  BY <1>1 DEF Reaped
<1>2. ASSUME NEW c \in Callers, StopStep(c) PROVE Reaped'
  <2>1. UNCHANGED done BY <1>2, StopStepFrame DEF childVars
  <2>2. force' = "done" => force = "done"
    BY <1>2 DEF StopStep, StopJoinsForce, StopJoinsAttempt, StopBeginsAttempt, RequestSettled,
                AttemptAnswers, ForceOvertakes, CallForce, ForceAnswers, forceVars
  <2>3. \A a \in Attempts : phase'[a] = "done" /\ attemptErr'[a] = "ok"
                            => phase[a] = "done" /\ attemptErr[a] = "ok"
    <3>1. CASE StopBeginsAttempt(c)
      BY <3>1 DEF StopBeginsAttempt, BeginAttempt, TypeOK
    <3>2. CASE AttemptAnswers(c)
      <4>1. my[c] \in Attempts BY <3>2 DEF AttemptAnswers, TypeOK
      <4> QED BY <4>1, <3>2 DEF AttemptAnswers, TypeOK
    <3>3. CASE ~StopBeginsAttempt(c) /\ ~AttemptAnswers(c)
      <4>1. UNCHANGED <<phase, attemptErr>>
        BY <1>2, <3>3 DEF StopStep, StopJoinsForce, StopJoinsAttempt, RequestSettled,
                          ForceOvertakes, CallForce, ForceAnswers, attemptVars
      <4> QED BY <4>1
    <3> QED BY <3>1, <3>2, <3>3
  <2>4. \A d \in Callers : verdict'[d] = "ok" => verdict[d] = "ok" \/ done
    <3>1. CASE AttemptAnswers(c)
      <4>1. my[c] \in Attempts BY <3>1 DEF AttemptAnswers, TypeOK
      <4> QED BY <4>1, <3>1 DEF AttemptAnswers, Reaped, TypeOK
    <3>2. CASE ForceAnswers(c)
      BY <3>2 DEF ForceAnswers, ForceDone, Reaped, TypeOK
    <3>3. CASE ~AttemptAnswers(c) /\ ~ForceAnswers(c)
      <4>1. UNCHANGED verdict
        BY <1>2, <3>3 DEF StopStep, StopJoinsForce, StopJoinsAttempt, StopBeginsAttempt,
                          RequestSettled, ForceOvertakes, CallForce
      <4> QED BY <4>1
    <3> QED BY <3>1, <3>2, <3>3
  <2> QED BY <2>1, <2>2, <2>3, <2>4 DEF Reaped
<1>3. ASSUME NEW a \in Attempts, GracefulStep(a) \/ DeadlineExpires(a) PROVE Reaped'
  <2>1. UNCHANGED <<done, force, verdict>>
    BY <1>3, GracefulStepFrame DEF childVars, forceVars, callerVars
  <2>2. \A b \in Attempts : phase'[b] = "done" /\ attemptErr'[b] = "ok"
                            => (phase[b] = "done" /\ attemptErr[b] = "ok") \/ done
    <3>1. CASE RequestAccepted(a) \/ AttemptYields(a) \/ DeadlineExpires(a)
      BY <3>1 DEF RequestAccepted, AttemptYields, DeadlineExpires, TypeOK
    <3>2. CASE RequestRefused(a)
      <4>1. CASE ForceStarted  BY <3>2, <4>1 DEF RequestRefused, TypeOK
      <4>2. CASE ~ForceStarted BY <3>2, <4>2 DEF RequestRefused, TypeOK
      <4> QED BY <4>1, <4>2
    <3>3. CASE GuestStopped(a) BY <3>3 DEF GuestStopped, EndAttempt, TypeOK
    <3>4. CASE AttemptTimesOut(a) BY <3>4 DEF AttemptTimesOut, EndAttempt, TypeOK
    <3>5. CASE AttemptTakesForce(a)
      BY <3>5 DEF AttemptTakesForce, EndAttempt, ForceDone, Reaped, TypeOK
    <3> QED BY <1>3, <3>1, <3>2, <3>3, <3>4, <3>5 DEF GracefulStep
  <2> QED BY <2>1, <2>2 DEF Reaped
<1>4. CASE ForceStep \/ ChildExits \/ PublishExit
  <2>1. UNCHANGED <<phase, attemptErr, verdict>>
    BY <1>4, ForceStepFrame DEF attemptVars, callerVars
  <2>2. done => done'
    BY <1>4 DEF ForceStep, ForceHandoff, ForceStopReturns, ForceFinishes, ChildExits, PublishExit,
                childVars
  <2>3. force' = "done" => force = "done" \/ done
    BY <1>4 DEF ForceStep, ForceHandoff, ForceStopReturns, ForceFinishes, ChildExits, PublishExit,
                forceVars
  <2> QED BY <2>1, <2>2, <2>3 DEF Reaped
<1>5. ASSUME NEW c \in Conns,
             Accept(c) \/ Track(c) \/ Decode(c) \/ ReadFails(c) \/ HandlerStep(c)
      PROVE Reaped'
  <2>1. UNCHANGED <<done, force, phase, attemptErr>>
    BY <1>5, HandlerStepFrame DEF childVars, attemptVars, forceVars
  <2>2. \A d \in Callers : verdict'[d] = "ok" => verdict[d] = "ok"
    <3>1. CASE ReadFails(c) BY <3>1 DEF ReadFails, TypeOK
    <3>2. CASE StatusCached(c)
      <4>1. state # "ok" BY RunAssumption DEF TypeOK
      <4> QED BY <3>2, <4>1 DEF StatusCached, TypeOK
    <3>3. CASE StatusQueried(c)
      BY <3>3, RunAssumption DEF StatusQueried, TypeOK
    <3>4. CASE StatusStored(c)
      <4>1. state' # "ok" BY <3>4, RunAssumption DEF StatusStored, TypeOK
      <4> QED BY <3>4, <4>1 DEF StatusStored, TypeOK
    <3>5. CASE Untrack(c) BY <3>5 DEF Untrack, TypeOK
    <3>6. CASE Accept(c) \/ Track(c) \/ Decode(c) \/ Mark(c) \/ Reply(c)
      <4>1. UNCHANGED verdict BY <3>6 DEF Accept, Track, Decode, Mark, Reply
      <4> QED BY <4>1
    <3> QED BY <1>5, <3>1, <3>2, <3>3, <3>4, <3>5, <3>6 DEF HandlerStep
  <2> QED BY <2>1, <2>2 DEF Reaped
<1>6. CASE MainStep \/ MainCancelled \/ MainSignalled \/ ServeReturns
  BY <1>1, <1>6, MainStepFrame DEF childVars, attemptVars, forceVars
<1>7. CASE UNCHANGED vars
  BY <1>1, <1>7 DEF vars, childVars, attemptVars, forceVars, callerVars
<1> QED BY <1>2, <1>3, <1>4, <1>5, <1>6, <1>7 DEF Next

\* Nobody reports success before the child was reaped.
LEMMA ReapedInvariant == Spec => []Reaped
<1>1. Init => Reaped BY DEF Init, Reaped
<1>2. TypeOK /\ Reaped /\ [Next]_vars => Reaped' BY ReapedInductive
<1> QED BY <1>1, <1>2, TypeCorrect, PTL DEF Spec

\* A stop, of whatever caller and along whatever path, is reported successful only
\* after the child was reaped.
THEOREM SuccessIsExit == Spec => []SuccessMeansExited
<1>1. Reaped => SuccessMeansExited BY DEF Reaped, SuccessMeansExited
<1> QED BY <1>1, ReapedInvariant, PTL
=============================================================================

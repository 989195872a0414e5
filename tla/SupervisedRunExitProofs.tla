----------------------- MODULE SupervisedRunExitProofs -----------------------
(***************************************************************************)
(* Proofs about how a supervised run ends: what the stop flags mean, that  *)
(* nothing is left running when the exit record is written, and when that  *)
(* record may say 0.                                                       *)
(***************************************************************************)
EXTENDS SupervisedRunProofs

-----------------------------------------------------------------------------
(* The flags of a stop that is under way. *)

\* A stop is under way exactly when a force has started or the request of the shared
\* attempt was accepted, which it then stays.
StopFlags ==
  /\ stopping <=> state = "stopping"
  /\ ForceStarted => stopping
  /\ \A a \in Attempts :
       accepted[a] => stopping /\ graceful = a /\ phase[a] \notin {"unused", "requesting"}
  /\ intentional => ForceStarted \/ (graceful # None /\ accepted[graceful])
  /\ \A c \in Conns : told[c] = "acknowledged" => stopping

\* Every step keeps the meaning of the flags.
LEMMA StopFlagsInductive == TypeOK /\ Handoff /\ StopFlags /\ [Next]_vars => StopFlags'
<1> SUFFICES ASSUME TypeOK, Handoff, StopFlags, [Next]_vars PROVE StopFlags'
  OBVIOUS
<1> USE DEF ForceStarted
<1>1. ASSUME UNCHANGED <<stopping, state, intentional, force, accepted, graceful, phase, told>>
      PROVE StopFlags'
  BY <1>1 DEF StopFlags
<1>2. ASSUME NEW c \in Callers, StopStep(c) PROVE StopFlags'
  <2>1. UNCHANGED accepted BY <1>2, StopStepFrame
  <2>2. \A d \in Conns : told'[d] = "acknowledged" => stopping
    <3>1. \/ UNCHANGED told
          \/ \E stage \in {"forcing", "acknowledged"} :
               /\ stage = "acknowledged" => accepted[my[c]] /\ my[c] \in Attempts
               /\ Tell(c, stage)
      BY <1>2 DEF StopStep, StopJoinsForce, StopJoinsAttempt, StopBeginsAttempt, RequestSettled,
                  AttemptAnswers, ForceOvertakes, CallForce, ForceAnswers, TypeOK
    <3> QED BY <3>1 DEF Tell, StopFlags, TypeOK
  <2>3. CASE StopBeginsAttempt(c)
    <3>1. UNCHANGED <<stopping, state, intentional, force>>
      BY <2>3 DEF StopBeginsAttempt, flagVars, forceVars
    <3>2. \A a \in Attempts : ~accepted[a]
      BY <2>3, RunAssumption DEF StopBeginsAttempt, StopFlags
    <3>3. ~intentional BY <3>2, <2>3 DEF StopBeginsAttempt, StopFlags
    <3> QED BY <2>1, <2>2, <3>1, <3>2, <3>3 DEF StopFlags
  <2>4. CASE AttemptAnswers(c)
    <3>1. UNCHANGED <<stopping, state, intentional, force, graceful>>
      BY <2>4 DEF AttemptAnswers, flagVars, forceVars
    <3>2. my[c] \in Attempts BY <2>4 DEF AttemptAnswers, TypeOK
    <3>3. \A a \in Attempts : phase'[a] # phase[a] => a = my[c] /\ graceful # a
      BY <2>4, <3>2 DEF AttemptAnswers, LastReference, TypeOK
    <3>4. \A a \in Attempts :
            accepted'[a] => /\ stopping' /\ graceful' = a
                            /\ phase'[a] \notin {"unused", "requesting"}
      BY <2>1, <3>1, <3>3 DEF StopFlags
    <3> QED BY <2>1, <2>2, <3>1, <3>4 DEF StopFlags
  <2>5. CASE CallForce(c)
    <3>1. UNCHANGED <<phase, graceful>> BY <2>5 DEF CallForce
    <3>2. CASE ForceStarted
      <4>1. UNCHANGED <<flagVars, force>> BY <2>5, <3>2 DEF CallForce
      <4> QED BY <2>1, <2>2, <3>1, <4>1 DEF StopFlags, flagVars
    <3>3. CASE ~ForceStarted
      <4>1. stopping' BY <2>5, <3>3 DEF CallForce
      <4>2. state' = "stopping" /\ force' = "handoff" BY <2>5, <3>3 DEF CallForce
      <4> QED BY <2>1, <2>2, <3>1, <4>1, <4>2 DEF StopFlags
    <3> QED BY <3>2, <3>3
  <2>6. CASE \/ StopJoinsForce(c) \/ StopJoinsAttempt(c) \/ RequestSettled(c)
             \/ ForceOvertakes(c) \/ ForceAnswers(c)
    <3>1. UNCHANGED <<stopping, state, intentional, force, graceful, phase>>
      BY <2>6 DEF StopJoinsForce, StopJoinsAttempt, RequestSettled, ForceOvertakes, ForceAnswers,
                  flagVars, attemptVars, forceVars
    <3> QED BY <2>1, <2>2, <3>1 DEF StopFlags
  <2> QED BY <1>2, <2>3, <2>4, <2>5, <2>6 DEF StopStep
<1>3. ASSUME NEW a \in Attempts, GracefulStep(a) \/ DeadlineExpires(a) PROVE StopFlags'
  <2>1. UNCHANGED <<force, told>> BY <1>3, GracefulStepFrame DEF forceVars, callerVars
  <2>2. CASE RequestAccepted(a)
    <3>1. graceful = a /\ graceful' = a BY <2>2 DEF RequestAccepted, Handoff
    <3>2. accepted' = [accepted EXCEPT ![a] = TRUE] BY <2>2 DEF RequestAccepted
    <3>3. /\ phase'[a] \in {"accepted", "settling"}
          /\ \A b \in Attempts : b # a => phase'[b] = phase[b]
      BY <2>2 DEF RequestAccepted, TypeOK
    <3>4. stopping' /\ state' = "stopping"
      <4>1. CASE ForceStarted BY <2>2, <4>1 DEF RequestAccepted, StopFlags, flagVars
      <4>2. CASE ~ForceStarted BY <2>2, <4>2 DEF RequestAccepted
      <4> QED BY <4>1, <4>2
    <3>5. \A b \in Attempts : accepted'[b] => b = a \/ accepted[b]
      BY <3>2 DEF TypeOK
    <3>6. \A b \in Attempts :
            accepted'[b] => stopping' /\ graceful' = b /\ phase'[b] \notin {"unused", "requesting"}
      BY <3>1, <3>3, <3>4, <3>5 DEF StopFlags
    <3>7. accepted'[graceful'] BY <3>1, <3>2 DEF TypeOK
    <3>8. graceful' # None BY <3>1, RunAssumption
    <3> QED BY <2>1, <3>4, <3>6, <3>7, <3>8 DEF StopFlags
  <2>3. CASE RequestRefused(a)
    <3>1. UNCHANGED <<stopping, state, intentional, accepted>>
      BY <2>3 DEF RequestRefused, flagVars
    <3>2. phase[a] = "requesting" /\ graceful = a BY <2>3 DEF RequestRefused, Handoff
    <3>3. \A b \in Attempts : b # a => phase'[b] = phase[b] BY <2>3 DEF RequestRefused, TypeOK
    <3>4. \A b \in Attempts : ~accepted[b] BY <3>2 DEF StopFlags
    <3>5. ~intentional \/ ForceStarted BY <3>2, <3>4 DEF StopFlags
    <3> QED BY <2>1, <3>1, <3>4, <3>5 DEF StopFlags
  <2>4. CASE \/ GuestStopped(a) \/ AttemptTimesOut(a) \/ AttemptYields(a)
             \/ AttemptTakesForce(a) \/ DeadlineExpires(a)
    <3>1. UNCHANGED <<stopping, state, intentional, accepted, graceful>>
      BY <2>4 DEF GuestStopped, AttemptTimesOut, AttemptYields, AttemptTakesForce, EndAttempt,
                  DeadlineExpires, flagVars
    <3>2. \A b \in Attempts : phase'[b] \in {"unused", "requesting"} => phase'[b] = phase[b]
      BY <2>4 DEF GuestStopped, AttemptTimesOut, AttemptYields, AttemptTakesForce, EndAttempt,
                  DeadlineExpires, TypeOK
    <3> QED BY <2>1, <3>1, <3>2 DEF StopFlags
  <2> QED BY <1>3, <2>2, <2>3, <2>4 DEF GracefulStep
<1>4. CASE ForceStep \/ ChildExits \/ PublishExit
  <2>1. UNCHANGED <<stopping, state, intentional, accepted, graceful, phase, told>>
    BY <1>4, ForceStepFrame DEF flagVars, attemptVars, callerVars
  <2>2. force' = "idle" <=> force = "idle"
    BY <1>4 DEF ForceStep, ForceHandoff, ForceStopReturns, ForceFinishes, ChildExits, PublishExit,
                forceVars
  <2> QED BY <2>1, <2>2 DEF StopFlags
<1>5. ASSUME NEW c \in Conns,
             Accept(c) \/ Track(c) \/ Decode(c) \/ ReadFails(c) \/ HandlerStep(c)
      PROVE StopFlags'
  <2>1. UNCHANGED <<stopping, intentional, force, accepted, graceful, phase>>
    BY <1>5, HandlerStepFrame DEF attemptVars, forceVars
  <2>2. \A d \in Conns : told'[d] = "acknowledged" => told[d] = "acknowledged"
    BY <1>5 DEF HandlerStep, Accept, Track, Decode, ReadFails, Mark, StatusCached, StatusQueried,
                StatusStored, Reply, Untrack, TypeOK
  <2>3. stopping' <=> state' = "stopping"
    <3>1. CASE StatusStored(c)
      <4>1. verdict[c] # "stopping" BY <3>1, RunAssumption DEF StatusStored, TypeOK
      <4> QED BY <2>1, <3>1, <4>1 DEF StatusStored, StopFlags
    <3>2. CASE ~StatusStored(c)
      <4>1. UNCHANGED state
        BY <1>5, <3>2 DEF HandlerStep, Accept, Track, Decode, ReadFails, Mark, StatusCached,
                          StatusQueried, Reply, Untrack, flagVars
      <4> QED BY <2>1, <4>1 DEF StopFlags
    <3> QED BY <3>1, <3>2
  <2> QED BY <2>1, <2>2, <2>3 DEF StopFlags
<1>6. CASE MainStep \/ MainCancelled \/ MainSignalled \/ ServeReturns
  BY <1>1, <1>6, MainStepFrame DEF flagVars, attemptVars, forceVars
<1>7. CASE UNCHANGED vars
  BY <1>1, <1>7 DEF vars, flagVars, attemptVars, forceVars, callerVars
<1> QED BY <1>2, <1>3, <1>4, <1>5, <1>6, <1>7 DEF Next

\* The flags mean what StopFlags says throughout a run.
LEMMA StopFlagsInvariant == Spec => []StopFlags
<1>1. Init => StopFlags BY RunAssumption DEF Init, StopFlags, ForceStarted
<1>2. TypeOK /\ Handoff /\ StopFlags /\ [Next]_vars => StopFlags' BY StopFlagsInductive
<1> QED BY <1>1, <1>2, TypeCorrect, HandoffInvariant, PTL DEF Spec

\* However status queries and stops interleave, the reported state is "stopping"
\* exactly while a stop is under way.
THEOREM StoppingIsSticky == Spec => []StoppingSticks
<1>1. StopFlags => StoppingSticks BY DEF StopFlags, StoppingSticks
<1> QED BY <1>1, StopFlagsInvariant, PTL

-----------------------------------------------------------------------------
(* Nothing is left running at the end. *)

\* The serve loop has returned for good, a request in flight has a caller that waits
\* for it, and after handlers.Wait and completedForceError nobody can start anything.
Quiet ==
  /\ pc[Main] \in {"closeConns", "waitHandlers", "finalize", "over"} => serving = "returned"
  /\ \A c \in Conns : serving = c => pc[c] = "accepted"
  /\ \A a \in Attempts :
       phase[a] = "requesting" => \E c \in Callers : pc[c] = "waitRequest" /\ my[c] = a
  /\ pc[Main] \in {"finalize", "over"} => Handlers = {} /\ force \in {"idle", "done"}

\* At the end no caller is in stopWithProgress and no handler runs.
LEMMA NobodyLeft ==
  ASSUME TypeOK, Quiet, pc[Main] \in {"finalize", "over"}
  PROVE  /\ \A c \in Callers : ~StopStep(c)
         /\ \A c \in Conns : ~(Accept(c) \/ Track(c) \/ Decode(c) \/ ReadFails(c) \/ HandlerStep(c))
         /\ ~ForceStep
         /\ \A a \in Attempts : phase[a] # "requesting"
<1>1. \A c \in Conns : pc[c] \in {"idle", "accepted"} BY DEF Quiet, Handlers
<1>2. serving = "returned" /\ force \in {"idle", "done"} BY DEF Quiet
<1>3. \A c \in Callers : pc[c] \notin {"stop", "force", "waitRequest", "waitDone", "waitForce"}
  BY <1>1 DEF Callers
<1>4. \A c \in Callers : ~StopStep(c)
  BY <1>3 DEF StopStep, StopJoinsForce, StopJoinsAttempt, StopBeginsAttempt, RequestSettled,
              AttemptAnswers, ForceOvertakes, CallForce, ForceAnswers
<1>5. \A c \in Conns : ~Accept(c) /\ ~Track(c)
  BY <1>2, RunAssumption DEF Accept, Track
<1>6. \A c \in Conns : ~Decode(c) /\ ~ReadFails(c) /\ ~HandlerStep(c)
  BY <1>1 DEF Decode, ReadFails, HandlerStep, Mark, StatusCached, StatusQueried, StatusStored,
              Reply, Untrack
<1>7. ~ForceStep BY <1>2 DEF ForceStep, ForceHandoff, ForceStopReturns, ForceFinishes
<1>8. \A a \in Attempts : phase[a] # "requesting" BY <1>3 DEF Quiet
<1> QED BY <1>4, <1>5, <1>6, <1>7, <1>8

\* Every step keeps the run quiet at its end.
LEMMA QuietInductive == TypeOK /\ Handoff /\ Quiet /\ [Next]_vars => Quiet'
<1> SUFFICES ASSUME TypeOK, Handoff, Quiet, [Next]_vars PROVE Quiet'
  OBVIOUS
<1>1. ASSUME UNCHANGED <<pc, serving, phase, my, force>> PROVE Quiet'
  BY <1>1 DEF Quiet, Handlers
<1>2. ASSUME NEW c \in Callers, StopStep(c) PROVE Quiet'
  <2>1. pc[Main] \notin {"finalize", "over"} BY <1>2, NobodyLeft
  <2>2. pc[c] \in StopPCs /\ \E to \in StopPCs \cup {Return(c)} : pc' = [pc EXCEPT ![c] = to]
    BY <1>2 DEF StopStep, StopJoinsForce, StopJoinsAttempt, StopBeginsAttempt, RequestSettled,
                AttemptAnswers, ForceOvertakes, CallForce, ForceAnswers, GoTo, StopPCs
  <2>3. pc'[Main] \notin {"closeConns", "waitHandlers", "finalize", "over"} \/ pc'[Main] = pc[Main]
    BY <2>2 DEF Return, StopPCs, Callers, TypeOK
  <2>4. UNCHANGED serving BY <1>2, StopStepFrame DEF serverVars
  <2>5. \A a \in Attempts :
          phase'[a] = "requesting" => \E d \in Callers : pc'[d] = "waitRequest" /\ my'[d] = a
    <3>1. CASE StopBeginsAttempt(c)
      <4>1. PICK b \in Attempts : /\ phase' = [phase EXCEPT ![b] = "requesting"]
                                 /\ my' = [my EXCEPT ![c] = b]
        BY <3>1 DEF StopBeginsAttempt, BeginAttempt
      <4>2. pc' = [pc EXCEPT ![c] = "waitRequest"] /\ pc[c] = "stop"
        BY <3>1 DEF StopBeginsAttempt, GoTo
      <4>3. pc'[c] = "waitRequest" /\ my'[c] = b BY <4>1, <4>2 DEF TypeOK
      <4>4. ASSUME NEW a \in Attempts, phase'[a] = "requesting", a # b
            PROVE  \E d \in Callers : pc'[d] = "waitRequest" /\ my'[d] = a
        <5>1. phase[a] = "requesting" BY <4>1, <4>4 DEF TypeOK
        <5>2. PICK d \in Callers : pc[d] = "waitRequest" /\ my[d] = a BY <5>1 DEF Quiet
        <5>3. d # c BY <5>2, <4>2
        <5> QED BY <5>2, <5>3, <4>1, <4>2 DEF TypeOK
      <4> QED BY <4>3, <4>4
    <3>2. CASE ForceOvertakes(c)
      <4>1. \A a \in Attempts : phase'[a] # "requesting"
        BY <3>2 DEF ForceOvertakes, ForceDone, Handoff, attemptVars
      <4> QED BY <4>1
    <3>3. CASE ~StopBeginsAttempt(c) /\ ~ForceOvertakes(c)
      <4>1. SUFFICES ASSUME NEW a \in Attempts, phase'[a] = "requesting"
                     PROVE  \E d \in Callers : pc'[d] = "waitRequest" /\ my'[d] = a
        OBVIOUS
      <4>2. phase[a] = "requesting"
        <5>1. CASE AttemptAnswers(c)
          <6>1. my[c] \in Attempts BY <5>1 DEF AttemptAnswers, TypeOK
          <6> QED BY <4>1, <5>1, <6>1 DEF AttemptAnswers, TypeOK
        <5>2. CASE ~AttemptAnswers(c)
          <6>1. UNCHANGED phase
            BY <1>2, <3>3, <5>2 DEF StopStep, StopJoinsForce, StopJoinsAttempt, RequestSettled,
                                    CallForce, ForceAnswers, attemptVars
          <6> QED BY <4>1, <6>1
        <5> QED BY <5>1, <5>2
      <4>3. PICK d \in Callers : pc[d] = "waitRequest" /\ my[d] = a BY <4>2 DEF Quiet
      <4>4. d # c
        BY <4>2, <4>3, <1>2, <3>3 DEF StopStep, StopJoinsForce, StopJoinsAttempt, RequestSettled,
              RequestClosed, AttemptAnswers, CallForce, ForceAnswers
      <4>5. my'[d] = my[d]
        BY <4>4, <1>2, <3>3 DEF StopStep, StopJoinsForce, StopJoinsAttempt, RequestSettled,
              AttemptAnswers, CallForce, ForceAnswers, TypeOK
      <4>6. pc'[d] = pc[d] BY <2>2, <4>4 DEF TypeOK
      <4> QED BY <4>3, <4>5, <4>6
    <3> QED BY <3>1, <3>2, <3>3
  <2>6. pc'[Main] \notin {"finalize", "over"}
    BY <2>1, <2>3
  <2>7. \A d \in Conns : pc[d] = "accepted" => pc'[d] = "accepted"
    BY <2>2 DEF StopPCs, TypeOK
  <2> QED BY <2>3, <2>4, <2>5, <2>6, <2>7 DEF Quiet
<1>3. ASSUME NEW a \in Attempts, GracefulStep(a) \/ DeadlineExpires(a) PROVE Quiet'
  <2>1. UNCHANGED <<pc, my, force, serving>>
    BY <1>3, GracefulStepFrame DEF callerVars, forceVars, serverVars
  <2>2. \A b \in Attempts : phase'[b] = "requesting" => phase[b] = "requesting"
    BY <1>3 DEF GracefulStep, RequestAccepted, RequestRefused, GuestStopped, AttemptTimesOut,
                AttemptYields, AttemptTakesForce, EndAttempt, DeadlineExpires, TypeOK
  <2> QED BY <2>1, <2>2 DEF Quiet, Handlers
<1>4. CASE ForceStep \/ ChildExits \/ PublishExit
  <2>1. UNCHANGED <<pc, my, serving, phase>>
    BY <1>4, ForceStepFrame DEF callerVars, serverVars, attemptVars
  <2>2. force \in {"idle", "done"} => UNCHANGED force
    BY <1>4 DEF ForceStep, ForceHandoff, ForceStopReturns, ForceFinishes, ChildExits, PublishExit,
                forceVars
  <2> QED BY <2>1, <2>2 DEF Quiet, Handlers
<1>5. ASSUME NEW c \in Conns,
             Accept(c) \/ Track(c) \/ Decode(c) \/ ReadFails(c) \/ HandlerStep(c)
      PROVE Quiet'
  <2>1. UNCHANGED <<my, force, phase>> BY <1>5, HandlerStepFrame DEF forceVars, attemptVars
  <2>2. pc[Main] \notin {"finalize", "over"} BY <1>5, NobodyLeft
  <2>3. c # Main /\ c \in Callers BY RunAssumption DEF Callers
  <2>4. pc[c] \notin StopPCs /\ \E to \in ConnPCs : pc' = [pc EXCEPT ![c] = to]
    <3>1. CASE Accept(c) BY <3>1 DEF Accept, GoTo, StopPCs, ConnPCs
    <3>2. CASE Track(c) BY <3>2 DEF Track, GoTo, Quiet, StopPCs, ConnPCs
    <3>3. CASE Decode(c) BY <3>3 DEF Decode, GoTo, StopPCs, ConnPCs
    <3>4. CASE Mark(c) BY <3>4 DEF Mark, GoTo, StopPCs, ConnPCs, TypeOK
    <3>5. CASE ReadFails(c) \/ StatusCached(c) \/ StatusQueried(c) \/ StatusStored(c)
      BY <3>5 DEF ReadFails, StatusCached, StatusQueried, StatusStored, GoTo, StopPCs, ConnPCs
    <3>6. CASE Reply(c) \/ Untrack(c) BY <3>6 DEF Reply, Untrack, GoTo, StopPCs, ConnPCs
    <3> QED BY <1>5, <3>1, <3>2, <3>3, <3>4, <3>5, <3>6 DEF HandlerStep
  <2>5. pc'[Main] = pc[Main] BY <2>3, <2>4 DEF TypeOK
  <2>6. /\ serving = "returned" => serving' = "returned"
        /\ \A d \in Conns : serving' = d => pc'[d] = "accepted"
    <3>1. CASE Accept(c) BY <3>1, <2>3, RunAssumption DEF Accept, GoTo, TypeOK
    <3>2. CASE Track(c) BY <3>2, RunAssumption DEF Track
    <3>3. CASE ~Accept(c) /\ ~Track(c)
      <4>1. UNCHANGED serving /\ pc[c] # "accepted"
        BY <1>5, <3>3 DEF Decode, ReadFails, HandlerStep, Mark, StatusCached, StatusQueried,
                          StatusStored, Reply, Untrack, serverVars
      <4> QED BY <4>1, <2>3, <2>4 DEF Quiet, TypeOK
    <3> QED BY <3>1, <3>2, <3>3
  <2>7. \A d \in Callers : pc[d] = "waitRequest" => pc'[d] = "waitRequest"
    BY <2>4 DEF StopPCs, TypeOK
  <2> QED BY <2>1, <2>2, <2>5, <2>6, <2>7 DEF Quiet
<1>6. CASE MainStep \/ MainCancelled \/ MainSignalled \/ ServeReturns
  <2>1. UNCHANGED <<my, force, phase>> BY <1>6, MainStepFrame DEF forceVars, attemptVars
  <2>2. CASE ServeReturns
    <3>1. UNCHANGED pc /\ serving' = "returned" BY <2>2 DEF ServeReturns, callerVars
    <3> QED BY <2>1, <3>1, RunAssumption DEF Quiet, Handlers
  <2>3. CASE MainStep \/ MainCancelled \/ MainSignalled
    <3>1. UNCHANGED serving
      BY <2>3 DEF MainStep, MainSeesExit, MainCancelled, MainSignalled, StopReturned, ExitSeen,
          CloseListener, ServeJoined, CloseNonStopConnections, HandlersJoined, Finalize,
          MainTearsDown, serverVars
    <3>2. pc[Main] \notin StopPCs /\ \E to \in MainPCs : pc' = [pc EXCEPT ![Main] = to]
      BY <2>3 DEF MainStep, MainSeesExit, MainCancelled, MainSignalled, StopReturned, ExitSeen,
          CloseListener, ServeJoined, CloseNonStopConnections, HandlersJoined, Finalize,
          MainTearsDown, MainGoes, GoTo, StopPCs, MainPCs
    <3>3. \A d \in Callers : d # Main => pc'[d] = pc[d] BY <3>2 DEF TypeOK
    <3>4. \A d \in Conns : pc'[d] = pc[d] BY <3>3, RunAssumption DEF Callers
    <3>5. \A d \in Callers : pc[d] = "waitRequest" => pc'[d] = "waitRequest"
      BY <3>2, <3>3 DEF StopPCs
    <3>6. pc'[Main] \in {"closeConns", "waitHandlers", "finalize", "over"} =>
            \/ serving = "returned"
            \/ pc[Main] \in {"closeConns", "waitHandlers", "finalize", "over"}
      BY <2>3 DEF MainStep, MainSeesExit, MainCancelled, MainSignalled, StopReturned, ExitSeen,
          CloseListener, ServeJoined, CloseNonStopConnections, HandlersJoined, Finalize,
          MainTearsDown, MainGoes, GoTo, TypeOK, Callers
    <3>7. pc'[Main] \in {"finalize", "over"} =>
            \/ pc[Main] \in {"finalize", "over"}
            \/ Handlers = {} /\ force \in {"idle", "done"}
      BY <2>3 DEF MainStep, MainSeesExit, MainCancelled, MainSignalled, StopReturned, ExitSeen,
          CloseListener, ServeJoined, CloseNonStopConnections, HandlersJoined, Finalize,
          MainTearsDown, MainGoes, GoTo, TypeOK, Callers, ForceStarted, ForceDone
    <3>8. Handlers' = Handlers BY <3>4 DEF Handlers
    <3> QED BY <2>1, <3>1, <3>4, <3>5, <3>6, <3>7, <3>8 DEF Quiet
  <2> QED BY <1>6, <2>2, <2>3
<1>7. CASE UNCHANGED vars
  BY <1>1, <1>7 DEF vars, callerVars, serverVars, attemptVars, forceVars
<1> QED BY <1>2, <1>3, <1>4, <1>5, <1>6, <1>7 DEF Next

\* The run is quiet at its end.
LEMMA QuietInvariant == Spec => []Quiet
<1>1. Init => Quiet BY RunAssumption DEF Init, Quiet, Callers
<1>2. TypeOK /\ Handoff /\ Quiet /\ [Next]_vars => Quiet' BY QuietInductive
<1> QED BY <1>1, <1>2, TypeCorrect, HandoffInvariant, PTL DEF Spec

\* No handler, request or force is at work when the exit record is written.
THEOREM QuietAtTheEnd == Spec => []QuietAtFinalize
<1>1. TypeOK /\ Quiet => QuietAtFinalize BY NobodyLeft DEF QuietAtFinalize, Quiet
<1> QED BY <1>1, TypeCorrect, QuietInvariant, PTL

-----------------------------------------------------------------------------
(* The exit record. *)

\* The record is written last, and 0 only if it was earned.
Recorded == (lastExit # "none" => pc[Main] = "over") /\ CleanExitEarned

\* Every step keeps what the record says true.
LEMMA RecordedInductive ==
  TypeOK /\ StopFlags /\ Quiet /\ Recorded /\ [Next]_vars => Recorded'
<1> SUFFICES ASSUME TypeOK, StopFlags, Quiet, Recorded, [Next]_vars PROVE Recorded'
  OBVIOUS
<1>1. ASSUME pc[Main] # "over", UNCHANGED lastExit PROVE Recorded'
  BY <1>1 DEF Recorded, CleanExitEarned, TypeOK
<1>2. ASSUME pc[Main] = "over" PROVE Recorded'
  <2>1. /\ \A c \in Callers : ~StopStep(c)
        /\ \A c \in Conns : ~(Accept(c) \/ Track(c) \/ Decode(c) \/ ReadFails(c) \/ HandlerStep(c))
        /\ ~ForceStep
        /\ \A a \in Attempts : phase[a] # "requesting"
    BY <1>2, NobodyLeft
  <2>2. ASSUME NEW a \in Attempts, GracefulStep(a) \/ DeadlineExpires(a) PROVE Recorded'
    <3>1. UNCHANGED <<childVars, forceVars, callerVars, mainVars>> BY <2>2, GracefulStepFrame
    <3>2. UNCHANGED <<graceful, accepted>>
      BY <2>1, <2>2 DEF GracefulStep, RequestAccepted, RequestRefused, GuestStopped,
                        AttemptTimesOut, AttemptYields, AttemptTakesForce, EndAttempt,
                        DeadlineExpires
    <3> QED BY <3>1, <3>2 DEF Recorded, CleanExitEarned, ForceStarted, childVars, forceVars,
                              callerVars, mainVars
  <2>3. CASE ChildExits \/ PublishExit
    <3>1. UNCHANGED <<forceVars, graceful, accepted, callerVars, mainVars>>
      BY <2>3 DEF ChildExits, PublishExit, attemptVars
    <3>2. child = "clean" => child' = "clean" BY <2>3 DEF ChildExits, PublishExit
    <3> QED BY <3>1, <3>2 DEF Recorded, CleanExitEarned, ForceStarted, forceVars, callerVars,
                              mainVars
  <2>4. ~MainStep /\ ~MainCancelled /\ ~MainSignalled
    BY <1>2 DEF MainStep, MainCancelled, MainSignalled, MainSeesExit, StopReturned, ExitSeen,
        CloseListener, ServeJoined, CloseNonStopConnections, HandlersJoined, Finalize,
        MainTearsDown, MainGoes
  <2>5. CASE ServeReturns \/ UNCHANGED vars
    <3>1. UNCHANGED <<childVars, attemptVars, forceVars, callerVars, mainVars>>
      BY <2>5 DEF ServeReturns, vars
    <3> QED BY <3>1 DEF Recorded, CleanExitEarned, ForceStarted, childVars, attemptVars,
                        forceVars, callerVars, mainVars
  <2> QED BY <2>1, <2>2, <2>3, <2>4, <2>5 DEF Next
<1>3. CASE Finalize
  <2>1. pc'[Main] = "over" BY <1>3 DEF Finalize, MainGoes, GoTo, TypeOK, Callers
  <2>2. UNCHANGED <<childVars, graceful, accepted, forceVars, internalFailure>>
    BY <1>3 DEF Finalize, attemptVars
  <2>3. lastExit' = "zero" => TerminalOutcome = "zero" BY <1>3 DEF Finalize
  <2>4. TerminalOutcome = "zero" => /\ ~forceErr /\ ~internalFailure
                                    /\ child = "clean" \/ intentional
    BY DEF TerminalOutcome
  <2> QED BY <2>1, <2>2, <2>3, <2>4 DEF Recorded, CleanExitEarned, StopFlags, ForceStarted,
                                        childVars, forceVars
<1>4. CASE pc[Main] # "over" /\ ~Finalize
  <2>1. UNCHANGED lastExit
    <3>1. ASSUME NEW c \in Callers, StopStep(c) PROVE UNCHANGED lastExit
      BY <3>1, StopStepFrame DEF mainVars
    <3>2. ASSUME NEW a \in Attempts, GracefulStep(a) \/ DeadlineExpires(a)
          PROVE  UNCHANGED lastExit
      BY <3>2, GracefulStepFrame DEF mainVars
    <3>3. CASE ForceStep \/ ChildExits \/ PublishExit BY <3>3, ForceStepFrame DEF mainVars
    <3>4. ASSUME NEW c \in Conns,
                 Accept(c) \/ Track(c) \/ Decode(c) \/ ReadFails(c) \/ HandlerStep(c)
          PROVE  UNCHANGED lastExit
      BY <3>4, HandlerStepFrame DEF mainVars
    <3>5. CASE MainStep \/ MainCancelled \/ MainSignalled \/ ServeReturns
      BY <1>4, <3>5 DEF MainStep, MainSeesExit, MainCancelled, MainSignalled, StopReturned,
          ExitSeen, CloseListener, ServeJoined, CloseNonStopConnections, HandlersJoined,
          MainTearsDown, ServeReturns, mainVars
    <3>6. CASE UNCHANGED vars BY <3>6 DEF vars, mainVars
    <3> QED BY <3>1, <3>2, <3>3, <3>4, <3>5, <3>6 DEF Next
  <2> QED BY <1>1, <1>4, <2>1
<1> QED BY <1>2, <1>3, <1>4

\* Exit code 0 is recorded only for a clean exit or one that was asked for, and never
\* over a force that failed.
THEOREM CleanExitIsEarned == Spec => []CleanExitEarned
<1>1. Init => Recorded BY DEF Init, Recorded, CleanExitEarned
<1>2. TypeOK /\ StopFlags /\ Quiet /\ Recorded /\ [Next]_vars => Recorded'
  BY RecordedInductive
<1>3. Recorded => CleanExitEarned BY DEF Recorded
<1> QED BY <1>1, <1>2, <1>3, TypeCorrect, StopFlagsInvariant, QuietInvariant, PTL DEF Spec
=============================================================================

------------------------ MODULE StopContractProofs ------------------------
(***************************************************************************)
(* Proof that a supervised run (SupervisedRun) keeps the contract its      *)
(* clients rely on (StopContract): every step of its goroutines is a step  *)
(* of the contract or changes nothing a client was promised.               *)
(***************************************************************************)
EXTENDS SupervisedRunExitProofs

-----------------------------------------------------------------------------
(* The course of a connection, and of the teardown. *)

\* A handler does what its request asks for; the teardown begins when the child is gone.
Course ==
  /\ pc[Main] \in {"closeListener", "waitServe", "closeConns", "waitHandlers", "finalize", "over"}
     => done
  /\ \A c \in Conns :
       /\ pc[c] \in {"idle", "accepted", "reading"} => want[c] = "none"
       /\ pc[c] \in {"status", "query", "store"} => want[c] = "status"
       /\ pc[c] \in StopPCs \cup {"marking"} => want[c] \in {"stop", "force"}

\* A step of stopWithProgress: on to another of its steps, or back with a verdict.
LEMMA StopMoves ==
  ASSUME TypeOK, NEW c \in Callers, StopStep(c)
  PROVE  /\ pc[c] \in StopPCs /\ UNCHANGED <<want, done>>
         /\ \/ \E to \in StopPCs : pc' = [pc EXCEPT ![c] = to] /\ UNCHANGED verdict
            \/ /\ pc' = [pc EXCEPT ![c] = Return(c)]
               /\ \E v \in Verdicts : verdict' = [verdict EXCEPT ![c] = v]
<1>1. UNCHANGED <<want, done>>
  BY StopStepFrame DEF childVars
<1>2. CASE \/ StopJoinsForce(c) \/ StopJoinsAttempt(c) \/ StopBeginsAttempt(c)
           \/ RequestSettled(c) \/ ForceOvertakes(c) \/ CallForce(c)
  BY <1>1, <1>2 DEF StopJoinsForce, StopJoinsAttempt, StopBeginsAttempt, RequestSettled,
                    ForceOvertakes, CallForce, GoTo, StopPCs
<1>3. CASE AttemptAnswers(c)
  <2>1. my[c] \in Attempts
    BY <1>3 DEF AttemptAnswers, TypeOK
  <2>2. attemptErr[my[c]] \in Verdicts
    BY <2>1 DEF TypeOK, Verdicts
  <2> QED BY <1>1, <1>3, <2>2 DEF AttemptAnswers, GoTo, StopPCs
<1>4. CASE ForceAnswers(c)
  BY <1>1, <1>4 DEF ForceAnswers, GoTo, StopPCs, Verdicts
<1> QED BY <1>2, <1>3, <1>4 DEF StopStep

\* A step of a handler: what becomes of its request.
LEMMA HandlerMoves ==
  ASSUME TypeOK, Quiet, NEW c \in Conns,
         Accept(c) \/ Track(c) \/ Decode(c) \/ ReadFails(c) \/ HandlerStep(c)
  PROVE  /\ UNCHANGED done /\ pc'[Main] = pc[Main]
         /\ \A d \in Conns \ {c} : pc'[d] = pc[d] /\ want'[d] = want[d] /\ verdict'[d] = verdict[d]
         /\ \/ pc[c] = "idle" /\ pc'[c] = "accepted" /\ want'[c] = want[c]
            \/ pc[c] = "accepted" /\ pc'[c] = "reading" /\ want'[c] = want[c]
            \/ pc[c] = "reading" /\ pc'[c] = "reply" /\ want'[c] = want[c]
            \/ /\ pc[c] \in {"status", "query", "store"} /\ pc'[c] \in {"query", "store", "reply"}
               /\ want'[c] = want[c]
            \/ pc[c] = "reading" /\ want'[c] = "status" /\ pc'[c] = "status"
            \/ pc[c] = "reading" /\ want'[c] \in {"stop", "force"} /\ pc'[c] = "marking"
            \/ /\ pc[c] = "marking" /\ want[c] \in {"stop", "force"} /\ want'[c] = want[c]
               /\ pc'[c] = want[c]
            \/ /\ pc[c] = "reply" /\ pc'[c] = "closing" /\ want'[c] = want[c]
               /\ verdict'[c] = verdict[c]
            \/ pc[c] = "closing" /\ pc'[c] = "idle" /\ want'[c] = "none"
<1>1. UNCHANGED done
  BY HandlerStepFrame DEF childVars
<1>2. c \in Callers /\ Main \in Callers /\ c # Main /\ Conns \subseteq Callers
  BY RunAssumption DEF Callers
<1>3. CASE Accept(c)
  BY <1>1, <1>2, <1>3 DEF Accept, GoTo, TypeOK
<1>4. CASE Track(c)
  <2>1. pc[c] = "accepted"
    BY <1>4 DEF Track, Quiet
  <2> QED BY <1>1, <1>2, <1>4, <2>1 DEF Track, GoTo, TypeOK
<1>5. CASE Decode(c)
  BY <1>1, <1>2, <1>5 DEF Decode, GoTo, TypeOK
<1>6. CASE ReadFails(c)
  BY <1>1, <1>2, <1>6 DEF ReadFails, GoTo, TypeOK
<1>7. CASE Mark(c)
  BY <1>1, <1>2, <1>7 DEF Mark, GoTo, TypeOK
<1>8. CASE StatusCached(c)
  BY <1>1, <1>2, <1>8 DEF StatusCached, GoTo, TypeOK
<1>9. CASE StatusQueried(c)
  BY <1>1, <1>2, <1>9 DEF StatusQueried, GoTo, TypeOK
<1>10. CASE StatusStored(c)
  BY <1>1, <1>2, <1>10 DEF StatusStored, GoTo, TypeOK
<1>11. CASE Reply(c)
  BY <1>1, <1>2, <1>11 DEF Reply, GoTo, TypeOK
<1>12. CASE Untrack(c)
  BY <1>1, <1>2, <1>12 DEF Untrack, GoTo, TypeOK
<1> QED BY <1>3, <1>4, <1>5, <1>6, <1>7, <1>8, <1>9, <1>10, <1>11, <1>12 DEF HandlerStep

\* A step of the supervisor itself, which ends by writing the exit record.
LEMMA MainMoves ==
  ASSUME TypeOK, MainStep \/ MainCancelled \/ MainSignalled \/ ServeReturns
  PROVE  /\ UNCHANGED <<done, verdict>>
         /\ \A c \in Conns : pc'[c] = pc[c] /\ want'[c] = want[c]
         /\ \/ /\ pc'[Main] \notin {"closeListener", "waitServe", "closeConns", "waitHandlers",
                                    "finalize", "over"}
               /\ pc[Main] # "over"
            \/ pc[Main] = "awaitDone" /\ done /\ pc'[Main] = "closeListener"
            \/ /\ pc[Main] \in {"closeListener", "waitServe", "closeConns", "waitHandlers"}
               /\ pc'[Main] # "over"
            \/ pc[Main] = "finalize" /\ pc'[Main] = "over"
            \/ pc'[Main] = pc[Main]
<1>1. UNCHANGED <<done, verdict>>
  BY MainStepFrame DEF childVars
<1>2. Main \in Callers /\ \A c \in Conns : c \in Callers /\ c # Main
  BY RunAssumption DEF Callers
<1>3. CASE MainSeesExit \/ MainCancelled \/ MainSignalled \/ StopReturned
  BY <1>1, <1>2, <1>3 DEF MainSeesExit, MainCancelled, MainSignalled, StopReturned, MainGoes, GoTo,
                          TypeOK
<1>4. CASE ExitSeen \/ CloseListener \/ ServeJoined
  BY <1>1, <1>2, <1>4 DEF ExitSeen, CloseListener, ServeJoined, MainTearsDown, MainGoes, GoTo,
                          TypeOK
<1>5. CASE CloseNonStopConnections \/ HandlersJoined
  BY <1>1, <1>2, <1>5 DEF CloseNonStopConnections, HandlersJoined, MainTearsDown, MainGoes, GoTo,
                          TypeOK
<1>6. CASE Finalize
  BY <1>1, <1>2, <1>6 DEF Finalize, MainGoes, GoTo, TypeOK
<1>7. CASE ServeReturns
  BY <1>1, <1>2, <1>7 DEF ServeReturns, callerVars
<1> QED BY <1>3, <1>4, <1>5, <1>6, <1>7 DEF MainStep

\* Every step keeps the course.
LEMMA CourseInductive == TypeOK /\ Quiet /\ Course /\ [Next]_vars => Course'
<1> SUFFICES ASSUME TypeOK, Quiet, Course, [Next]_vars PROVE Course'
  OBVIOUS
<1>1. Main \in Callers /\ \A c \in Conns : c \in Callers /\ c # Main
  BY RunAssumption DEF Callers
<1>2. ASSUME UNCHANGED <<pc, want>>, done => done' PROVE Course'
  BY <1>2 DEF Course
<1>3. ASSUME NEW c \in Callers, StopStep(c) PROVE Course'
  <2>1. pc[c] \in StopPCs /\ UNCHANGED <<want, done>>
    BY <1>3, StopMoves
  <2>2. \E to \in StopPCs \cup {Return(c)} : pc' = [pc EXCEPT ![c] = to]
    BY <1>3, StopMoves
  <2> QED BY <1>1, <2>1, <2>2 DEF Course, TypeOK, StopPCs, Return
<1>4. ASSUME NEW a \in Attempts, GracefulStep(a) \/ DeadlineExpires(a) PROVE Course'
  BY <1>2, <1>4, GracefulStepFrame DEF callerVars, childVars
<1>5. CASE ForceStep \/ ChildExits \/ PublishExit
  <2>1. UNCHANGED <<pc, want>>
    BY <1>5, ForceStepFrame DEF callerVars
  <2>2. done => done'
    BY <1>5 DEF ForceStep, ForceHandoff, ForceStopReturns, ForceFinishes, ChildExits, PublishExit,
                childVars
  <2> QED BY <1>2, <2>1, <2>2
<1>6. ASSUME NEW c \in Conns,
             Accept(c) \/ Track(c) \/ Decode(c) \/ ReadFails(c) \/ HandlerStep(c)
      PROVE Course'
  <2>1. UNCHANGED done /\ pc'[Main] = pc[Main]
    BY <1>6, HandlerMoves
  <2>2. \A d \in Conns \ {c} : pc'[d] = pc[d] /\ want'[d] = want[d]
    BY <1>6, HandlerMoves
  <2>3. /\ pc'[c] \in {"idle", "accepted", "reading"} => want'[c] = "none"
        /\ pc'[c] \in {"status", "query", "store"} => want'[c] = "status"
        /\ pc'[c] \in StopPCs \cup {"marking"} => want'[c] \in {"stop", "force"}
    BY <1>6, HandlerMoves DEF Course, StopPCs
  <2> QED BY <2>1, <2>2, <2>3 DEF Course
<1>7. CASE MainStep \/ MainCancelled \/ MainSignalled \/ ServeReturns
  BY <1>7, MainMoves DEF Course
<1>8. CASE UNCHANGED vars
  BY <1>2, <1>8 DEF vars, callerVars, childVars
<1> QED BY <1>3, <1>4, <1>5, <1>6, <1>7, <1>8 DEF Next

\* The course is kept throughout a run.
LEMMA CourseInvariant == Spec => []Course
<1>1. Init => Course BY RunAssumption DEF Init, Course, Callers, StopPCs
<1>2. TypeOK /\ Quiet /\ Course /\ [Next]_vars => Course' BY CourseInductive
<1> QED BY <1>1, <1>2, TypeCorrect, QuietInvariant, PTL DEF Spec

-----------------------------------------------------------------------------
(* The refinement. *)

\* The contract's variables, as SupervisedRun's Contract gives them.
VM       == IF pc[Main] = "over" THEN "recorded" ELSE IF done THEN "down" ELSE "up"
Requests == [c \in Conns |-> Promise(c)]

\* What a client was promised, by where its handler is.
LEMMA Promises ==
  ASSUME NEW c \in Conns
  PROVE  /\ want[c] \notin {"stop", "force"} => Promise(c) = "idle"
         /\ want[c] \in {"stop", "force"} /\ pc[c] \notin {"reply", "closing"}
            => Promise(c) = "asked"
         /\ want[c] \in {"stop", "force"} /\ pc[c] \in {"reply", "closing"} /\ verdict[c] = "ok"
            => Promise(c) = "stopped"
         /\ want[c] \in {"stop", "force"} /\ pc[c] \in {"reply", "closing"} /\ verdict[c] # "ok"
            => Promise(c) = "refused"
BY DEF Promise

LEMMA PromisesNext ==
  ASSUME NEW c \in Conns
  PROVE  /\ want'[c] \notin {"stop", "force"} => Promise(c)' = "idle"
         /\ want'[c] \in {"stop", "force"} /\ pc'[c] \notin {"reply", "closing"}
            => Promise(c)' = "asked"
         /\ want'[c] \in {"stop", "force"} /\ pc'[c] \in {"reply", "closing"} /\ verdict'[c] = "ok"
            => Promise(c)' = "stopped"
         /\ want'[c] \in {"stop", "force"} /\ pc'[c] \in {"reply", "closing"} /\ verdict'[c] # "ok"
            => Promise(c)' = "refused"
BY DEF Promise

\* Who was left alone was promised nothing new.
LEMMA Unpromised ==
  ASSUME NEW c \in Conns, pc'[c] = pc[c], want'[c] = want[c], verdict'[c] = verdict[c]
  PROVE  Promise(c)' = Promise(c)
BY DEF Promise

\* The promise to one client changes as the contract has it, and nothing else.
LEMMA ContractStep ==
  ASSUME NEW c \in Conns, \A d \in Conns \ {c} : Promise(d)' = Promise(d), VM' = VM,
         \/ Promise(c)' = Promise(c)
         \/ VM # "recorded" /\ Promise(c) = "idle" /\ Promise(c)' = "asked"
         \/ VM = "down" /\ Promise(c) = "asked" /\ Promise(c)' = "stopped"
         \/ Promise(c) = "asked" /\ Promise(c)' = "refused"
         \/ Promise(c) \in {"stopped", "refused"} /\ Promise(c)' = "idle"
  PROVE  Contract!Next \/ UNCHANGED <<VM, Requests>>
<1>1. Requests' = [Requests EXCEPT ![c] = Promise(c)'] /\ Requests[c] = Promise(c)
  BY DEF Requests
<1>2. CASE Promise(c)' = Promise(c)
  <2>1. \A d \in Conns : Promise(d)' = Promise(d)
    BY <1>2
  <2> QED BY <2>1 DEF Requests
<1>3. CASE VM # "recorded" /\ Promise(c) = "idle" /\ Promise(c)' = "asked"
  <2>1. Contract!Ask(c)
    BY <1>1, <1>3 DEF Contract!Ask, Contract!Set, VM, Requests
  <2> QED BY <2>1 DEF Contract!Next
<1>4. CASE VM = "down" /\ Promise(c) = "asked" /\ Promise(c)' = "stopped"
  <2>1. Contract!Confirm(c)
    BY <1>1, <1>4 DEF Contract!Confirm, Contract!Set, VM, Requests
  <2> QED BY <2>1 DEF Contract!Next
<1>5. CASE Promise(c) = "asked" /\ Promise(c)' = "refused"
  <2>1. Contract!Refuse(c)
    BY <1>1, <1>5 DEF Contract!Refuse, Contract!Set, VM, Requests
  <2> QED BY <2>1 DEF Contract!Next
<1>6. CASE Promise(c) \in {"stopped", "refused"} /\ Promise(c)' = "idle"
  <2>1. Contract!HangUp(c)
    BY <1>1, <1>6 DEF Contract!HangUp, Contract!Set, VM, Requests
  <2> QED BY <2>1 DEF Contract!Next
<1> QED BY <1>2, <1>3, <1>4, <1>5, <1>6

\* Every step of the run is a step of the contract or none.
LEMMA StepKeepsContract ==
  ASSUME TypeOK, Reaped, Reaped', Quiet, Course, [Next]_vars
  PROVE  Contract!Next \/ UNCHANGED <<VM, Requests>>
<1>1. Main \in Callers /\ \A c \in Conns : c \in Callers /\ c # Main
  BY RunAssumption DEF Callers
<1>2. ASSUME UNCHANGED <<pc, want, verdict, done>> PROVE UNCHANGED <<VM, Requests>>
  <2>1. \A c \in Conns : Promise(c)' = Promise(c)
    BY <1>2, Unpromised
  <2> QED BY <1>2, <2>1 DEF VM, Requests
<1>3. ASSUME NEW c \in Callers, StopStep(c) PROVE Contract!Next \/ UNCHANGED <<VM, Requests>>
  <2>1. pc[c] \in StopPCs /\ UNCHANGED <<want, done>>
    BY <1>3, StopMoves
  <2>2. pc[Main] # "over" /\ pc'[Main] # "over"
    BY <1>1, <1>3, <2>1, NobodyLeft, StopMoves DEF TypeOK, StopPCs, Return
  <2>3. VM' = VM /\ VM # "recorded" /\ (done => VM = "down")
    BY <2>1, <2>2 DEF VM
  <2>4. \A d \in Conns \ {c} : Promise(d)' = Promise(d)
    <3>1. \A d \in Conns \ {c} : pc'[d] = pc[d] /\ want'[d] = want[d] /\ verdict'[d] = verdict[d]
      BY <1>1, <1>3, <2>1, StopMoves DEF TypeOK
    <3> QED BY <3>1, Unpromised
  <2>5. CASE c = Main
    <3>1. \A d \in Conns : Promise(d)' = Promise(d)
      BY <1>1, <2>4, <2>5
    <3> QED BY <2>3, <3>1 DEF Requests
  <2>6. CASE c \in Conns
    <3>1. want[c] \in {"stop", "force"} /\ want'[c] = want[c]
      BY <2>1, <2>6 DEF Course
    <3>2. Promise(c) = "asked"
      BY <2>1, <2>6, <3>1, Promises DEF StopPCs
    <3>3. CASE \E to \in StopPCs : pc' = [pc EXCEPT ![c] = to]
      <4>1. pc'[c] \notin {"reply", "closing"}
        BY <3>3 DEF TypeOK, StopPCs
      <4>2. Promise(c)' = "asked"
        BY <2>6, <3>1, <4>1, PromisesNext
      <4> QED BY <2>3, <2>4, <2>6, <3>2, <4>2, ContractStep
    <3>4. CASE pc' = [pc EXCEPT ![c] = Return(c)]
      <4>1. pc'[c] = "reply"
        BY <1>1, <2>6, <3>4 DEF TypeOK, Return
      <4>2. CASE verdict'[c] = "ok"
        <5>1. done
          BY <2>1, <4>2 DEF Reaped
        <5>2. Promise(c)' = "stopped"
          BY <2>6, <3>1, <4>1, <4>2, PromisesNext
        <5> QED BY <2>3, <2>4, <2>6, <3>2, <5>1, <5>2, ContractStep
      <4>3. CASE verdict'[c] # "ok"
        <5>1. Promise(c)' = "refused"
          BY <2>6, <3>1, <4>1, <4>3, PromisesNext
        <5> QED BY <2>3, <2>4, <2>6, <3>2, <5>1, ContractStep
      <4> QED BY <4>2, <4>3
    <3> QED BY <1>3, <3>3, <3>4, StopMoves
  <2> QED BY <2>5, <2>6 DEF Callers
<1>4. ASSUME NEW a \in Attempts, GracefulStep(a) \/ DeadlineExpires(a)
      PROVE  UNCHANGED <<VM, Requests>>
  BY <1>2, <1>4, GracefulStepFrame DEF callerVars, childVars
<1>5. CASE ForceStep \/ ChildExits
  <2>1. UNCHANGED <<pc, want, verdict>>
    BY <1>5, ForceStepFrame DEF callerVars
  <2>2. UNCHANGED done
    BY <1>5 DEF ForceStep, ForceHandoff, ForceStopReturns, ForceFinishes, ChildExits, childVars
  <2> QED BY <1>2, <2>1, <2>2
<1>6. CASE PublishExit
  <2>1. UNCHANGED <<pc, want, verdict>> /\ ~done /\ done'
    BY <1>6 DEF PublishExit, callerVars
  <2>2. pc[Main] # "over"
    BY <2>1 DEF Course
  <2>3. VM = "up" /\ VM' = "down"
    BY <2>1, <2>2 DEF VM
  <2>4. \A d \in Conns : Promise(d)' = Promise(d)
    BY <2>1, Unpromised
  <2>5. Requests' = Requests
    BY <2>4 DEF Requests
  <2>6. Contract!GoDown
    BY <2>3, <2>5 DEF Contract!GoDown, VM, Requests
  <2> QED BY <2>6 DEF Contract!Next
<1>7. ASSUME NEW c \in Conns,
             Accept(c) \/ Track(c) \/ Decode(c) \/ ReadFails(c) \/ HandlerStep(c)
      PROVE  Contract!Next \/ UNCHANGED <<VM, Requests>>
  <2>1. UNCHANGED done /\ pc'[Main] = pc[Main] /\ pc[Main] # "over"
    BY <1>7, HandlerMoves, NobodyLeft
  <2>2. VM' = VM /\ VM # "recorded"
    BY <2>1 DEF VM
  <2>3. \A d \in Conns \ {c} : Promise(d)' = Promise(d)
    BY <1>7, HandlerMoves, Unpromised
  <2>4. CASE want'[c] \notin {"stop", "force"}
    <3>1. Promise(c)' = "idle"
      BY <2>4, PromisesNext
    <3>2. CASE want[c] \notin {"stop", "force"}
      <4>1. Promise(c) = "idle"
        BY <3>2, Promises
      <4> QED BY <2>2, <2>3, <3>1, <4>1, ContractStep
    <3>3. CASE want[c] \in {"stop", "force"}
      <4>1. pc[c] = "closing"
        BY <1>7, <2>4, <3>3, HandlerMoves DEF Course
      <4>2. Promise(c) \in {"stopped", "refused"}
        BY <3>3, <4>1, Promises
      <4> QED BY <2>2, <2>3, <3>1, <4>2, ContractStep
    <3> QED BY <3>2, <3>3
  <2>5. CASE want'[c] \in {"stop", "force"}
    <3>1. CASE pc[c] = "reading"
      <4>1. pc'[c] = "marking"
        BY <1>7, <2>5, <3>1, HandlerMoves DEF Course
      <4>2. Promise(c) = "idle" /\ Promise(c)' = "asked"
        BY <2>5, <3>1, <4>1, Promises, PromisesNext DEF Course
      <4> QED BY <2>2, <2>3, <4>2, ContractStep
    <3>2. CASE pc[c] # "reading"
      <4>1. want'[c] = want[c]
        BY <1>7, <2>5, <3>2, HandlerMoves DEF Course
      <4>2. CASE pc[c] = "reply"
        <5>1. pc'[c] = "closing" /\ verdict'[c] = verdict[c]
          BY <1>7, <4>2, HandlerMoves
        <5>2. Promise(c)' = Promise(c)
          BY <2>5, <4>1, <4>2, <5>1, Promises, PromisesNext
        <5> QED BY <2>2, <2>3, <5>2, ContractStep
      <4>3. CASE pc[c] # "reply"
        <5>1. pc[c] = "marking" /\ pc'[c] \in {"stop", "force"}
          BY <1>7, <2>5, <3>2, <4>1, <4>3, HandlerMoves DEF Course
        <5>2. Promise(c) = "asked" /\ Promise(c)' = "asked"
          BY <2>5, <4>1, <5>1, Promises, PromisesNext
        <5> QED BY <2>2, <2>3, <5>2, ContractStep
      <4> QED BY <4>2, <4>3
    <3> QED BY <3>1, <3>2
  <2> QED BY <2>4, <2>5
<1>8. CASE MainStep \/ MainCancelled \/ MainSignalled \/ ServeReturns
  <2>1. UNCHANGED done /\ \A d \in Conns : Promise(d)' = Promise(d)
    BY <1>8, MainMoves, Unpromised
  <2>2. Requests' = Requests
    BY <2>1 DEF Requests
  <2>3. CASE pc[Main] = "finalize" /\ pc'[Main] = "over"
    <3>1. VM = "down" /\ VM' = "recorded"
      BY <2>3 DEF VM, Course
    <3>2. ASSUME NEW c \in Conns PROVE Requests[c] = "idle"
      <4>1. pc[c] \in {"idle", "accepted"}
        BY <2>3 DEF Quiet, Handlers
      <4>2. want[c] = "none"
        BY <4>1 DEF Course
      <4>3. Promise(c) = "idle"
        BY <4>2, Promises
      <4> QED BY <4>3 DEF Requests
    <3>3. Contract!Record
      BY <2>2, <3>1, <3>2 DEF Contract!Record, VM, Requests
    <3> QED BY <3>3 DEF Contract!Next
  <2>4. CASE ~(pc[Main] = "finalize" /\ pc'[Main] = "over")
    <3>1. pc'[Main] = "over" <=> pc[Main] = "over"
      BY <1>8, <2>4, MainMoves
    <3>2. VM' = VM
      BY <2>1, <3>1 DEF VM
    <3> QED BY <2>2, <3>2
  <2> QED BY <2>3, <2>4
<1>9. CASE UNCHANGED vars
  BY <1>2, <1>9 DEF vars, callerVars, childVars
<1> QED BY <1>3, <1>4, <1>5, <1>6, <1>7, <1>8, <1>9 DEF Next

\* A supervised run keeps the contract of a stop: a client is told of success only when
\* the VM is down, and the run leaves its exit record only when no client waits, for any
\* number of clients, attempts and signals (internal/supervisor, run.go and
\* control_server.go).
THEOREM ContractIsKept == Spec => ImplementsContract
<1>1. Init => Contract!Init
  <2> SUFFICES ASSUME Init PROVE Contract!Init
    OBVIOUS
  <2>1. Main \in Callers /\ \A c \in Conns : c \in Callers
    BY DEF Callers
  <2>2. VM = "up"
    BY <2>1 DEF Init, VM
  <2>3. \A c \in Conns : want[c] = "none"
    BY <2>1 DEF Init
  <2>4. \A c \in Conns : Promise(c) = "idle"
    BY <2>3, Promises
  <2>5. Requests = [c \in Conns |-> "idle"]
    BY <2>4 DEF Requests
  <2> QED BY <2>2, <2>5 DEF Contract!Init, VM, Requests
<1>2. TypeOK /\ Reaped /\ Reaped' /\ Quiet /\ Course /\ [Next]_vars
        => [Contract!Next]_(Contract!vars)
  <2> SUFFICES ASSUME TypeOK, Reaped, Reaped', Quiet, Course, [Next]_vars
               PROVE  [Contract!Next]_(Contract!vars)
    OBVIOUS
  <2>1. Contract!Next \/ UNCHANGED <<VM, Requests>>
    BY StepKeepsContract
  <2> QED BY <2>1 DEF Contract!vars, VM, Requests
<1> QED BY <1>1, <1>2, TypeCorrect, ReapedInvariant, QuietInvariant, CourseInvariant, PTL
    DEF Spec, ImplementsContract, Contract!Spec
=============================================================================

-------------------------- MODULE VMLifecycleProofs --------------------------
(***************************************************************************)
(* Proofs about VMLifecycle, for any number of runs, commands and crashes. *)
(***************************************************************************)
EXTENDS VMLifecycle, TLAPS

-----------------------------------------------------------------------------
(* Type correctness. *)

\* The first state has the declared types.
LEMMA InitType == Init => TypeOK
BY LifecycleAssumption
   DEF Init, TypeOK, RunPCs, EarlyPCs, StartupPCs, ServingPCs, FailurePCs, LatePCs, ClientPCs

\* A start preserves the types.
LEMMA StartStepType ==
  ASSUME TypeOK, NEW r \in Runs, StartStep(r) \/ Launch(r)
  PROVE  TypeOK'
<1> USE LifecycleAssumption
    DEF TypeOK, RunPCs, EarlyPCs, diskVars, lockVars, runVars, starterVars, clientVars
<1>1. CASE StartReported(r) BY <1>1 DEF StartReported
<1>2. CASE StartGivesUp(r)  BY <1>2 DEF StartGivesUp
<1>3. CASE StartKillsRun(r) BY <1>3 DEF StartKillsRun, Vanishes, Unsettled
<1>4. CASE StartReaped(r)   BY <1>4 DEF StartReaped
<1>5. CASE Launch(r)        BY <1>5 DEF Launch, Spawn
<1> QED BY <1>1, <1>2, <1>3, <1>4, <1>5 DEF StartStep

\* A step of Supervise, until readiness, preserves the types.
LEMMA StartupStepType ==
  ASSUME TypeOK, NEW r \in Runs, StartupStep(r) \/ TakeName(r)
  PROVE  TypeOK'
<1> USE LifecycleAssumption
    DEF TypeOK, RunPCs, EarlyPCs, StartupPCs, FailurePCs, LatePCs, ServingPCs, Goes,
        diskVars, lockVars, runVars, starterVars, clientVars
<1>1.  CASE Refused(r)         BY <1>1 DEF Refused
<1>2.  CASE TakeLifetime(r)    BY <1>2 DEF TakeLifetime
<1>3.  CASE CleanStale(r)      BY <1>3 DEF CleanStale
<1>4.  CASE WriteMetadata(r)   BY <1>4 DEF WriteMetadata
<1>5.  CASE BindSocket(r)      BY <1>5 DEF BindSocket
<1>6.  CASE Fork(r)            BY <1>6 DEF Fork
<1>7.  CASE BackendStarted(r)  BY <1>7 DEF BackendStarted
<1>8.  CASE ClearFailure(r)    BY <1>8 DEF ClearFailure
<1>9.  CASE Announce(r)        BY <1>9 DEF Announce
<1>10. CASE StartupFails(r)    BY <1>10 DEF StartupFails
<1>11. CASE AbortKillsChild(r) BY <1>11 DEF AbortKillsChild
<1>12. CASE RecordFailure(r)   BY <1>12 DEF RecordFailure, Unsettled
<1>13. CASE TakeName(r)        BY <1>13 DEF TakeName
<1>14. CASE SeesAlive(r)       BY <1>14 DEF SeesAlive
<1> QED BY <1>1, <1>2, <1>3, <1>4, <1>5, <1>6, <1>7, <1>8, <1>9, <1>10, <1>11, <1>12, <1>13,
           <1>14 DEF StartupStep

\* A step of Supervise, once ready, and the end of its process preserve the types.
LEMMA ServingStepType ==
  ASSUME TypeOK, NEW r \in Runs, ServingStep(r) \/ GuestExits(r) \/ Crash(r)
  PROVE  TypeOK'
<1> USE LifecycleAssumption
    DEF TypeOK, RunPCs, LatePCs, ServingPCs, Goes,
        diskVars, lockVars, runVars, starterVars, clientVars
<1>1. CASE SeesExit(r)        BY <1>1 DEF SeesExit
<1>2. CASE StopServing(r)     BY <1>2 DEF StopServing
<1>3. CASE HandlersJoined(r)  BY <1>3 DEF HandlersJoined
<1>4. CASE FinalizeRun(r)     BY <1>4 DEF FinalizeRun
<1>5. CASE ReleaseLifetime(r) BY <1>5 DEF ReleaseLifetime
<1>6. CASE ReportAndExit(r)   BY <1>6 DEF ReportAndExit
<1>7. CASE GuestExits(r)      BY <1>7 DEF GuestExits
<1>8. CASE Crash(r)           BY <1>8 DEF Crash, Vanishes, Unsettled
<1> QED BY <1>1, <1>2, <1>3, <1>4, <1>5, <1>6, <1>7, <1>8 DEF ServingStep

\* A step of a status, a stop or a restart preserves the types.
LEMMA ClientStepType ==
  ASSUME TypeOK, NEW c \in Clients, Command(c) \/ ClientStep(c) \/ Relaunch(c)
  PROVE  TypeOK'
<1> USE LifecycleAssumption
    DEF TypeOK, ClientPCs, Answer, Ends, Served,
        diskVars, lockVars, runVars, starterVars, clientVars
<1>1.  CASE Command(c)        BY <1>1 DEF Command
<1>2.  CASE Connect(c)        BY <1>2 DEF Connect
<1>3.  CASE StatusServed(c)   BY <1>3 DEF StatusServed
<1>4.  CASE StopDispatched(c) BY <1>4 DEF StopDispatched
<1>5.  CASE StopConfirmed(c)  BY <1>5 DEF StopConfirmed
<1>6.  CASE StopFailed(c)     BY <1>6 DEF StopFailed
<1>7.  CASE Cut(c)            BY <1>7 DEF Cut
<1>8.  CASE ProbeAcquires(c)  BY <1>8 DEF ProbeAcquires
<1>9.  CASE ProbeReleases(c)  BY <1>9 DEF ProbeReleases
<1>10. CASE ProbeFails(c)     BY <1>10 DEF ProbeFails
<1>11. CASE StatusOffline(c)  BY <1>11 DEF StatusOffline
<1>12. CASE StatusHeld(c)     BY <1>12 DEF StatusHeld
<1>13. CASE Relaunch(c)
  <2>1. PICK r \in Runs : Spawn(r, peer[c]) BY <1>13 DEF Relaunch
  <2> QED BY <1>13, <2>1 DEF Relaunch, Spawn, RunPCs, EarlyPCs
<1> QED BY <1>1, <1>2, <1>3, <1>4, <1>5, <1>6, <1>7, <1>8, <1>9, <1>10, <1>11, <1>12, <1>13
        DEF ClientStep

\* A step of a delete preserves the types.
LEMMA DeleteStepType ==
  ASSUME TypeOK, NEW c \in Clients, DeleteStep(c) \/ DeleteLocks(c)
  PROVE  TypeOK'
<1> USE LifecycleAssumption
    DEF TypeOK, ClientPCs, Ends, diskVars, lockVars, runVars, starterVars, clientVars
<1>1. CASE DeleteLocks(c)   BY <1>1 DEF DeleteLocks
<1>2. CASE DeleteChecks(c)  BY <1>2 DEF DeleteChecks
<1>3. CASE DeleteRefused(c) BY <1>3 DEF DeleteRefused
<1>4. CASE DeleteRemoves(c) BY <1>4 DEF DeleteRemoves
<1>5. CASE DeleteUnlocks(c) BY <1>5 DEF DeleteUnlocks
<1> QED BY <1>1, <1>2, <1>3, <1>4, <1>5 DEF DeleteStep

\* Every step preserves the types.
LEMMA NextType == TypeOK /\ [Next]_vars => TypeOK'
<1> SUFFICES ASSUME TypeOK, [Next]_vars PROVE TypeOK'
  OBVIOUS
<1>1. CASE UNCHANGED vars
  BY <1>1 DEF vars, TypeOK, diskVars, lockVars, runVars, starterVars, clientVars
<1>2. CASE MetadataAges
  BY <1>2 DEF MetadataAges, TypeOK, lockVars, runVars, starterVars, clientVars
<1>3. ASSUME NEW r \in Runs,
             \/ Launch(r) \/ StartStep(r) \/ TakeName(r) \/ StartupStep(r) \/ ServingStep(r)
             \/ GuestExits(r) \/ Crash(r)
      PROVE  TypeOK'
  BY <1>3, StartStepType, StartupStepType, ServingStepType
<1>4. ASSUME NEW c \in Clients,
             Command(c) \/ ClientStep(c) \/ Relaunch(c) \/ DeleteLocks(c) \/ DeleteStep(c)
      PROVE  TypeOK'
  BY <1>4, ClientStepType, DeleteStepType
<1> QED BY <1>1, <1>2, <1>3, <1>4 DEF Next

\* Every state of the files, the locks and the processes has the declared types.
THEOREM TypeCorrect == Spec => []TypeOK
BY InitType, NextType, PTL DEF Spec

-----------------------------------------------------------------------------
(* Who holds the lifetime lock, who listens, and where a guest may be alive. *)

\* From TryLockLifetime to the deferred lifetime.Close.
HoldingPCs == {"cleaning", "unlocking"} \cup StartupPCs \cup ServingPCs \cup FailurePCs

\* From net.ListenUnix until the listener is closed.
ListeningPCs == {"starting", "checking", "clearing", "announcing", "serving", "closing"}

\* From the fork until the child was seen to be dead, or ended.
GuestPCs == {"starting", "checking", "clearing", "announcing", "serving", "aborting"}

\* From ClearFailedLastExit to the readiness message, or to the record of the failure.
OwingPCs == {"announcing", "aborting", "abandoning"}

\* The locks are held where the code says, and what they protect is there.
Ownership ==
  /\ \A r \in Runs : pc[r] \in HoldingPCs => lifetime = r /\ config
  /\ \A c \in Clients : cpc[c] \in {"release", "remove"} => lifetime = c
  /\ socket # None => pc[socket] \in ListeningPCs
  /\ \A r \in Runs : qemu[r] = "alive" /\ pc[r] # "off" => pc[r] \in GuestPCs
  /\ \A r \in Runs : lifetime = r => pc[r] \in HoldingPCs
  /\ \A r \in Runs : nameLock = r => pc[r] # "off"
  /\ \A r \in Runs : starter[r] = "failed" => pc[r] = "off"
  /\ \A c \in Clients :
       cpc[c] = "stopping" /\ pc[peer[c]] # "off"
         => pc[peer[c]] \in {"serving", "closing", "joining"}
  /\ \A c \in Clients : cpc[c] \in {"readExit", "readRuntime"} => op[c] = "status"
  /\ \A r \in Runs : pc[r] \in {"checking", "clearing", "announcing"} => qemu[r] # "none"
  /\ evidence = "erased" =>
       lifetime \in Runs /\ pc[lifetime] \in OwingPCs /\ qemu[lifetime] # "none"

\* The places of a supervisor, told apart.
LEMMA Places ==
  /\ ListeningPCs \subseteq HoldingPCs /\ GuestPCs \subseteq HoldingPCs
  /\ {"serving", "closing", "joining"} \subseteq HoldingPCs
  /\ {"off", "name", "locked", "reporting"} \cap HoldingPCs = {}
  /\ OwingPCs \cap {"off", "serving", "closing", "joining"} = {}
BY DEF ListeningPCs, GuestPCs, OwingPCs, HoldingPCs, StartupPCs, ServingPCs, FailurePCs

\* Nobody owns anything at first.
LEMMA InitOwnership == Init => Ownership
BY LifecycleAssumption, Places DEF Init, Ownership

\* A start preserves the ownership.
LEMMA StartOwnership ==
  ASSUME TypeOK, Ownership, NEW r \in Runs, StartStep(r) \/ Launch(r)
  PROVE  Ownership'
<1> USE LifecycleAssumption, Places
    DEF TypeOK, Ownership, GuestPCs, diskVars, lockVars, runVars, starterVars, clientVars
<1>1. CASE StartReported(r) BY <1>1 DEF StartReported
<1>2. CASE StartGivesUp(r)  BY <1>2 DEF StartGivesUp
<1>3. CASE StartKillsRun(r) BY <1>3 DEF StartKillsRun, Vanishes, Unsettled
<1>4. CASE StartReaped(r)   BY <1>4 DEF StartReaped
<1>5. CASE Launch(r)        BY <1>5 DEF Launch, Spawn, ListeningPCs
<1> QED BY <1>1, <1>2, <1>3, <1>4, <1>5 DEF StartStep

\* A step of Supervise, until readiness, preserves the ownership.
LEMMA StartupOwnership ==
  ASSUME TypeOK, Ownership, NEW r \in Runs, StartupStep(r) \/ TakeName(r)
  PROVE  Ownership'
<1> USE LifecycleAssumption
    DEF TypeOK, Ownership, Goes, HoldingPCs, ListeningPCs, GuestPCs, OwingPCs, StartupPCs,
        ServingPCs, FailurePCs, diskVars, lockVars, runVars, starterVars, clientVars
<1>1.  CASE Refused(r)         BY <1>1 DEF Refused
<1>2.  CASE TakeLifetime(r)    BY <1>2 DEF TakeLifetime
<1>3.  CASE CleanStale(r)      BY <1>3 DEF CleanStale
<1>4.  CASE WriteMetadata(r)   BY <1>4 DEF WriteMetadata
<1>5.  CASE BindSocket(r)      BY <1>5 DEF BindSocket
<1>6.  CASE Fork(r)            BY <1>6 DEF Fork
<1>7.  CASE BackendStarted(r)  BY <1>7 DEF BackendStarted
<1>8.  CASE ClearFailure(r)    BY <1>8 DEF ClearFailure
<1>9.  CASE Announce(r)        BY <1>9 DEF Announce
<1>10. CASE StartupFails(r)    BY <1>10 DEF StartupFails
<1>11. CASE AbortKillsChild(r) BY <1>11 DEF AbortKillsChild
<1>12. CASE RecordFailure(r)   BY <1>12 DEF RecordFailure, Unsettled
<1>13. CASE TakeName(r)        BY <1>13 DEF TakeName
<1>14. CASE SeesAlive(r)       BY <1>14 DEF SeesAlive
<1> QED BY <1>1, <1>2, <1>3, <1>4, <1>5, <1>6, <1>7, <1>8, <1>9, <1>10, <1>11, <1>12, <1>13,
           <1>14 DEF StartupStep

\* A step of Supervise, once ready, and the end of its process preserve the ownership.
LEMMA ServingOwnership ==
  ASSUME TypeOK, Ownership, NEW r \in Runs, ServingStep(r) \/ GuestExits(r) \/ Crash(r)
  PROVE  Ownership'
<1> USE LifecycleAssumption
    DEF TypeOK, Ownership, Goes, HoldingPCs, ListeningPCs, GuestPCs, OwingPCs, StartupPCs,
        ServingPCs, FailurePCs, diskVars, lockVars, runVars, starterVars, clientVars
<1>1. CASE SeesExit(r)        BY <1>1 DEF SeesExit
<1>2. CASE StopServing(r)     BY <1>2 DEF StopServing
<1>3. CASE HandlersJoined(r)  BY <1>3 DEF HandlersJoined
<1>4. CASE FinalizeRun(r)     BY <1>4 DEF FinalizeRun
<1>5. CASE ReleaseLifetime(r) BY <1>5 DEF ReleaseLifetime
<1>6. CASE ReportAndExit(r)   BY <1>6 DEF ReportAndExit
<1>7. CASE GuestExits(r)      BY <1>7 DEF GuestExits
<1>8. CASE Crash(r)           BY <1>8 DEF Crash, Vanishes, Unsettled
<1> QED BY <1>1, <1>2, <1>3, <1>4, <1>5, <1>6, <1>7, <1>8 DEF ServingStep

\* A step of a status, a stop or a restart preserves the ownership.
LEMMA ClientOwnership ==
  ASSUME TypeOK, Ownership, NEW c \in Clients, Command(c) \/ ClientStep(c) \/ Relaunch(c)
  PROVE  Ownership'
<1> USE LifecycleAssumption, Places
    DEF TypeOK, Ownership, Answer, Ends, Served,
        diskVars, lockVars, runVars, starterVars, clientVars
<1>1.  CASE Command(c)        BY <1>1 DEF Command
<1>2.  CASE Connect(c)        BY <1>2 DEF Connect
<1>3.  CASE StatusServed(c)   BY <1>3 DEF StatusServed
<1>4.  CASE StopDispatched(c) BY <1>4 DEF StopDispatched
<1>5.  CASE StopConfirmed(c)  BY <1>5 DEF StopConfirmed
<1>6.  CASE StopFailed(c)     BY <1>6 DEF StopFailed
<1>7.  CASE Cut(c)            BY <1>7 DEF Cut
<1>8.  CASE ProbeAcquires(c)  BY <1>8 DEF ProbeAcquires
<1>9.  CASE ProbeReleases(c)  BY <1>9 DEF ProbeReleases
<1>10. CASE ProbeFails(c)     BY <1>10 DEF ProbeFails
<1>11. CASE StatusOffline(c)  BY <1>11 DEF StatusOffline
<1>12. CASE StatusHeld(c)     BY <1>12 DEF StatusHeld
<1>13. CASE Relaunch(c)
  <2>1. PICK r \in Runs : Spawn(r, peer[c]) BY <1>13 DEF Relaunch
  <2> QED BY <1>13, <2>1 DEF Relaunch, Spawn, ListeningPCs
<1> QED BY <1>1, <1>2, <1>3, <1>4, <1>5, <1>6, <1>7, <1>8, <1>9, <1>10, <1>11, <1>12, <1>13
        DEF ClientStep

\* A step of a delete preserves the ownership.
LEMMA DeleteOwnership ==
  ASSUME TypeOK, Ownership, NEW c \in Clients, DeleteStep(c) \/ DeleteLocks(c)
  PROVE  Ownership'
<1> USE LifecycleAssumption, Places
    DEF TypeOK, Ownership, Ends, diskVars, lockVars, runVars, starterVars, clientVars
<1>1. CASE DeleteLocks(c)   BY <1>1 DEF DeleteLocks
<1>2. CASE DeleteChecks(c)  BY <1>2 DEF DeleteChecks
<1>3. CASE DeleteRefused(c) BY <1>3 DEF DeleteRefused
<1>4. CASE DeleteRemoves(c) BY <1>4 DEF DeleteRemoves
<1>5. CASE DeleteUnlocks(c) BY <1>5 DEF DeleteUnlocks
<1> QED BY <1>1, <1>2, <1>3, <1>4, <1>5 DEF DeleteStep

\* Every step preserves the ownership.
LEMMA OwnershipInductive == TypeOK /\ Ownership /\ [Next]_vars => Ownership'
<1> SUFFICES ASSUME TypeOK, Ownership, [Next]_vars PROVE Ownership'
  OBVIOUS
<1>1. CASE UNCHANGED vars
  BY <1>1 DEF vars, Ownership, diskVars, lockVars, runVars, starterVars, clientVars
<1>2. CASE MetadataAges
  BY <1>2 DEF MetadataAges, Ownership, lockVars, runVars, starterVars, clientVars
<1>3. ASSUME NEW r \in Runs,
             \/ Launch(r) \/ StartStep(r) \/ TakeName(r) \/ StartupStep(r) \/ ServingStep(r)
             \/ GuestExits(r) \/ Crash(r)
      PROVE  Ownership'
  BY <1>3, StartOwnership, StartupOwnership, ServingOwnership
<1>4. ASSUME NEW c \in Clients,
             Command(c) \/ ClientStep(c) \/ Relaunch(c) \/ DeleteLocks(c) \/ DeleteStep(c)
      PROVE  Ownership'
  BY <1>4, ClientOwnership, DeleteOwnership
<1> QED BY <1>1, <1>2, <1>3, <1>4 DEF Next

\* The ownership is an invariant.
LEMMA OwnershipInvariant == Spec => []Ownership
BY InitOwnership, OwnershipInductive, TypeCorrect, PTL DEF Spec

\* A supervised guest runs only while its own supervisor holds the lifetime lock
\* (supervisor.go, TryLockLifetime to the deferred Close), whatever starts, probes,
\* deletes and crashes go on.
THEOREM LockIsProof == Spec => []LockProvesOffline
<1>1. TypeOK /\ Ownership => LockProvesOffline
  BY Places DEF TypeOK, Ownership, LockProvesOffline, Alive, Orphans
<1> QED BY <1>1, TypeCorrect, OwnershipInvariant, PTL

\* Whoever listens at control.sock holds the lifetime lock (supervisor.go: the listener
\* is bound after the lock is taken and closed before it is released).
THEOREM ListenerIsHolder == Spec => []HolderListens
<1>1. TypeOK /\ Ownership => HolderListens
  BY Places DEF TypeOK, Ownership, HolderListens
<1> QED BY <1>1, TypeCorrect, OwnershipInvariant, PTL

\* A delete never removes the files of a supervised guest (store.go, Delete).
THEOREM FilesAreKept == Spec => []FilesOutliveGuest
<1>1. TypeOK /\ Ownership => FilesOutliveGuest
  BY Places DEF TypeOK, Ownership, FilesOutliveGuest, Alive, Orphans
<1> QED BY <1>1, TypeCorrect, OwnershipInvariant, PTL

\* A start that reports failure holds nothing any more (client.go, terminateAndReap).
THEOREM FailedStartIsGone == Spec => []FailedStartLetsGo
<1>1. TypeOK /\ Ownership => FailedStartLetsGo
  BY LifecycleAssumption, Places
     DEF TypeOK, Ownership, FailedStartLetsGo
<1> QED BY <1>1, TypeCorrect, OwnershipInvariant, PTL

\* A supervised guest holds the lock, so whoever else holds it has proof there is none.
LEMMA HolderIsAlone ==
  ASSUME TypeOK, Ownership, lifetime \notin Alive
  PROVE  Alive \subseteq Orphans
BY Places DEF TypeOK, Ownership, Alive, Orphans

\* A stop is confirmed only when every guest that is alive was orphaned: by the
\* supervisor of the child that was reaped (control_server.go), or by the lock that the
\* command itself holds (stop.go).
THEOREM StopIsProof == Spec => StopConfirmsOffline
<1> DEFINE Confirms(c) ==
      op[c] # "status" /\ answer'[c] = "stopped" /\ answer[c] # "stopped"
<1>1. ASSUME TypeOK, Ownership, Next, NEW c \in Clients, Confirms(c)
      PROVE  StopConfirmed(c) \/ ProbeReleases(c)
  <2> USE DEF TypeOK, diskVars, lockVars, runVars, starterVars, clientVars
  <2>1. ASSUME NEW r \in Runs,
               \/ Launch(r) \/ StartStep(r) \/ TakeName(r) \/ StartupStep(r) \/ ServingStep(r)
               \/ GuestExits(r) \/ Crash(r)
        PROVE  answer' = answer
    BY <2>1 DEF Launch, Spawn, StartStep, StartReported, StartGivesUp, StartKillsRun, Vanishes,
         StartReaped, TakeName, StartupStep, Refused, TakeLifetime, CleanStale, WriteMetadata,
         BindSocket, Fork, BackendStarted, SeesAlive, ClearFailure, Announce, StartupFails,
         AbortKillsChild, RecordFailure, ServingStep, SeesExit, StopServing, HandlersJoined,
         FinalizeRun, ReleaseLifetime, ReportAndExit, GuestExits, Crash
  <2>2. MetadataAges => answer' = answer
    BY DEF MetadataAges
  <2>3. ASSUME NEW d \in Clients,
               Command(d) \/ Relaunch(d) \/ DeleteLocks(d) \/ DeleteStep(d)
        PROVE  answer'[c] \in {answer[c], "none", "error", "deleted"}
    BY <1>1, <2>3 DEF Command, Relaunch, Ends, DeleteLocks, DeleteStep, DeleteChecks, DeleteRefused,
         DeleteRemoves, DeleteUnlocks
  <2>4. ASSUME NEW d \in Clients, ClientStep(d)
        PROVE  StopConfirmed(c) \/ ProbeReleases(c)
    <3>1. CASE d # c
      BY <1>1, <2>4, <3>1 DEF Ownership, ClientStep, Connect, StatusServed, StopDispatched,
           StopConfirmed, StopFailed, Cut, ProbeAcquires, ProbeReleases, ProbeFails,
           StatusOffline, StatusHeld, Answer, Served
    <3>2. CASE d = c
      BY <1>1, <2>4, <3>2 DEF Ownership, ClientStep, Connect, StatusServed, StopDispatched,
           StopConfirmed, StopFailed, Cut, ProbeAcquires, ProbeReleases, ProbeFails,
           StatusOffline, StatusHeld, Answer, Served
    <3> QED BY <3>1, <3>2
  <2> QED BY <1>1, <2>1, <2>2, <2>3, <2>4 DEF Next
<1>2. ASSUME TypeOK, Ownership, NEW c \in Clients, StopConfirmed(c) \/ ProbeReleases(c)
      PROVE  Alive' \subseteq Orphans'
  <2>1. UNCHANGED <<pc, qemu>>
    BY <1>2 DEF StopConfirmed, ProbeReleases, runVars
  <2>2. lifetime \notin Alive
    <3>1. CASE StopConfirmed(c)
      BY <1>2, <3>1, Places DEF StopConfirmed, TypeOK, Ownership, Alive
    <3>2. CASE ProbeReleases(c)
      BY <1>2, <3>2, LifecycleAssumption DEF ProbeReleases, Ownership, Alive
    <3> QED BY <1>2, <3>1, <3>2
  <2> QED BY <1>2, <2>1, <2>2, HolderIsAlone DEF Alive, Orphans
<1>3. TypeOK /\ Ownership /\ [Next]_vars
        => [\A c \in Clients : Confirms(c) => Alive' \subseteq Orphans']_vars
  BY <1>1, <1>2
<1> QED BY <1>3, TypeCorrect, OwnershipInvariant, PTL DEF Spec, StopConfirmsOffline

\* The record of a failure is erased only by a run that has got its guest up and still
\* holds the lifetime lock (supervisor.go, ClearFailedLastExit to WriteReady or to the
\* deferred recordFailure): what it owes is settled before it lets go.
THEOREM FailureStays == Spec => []FailureIsRemembered
<1>1. Ownership => FailureIsRemembered
  BY DEF Ownership, FailureIsRemembered
<1> QED BY <1>1, OwnershipInvariant, PTL
=============================================================================

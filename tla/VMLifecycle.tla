----------------------------- MODULE VMLifecycle -----------------------------
(***************************************************************************)
(* One VM over many runs: the CLI commands and the supervisor processes    *)
(* that share its files, its two locks and its control socket              *)
(* (internal/supervisor/supervisor.go and client.go, internal/lifecycle,   *)
(* internal/store).                                                        *)
(*                                                                         *)
(*   r \in Runs    a supervisor process and the `start` (or `restart`)     *)
(*                 that launched it and waits on its readiness pipe; a run *)
(*                 that is over is used again for a later one;             *)
(*   c \in Clients a CLI command: status, stop, restart or delete.         *)
(*                                                                         *)
(* A supervisor may be killed at any moment (Crash, at most MaxCrashes     *)
(* times), or by a SIGTERM that it does not catch: the kernel drops its    *)
(* locks and descriptors, QEMU goes a moment later (exit-with-parent).     *)
(* What happens inside a run that serves is the subject of SupervisedRun;  *)
(* here it is a child that is alive or dead and stops that get an answer.  *)
(***************************************************************************)
EXTENDS Naturals, FiniteSets

CONSTANTS
  Runs,        \* supervisor processes
  Clients,     \* CLI commands
  Ops,         \* the commands clients give
  MaxCrashes,  \* bound: supervisors killed
  None

ASSUME LifecycleAssumption ==
  /\ Runs \cap Clients = {} /\ None \notin Runs \cup Clients
  /\ Ops \subseteq {"status", "stop", "force", "restart", "delete"}
  /\ MaxCrashes \in Nat

VARIABLES
  config,    \* config.json and the VM's disks exist
  nameLock,  \* who holds the lock of the VM's name
  lifetime,  \* who holds the lock of the VM's immutable ID
  socket,    \* the run whose listener is at control.sock
  metadata,  \* runtime.json: "none", or "fresh" or "old" by its started_at
  lastExit,  \* last_exit.json: "none", "zero" or "nonzero"
  evidence,  \* history: the record of a failure is "kept" (or settled), "erased" by a
             \* run that is starting, or "lost": nothing has taken its place
  pc,        \* where each supervisor is in Supervise
  qemu,      \* its QEMU child: "none", "alive" or "dead"
  ready,     \* its readiness pipe: "none", "ok", "failed" or "closed"
  signal,    \* it has caught a SIGTERM
  starter,   \* the command that launched it: "idle", "waiting", "reaping",
             \* "started" or "failed"
  after,     \* the run that the restart which launched it has stopped, or None
  cpc,       \* where each command is
  op,        \* the command
  peer,      \* the run it is, or was, connected to
  answer,    \* what it reported
  crashes

diskVars    == <<config, metadata, lastExit, evidence>>
lockVars    == <<nameLock, lifetime>>
runVars     == <<pc, qemu, ready>>
starterVars == <<signal, starter, after>>
clientVars  == <<cpc, op, peer, answer>>
vars == <<diskVars, lockVars, socket, runVars, starterVars, clientVars, crashes>>

\* Before signal.Notify; with the lifetime lock, until readiness; ready; after a
\* failed start; and with the exit recorded.
EarlyPCs   == {"name", "locked", "cleaning"}
StartupPCs == {"preflight", "binding", "starting", "checking", "clearing", "announcing"}
ServingPCs == {"serving", "closing", "joining", "recording"}
FailurePCs == {"aborting", "abandoning"}
LatePCs    == {"unlocking", "reporting"}
RunPCs     == {"off"} \cup EarlyPCs \cup StartupPCs \cup ServingPCs \cup FailurePCs
                \cup LatePCs

\* Where SIGTERM has its default action: before signal.Notify, and in the deferred
\* calls, the first of which is signal.Stop.
UnguardedPCs == EarlyPCs \cup FailurePCs \cup LatePCs
ClientPCs  == {"idle", "connect", "connected", "stopping", "probe", "release",
               "readExit", "readRuntime", "relaunch", "lock", "check", "remove", "unlock"}

Init ==
  /\ config = TRUE /\ metadata = "none" /\ lastExit = "none" /\ evidence = "kept"
  /\ nameLock = None /\ lifetime = None /\ socket = None
  /\ pc      = [r \in Runs |-> "off"]
  /\ qemu    = [r \in Runs |-> "none"]
  /\ ready   = [r \in Runs |-> "none"]
  /\ signal  = [r \in Runs |-> FALSE]
  /\ starter = [r \in Runs |-> "idle"]
  /\ after   = [r \in Runs |-> None]
  /\ cpc     = [c \in Clients |-> "idle"]
  /\ op      = [c \in Clients |-> "none"]
  /\ peer    = [c \in Clients |-> None]
  /\ answer  = [c \in Clients |-> "none"]
  /\ crashes = 0

-----------------------------------------------------------------------------
(* start: the command that launches a supervisor. *)

Goes(r, from, to) == pc[r] = from /\ pc' = [pc EXCEPT ![r] = to]

\* A run is used again once nothing is left of it.
Spawn(r, stopped) ==
  /\ pc[r] = "off" /\ starter[r] \notin {"waiting", "reaping"} /\ qemu[r] # "alive"
  /\ \A c \in Clients : peer[c] # r \/ cpc[c] \notin {"connected", "stopping"}
  /\ pc'      = [pc EXCEPT ![r] = "name"]
  /\ qemu'    = [qemu EXCEPT ![r] = "none"]
  /\ ready'   = [ready EXCEPT ![r] = "none"]
  /\ signal'  = [signal EXCEPT ![r] = FALSE]
  /\ starter' = [starter EXCEPT ![r] = "waiting"]
  /\ after'   = [after EXCEPT ![r] = stopped]
  /\ UNCHANGED <<diskVars, lockVars, socket, crashes>>

Launch(r) == config /\ Spawn(r, None) /\ UNCHANGED clientVars

\* awaitReady: a good message ends the start ...
StartReported(r) ==
  /\ starter[r] = "waiting" /\ ready[r] = "ok"
  /\ starter' = [starter EXCEPT ![r] = "started"]
  /\ UNCHANGED <<diskVars, lockVars, socket, runVars, signal, after, clientVars, crashes>>

\* Mutant: the supervisor is waited for, but not told to end.
StartGivesUpSilently(r) ==
  /\ starter[r] = "waiting" /\ pc[r] \notin UnguardedPCs
  /\ starter' = [starter EXCEPT ![r] = "reaping"]
  /\ UNCHANGED <<diskVars, lockVars, socket, runVars, signal, after, clientVars, crashes>>

\* ... a bad one, the closed pipe, the timeout or a cancelled command sends SIGTERM,
\* which the supervisor catches ...
StartGivesUp(r) ==
  /\ starter[r] = "waiting" /\ pc[r] \notin UnguardedPCs
  /\ starter' = [starter EXCEPT ![r] = "reaping"]
  /\ signal' = [signal EXCEPT ![r] = TRUE]
  /\ UNCHANGED <<diskVars, lockVars, socket, runVars, after, clientVars, crashes>>

\* Nothing will take the place of the record that was erased.
Unsettled == IF evidence = "erased" THEN "lost" ELSE evidence

\* The process ends without its deferred calls.
Vanishes(r) ==
  /\ pc' = [pc EXCEPT ![r] = "off"]
  /\ ready' = [ready EXCEPT ![r] = IF @ = "none" THEN "closed" ELSE @]
  /\ nameLock' = IF nameLock = r THEN None ELSE nameLock
  /\ lifetime' = IF lifetime = r THEN None ELSE lifetime
  /\ socket' = IF socket = r THEN None ELSE socket
  /\ evidence' = IF lifetime = r THEN Unsettled ELSE evidence
  /\ UNCHANGED <<config, metadata, lastExit, qemu, clientVars>>

\* ... or which ends it there and then; the child goes a moment later.
StartKillsRun(r) ==
  /\ starter[r] = "waiting" /\ pc[r] \in UnguardedPCs
  /\ starter' = [starter EXCEPT ![r] = "reaping"]
  /\ Vanishes(r)
  /\ UNCHANGED <<signal, after, crashes>>

\* Mutant: the supervisor is signalled but not waited for.
StartReapedEarly(r) ==
  /\ starter[r] = "reaping"
  /\ starter' = [starter EXCEPT ![r] = "failed"]
  /\ UNCHANGED <<diskVars, lockVars, socket, runVars, signal, after, clientVars, crashes>>

\* ... and waits for the process to end.
StartReaped(r) ==
  /\ starter[r] = "reaping" /\ pc[r] = "off"
  /\ starter' = [starter EXCEPT ![r] = "failed"]
  /\ UNCHANGED <<diskVars, lockVars, socket, runVars, signal, after, clientVars, crashes>>

-----------------------------------------------------------------------------
(* Supervise, until readiness. *)

TakeName(r) ==
  /\ nameLock = None /\ Goes(r, "name", "locked")
  /\ nameLock' = r
  /\ UNCHANGED <<diskVars, lifetime, socket, qemu, ready, starterVars, clientVars, crashes>>

\* The config is gone, or the lifetime lock is held ("already running") ...
Refused(r) ==
  /\ ~config \/ lifetime # None
  /\ Goes(r, "locked", "reporting")
  /\ after' = [after EXCEPT ![r] = None]
  /\ UNCHANGED <<diskVars, lockVars, socket, qemu, ready, signal, starter, clientVars, crashes>>

\* ... or it is this run's until the run is over.
TakeLifetime(r) ==
  /\ config /\ lifetime = None /\ Goes(r, "locked", "cleaning")
  /\ lifetime' = r
  /\ after' = [after EXCEPT ![r] = None]
  /\ UNCHANGED <<diskVars, nameLock, socket, qemu, ready, signal, starter, clientVars, crashes>>

\* CleanupRuntime removes what an earlier run left, except last_exit.json.
CleanStale(r) ==
  /\ Goes(r, "cleaning", "preflight")
  /\ metadata' = "none"
  /\ UNCHANGED <<config, lastExit, evidence, lockVars, socket, qemu, ready, starterVars,
                 clientVars, crashes>>

\* Preflight and the metrics listener, then WriteRuntimeMetadata.
WriteMetadata(r) ==
  /\ Goes(r, "preflight", "binding")
  /\ metadata' = "fresh"
  /\ UNCHANGED <<config, lastExit, evidence, lockVars, socket, qemu, ready, starterVars,
                 clientVars, crashes>>

\* The control socket accepts connections from here on; nobody serves them yet.
BindSocket(r) ==
  /\ Goes(r, "binding", "starting")
  /\ socket' = r
  /\ UNCHANGED <<diskVars, lockVars, qemu, ready, starterVars, clientVars, crashes>>

\* backend.Start forks QEMU ...
Fork(r) ==
  /\ pc[r] = "starting" /\ qemu[r] = "none"
  /\ qemu' = [qemu EXCEPT ![r] = "alive"]
  /\ UNCHANGED <<diskVars, lockVars, socket, pc, ready, starterVars, clientVars, crashes>>

\* ... and returns once QMP reports it ready; the name lock is released.
BackendStarted(r) ==
  /\ qemu[r] # "none" /\ Goes(r, "starting", "checking")
  /\ nameLock' = None
  /\ UNCHANGED <<diskVars, lifetime, socket, qemu, ready, starterVars, clientVars, crashes>>

\* Status and monitoring; the run is not done yet (the select before ClearFailedLastExit).
SeesAlive(r) ==
  /\ qemu[r] = "alive" /\ Goes(r, "checking", "clearing")
  /\ UNCHANGED <<diskVars, lockVars, socket, qemu, ready, starterVars, clientVars, crashes>>

\* ClearFailedLastExit, whatever has become of the child since.
ClearFailure(r) ==
  /\ Goes(r, "clearing", "announcing")
  /\ IF lastExit = "nonzero"
     THEN lastExit' = "none" /\ evidence' = "erased"
     ELSE UNCHANGED <<lastExit, evidence>>
  /\ UNCHANGED <<config, metadata, lockVars, socket, qemu, ready, starterVars, clientVars,
                 crashes>>

\* The run is not terminal and nobody cancelled the start: WriteReady, then serve.
Announce(r) ==
  /\ qemu[r] = "alive" /\ Goes(r, "announcing", "serving")
  /\ ready' = [ready EXCEPT ![r] = "ok"]
  /\ evidence' = "kept"
  /\ UNCHANGED <<config, metadata, lastExit, lockVars, socket, qemu, starterVars, clientVars,
                 crashes>>

\* Mutant: the listener of a failed start stays open.
StartupFailsListening(r) ==
  /\ pc[r] \in StartupPCs \cup {"cleaning"}
  /\ pc[r] = "starting" => qemu[r] # "alive"
  /\ pc' = [pc EXCEPT ![r] = "aborting"]
  /\ UNCHANGED <<diskVars, lockVars, socket, qemu, ready, starterVars, clientVars, crashes>>

\* Any step may fail: an error, the start timeout, a signal, a backend that exited.
\* The deferred calls begin: signal.Stop, and the listener is closed.  A backend.Start
\* that fails has already ended its child (GuestExits).
StartupFails(r) ==
  /\ pc[r] \in StartupPCs \cup {"cleaning"}
  /\ pc[r] = "starting" => qemu[r] # "alive"
  /\ pc' = [pc EXCEPT ![r] = "aborting"]
  /\ socket' = IF socket = r THEN None ELSE socket
  /\ UNCHANGED <<diskVars, lockVars, qemu, ready, starterVars, clientVars, crashes>>

\* Mutant: the failed start leaves its child alone.
AbortLeavesChild(r) ==
  /\ Goes(r, "aborting", "abandoning")
  /\ UNCHANGED <<diskVars, lockVars, socket, qemu, ready, starterVars, clientVars, crashes>>

\* run.force: the child is reaped.
AbortKillsChild(r) ==
  /\ Goes(r, "aborting", "abandoning")
  /\ qemu' = [qemu EXCEPT ![r] = IF @ = "alive" THEN "dead" ELSE @]
  /\ UNCHANGED <<diskVars, lockVars, socket, ready, starterVars, clientVars, crashes>>

\* Mutant: the deferred call of a failed start only cleans up.
FailUnrecorded(r) ==
  /\ Goes(r, "abandoning", "unlocking")
  /\ metadata' \in {"none", metadata}
  /\ UNCHANGED <<config, lastExit, evidence, lockVars, socket, qemu, ready, starterVars,
                 clientVars, crashes>>

\* CleanupRuntime and the exit record, 0 if a signal asked for it; it may not be writable.
RecordFailure(r) ==
  /\ Goes(r, "abandoning", "unlocking")
  /\ metadata' \in {"none", metadata}
  /\ \/ lastExit' = "nonzero" /\ evidence' = "kept"
     \/ signal[r] /\ lastExit' = "zero" /\ evidence' = "kept"
     \/ UNCHANGED lastExit /\ evidence' = Unsettled
  /\ UNCHANGED <<config, lockVars, socket, qemu, ready, starterVars, clientVars, crashes>>

\* The deferred calls, in their order: the lifetime lock ...
ReleaseLifetime(r) ==
  /\ Goes(r, "unlocking", "reporting")
  /\ lifetime' = None
  /\ UNCHANGED <<diskVars, nameLock, socket, qemu, ready, starterVars, clientVars, crashes>>

\* ... the name lock if it is still held, the bad readiness message, and the end.
ReportAndExit(r) ==
  /\ Goes(r, "reporting", "off")
  /\ nameLock' = IF nameLock = r THEN None ELSE nameLock
  /\ ready' = [ready EXCEPT ![r] = IF @ = "none" THEN "failed" ELSE @]
  /\ UNCHANGED <<diskVars, lifetime, socket, qemu, starterVars, clientVars, crashes>>

-----------------------------------------------------------------------------
(* Supervise, once ready. *)

\* The guest powers off, QEMU dies, or a backend.Start that fails ends it (ForceStop).
GuestExits(r) ==
  /\ qemu[r] = "alive"
  /\ qemu' = [qemu EXCEPT ![r] = "dead"]
  /\ UNCHANGED <<diskVars, lockVars, socket, pc, ready, starterVars, clientVars, crashes>>

\* A signal, or a client's force, ends the child in the end (see SupervisedRun).
StopTakesEffect(r) ==
  /\ pc[r] = "serving"
  /\ signal[r] \/ \E c \in Clients : cpc[c] = "stopping" /\ op[c] = "force" /\ peer[c] = r
  /\ GuestExits(r)

SeesExit(r) ==
  /\ qemu[r] = "dead" /\ Goes(r, "serving", "closing")
  /\ UNCHANGED <<diskVars, lockVars, socket, qemu, ready, starterVars, clientVars, crashes>>

StopServing(r) ==
  /\ Goes(r, "closing", "joining")
  /\ socket' = IF socket = r THEN None ELSE socket
  /\ UNCHANGED <<diskVars, lockVars, qemu, ready, starterVars, clientVars, crashes>>

\* Every handler has ended: stops are answered, other connections were closed.
HandlersJoined(r) ==
  /\ \A c \in Clients : peer[c] = r => cpc[c] \notin {"connected", "stopping"}
  /\ Goes(r, "joining", "recording")
  /\ UNCHANGED <<diskVars, lockVars, socket, qemu, ready, starterVars, clientVars, crashes>>

\* finalizeRun: CleanupRuntime and WriteLastExit, either of which may fail.
FinalizeRun(r) ==
  /\ Goes(r, "recording", "unlocking")
  /\ metadata' \in {"none", metadata}
  /\ lastExit' \in {"zero", "nonzero", lastExit}
  /\ UNCHANGED <<config, evidence, lockVars, socket, qemu, ready, starterVars, clientVars,
                 crashes>>

-----------------------------------------------------------------------------
(* The end of a supervisor that nobody planned. *)

\* SIGKILL, or a crash of the supervisor.  QEMU is told by the kernel that its parent is
\* gone (-run-with exit-with-parent=on, qemu/command.go) and ends by itself, later.
Crash(r) ==
  /\ pc[r] # "off" /\ crashes < MaxCrashes
  /\ crashes' = crashes + 1
  /\ Vanishes(r)
  /\ UNCHANGED starterVars

\* started_at is startupObservationWindow ago.
MetadataAges ==
  /\ metadata = "fresh" /\ metadata' = "old"
  /\ UNCHANGED <<config, lastExit, evidence, lockVars, socket, runVars, starterVars, clientVars,
                 crashes>>

-----------------------------------------------------------------------------
(* status, stop and restart: a request to the supervisor, or a probe of its lock. *)

Command(c) ==
  /\ cpc[c] = "idle" /\ config
  /\ \E o \in Ops :
       /\ op' = [op EXCEPT ![c] = o]
       /\ cpc' = [cpc EXCEPT ![c] = IF o = "delete" THEN "lock" ELSE "connect"]
  /\ answer' = [answer EXCEPT ![c] = "none"]
  /\ UNCHANGED <<diskVars, lockVars, socket, runVars, starterVars, peer, crashes>>

\* Mutant: a refused connection counts as one.
ConnectBlindly(c) ==
  /\ cpc[c] = "connect"
  /\ peer' = [peer EXCEPT ![c] = socket]
  /\ cpc' = [cpc EXCEPT ![c] = "connected"]
  /\ UNCHANGED <<diskVars, lockVars, socket, runVars, starterVars, op, answer, crashes>>

\* DialContext: the connection is accepted, or refused.
Connect(c) ==
  /\ cpc[c] = "connect"
  /\ peer' = [peer EXCEPT ![c] = socket]
  /\ cpc' = [cpc EXCEPT ![c] = IF socket = None THEN "probe" ELSE "connected"]
  /\ UNCHANGED <<diskVars, lockVars, socket, runVars, starterVars, op, answer, crashes>>

Served(c) == cpc[c] = "connected" /\ pc[peer[c]] \in {"serving", "closing"}

Ends(c) ==
  /\ cpc'  = [cpc EXCEPT ![c] = "idle"]
  /\ op'   = [op EXCEPT ![c] = "none"]
  /\ peer' = [peer EXCEPT ![c] = None]

\* The command ends with an answer; a restart whose stop succeeded goes on.
Answer(c, a) ==
  /\ answer' = [answer EXCEPT ![c] = a]
  /\ IF op[c] = "restart" /\ a = "stopped"
     THEN cpc' = [cpc EXCEPT ![c] = "relaunch"] /\ UNCHANGED <<op, peer>>
     ELSE Ends(c)

StatusServed(c) ==
  /\ Served(c) /\ op[c] = "status"
  /\ \E a \in {"live", "error"} : Answer(c, a)
  /\ UNCHANGED <<diskVars, lockVars, socket, runVars, starterVars, crashes>>

StopDispatched(c) ==
  /\ Served(c) /\ op[c] # "status"
  /\ cpc' = [cpc EXCEPT ![c] = "stopping"]
  /\ UNCHANGED <<diskVars, lockVars, socket, runVars, starterVars, op, peer, answer, crashes>>

\* Mutant: a stop is confirmed when the guest accepts it.
StopConfirmedEarly(c) ==
  /\ cpc[c] = "stopping" /\ pc[peer[c]] # "off"
  /\ Answer(c, "stopped")
  /\ UNCHANGED <<diskVars, lockVars, socket, runVars, starterVars, crashes>>

\* The child was reaped.
StopConfirmed(c) ==
  /\ cpc[c] = "stopping" /\ pc[peer[c]] # "off" /\ qemu[peer[c]] = "dead"
  /\ Answer(c, "stopped")
  /\ UNCHANGED <<diskVars, lockVars, socket, runVars, starterVars, crashes>>

\* A refused or timed out stop, or a force that failed.
StopFailed(c) ==
  /\ cpc[c] = "stopping" /\ pc[peer[c]] # "off"
  /\ op[c] = "force" => qemu[peer[c]] = "dead"
  /\ Answer(c, "error")
  /\ UNCHANGED <<diskVars, lockVars, socket, runVars, starterVars, crashes>>

\* Mutant: a connection that was accepted is never given up.
CutIfRefused(c) ==
  /\ cpc[c] = "stopping" /\ pc[peer[c]] = "off"
  /\ cpc' = [cpc EXCEPT ![c] = "probe"]
  /\ UNCHANGED <<diskVars, lockVars, socket, runVars, starterVars, op, peer, answer, crashes>>

\* The listener with its backlog, an idle connection, or the supervisor is gone.
Cut(c) ==
  /\ \/ cpc[c] = "connected" /\ socket # peer[c]
     \/ cpc[c] = "stopping" /\ pc[peer[c]] = "off"
  /\ cpc' = [cpc EXCEPT ![c] = "probe"]
  /\ UNCHANGED <<diskVars, lockVars, socket, runVars, starterVars, op, peer, answer, crashes>>

\* TryLifetime: nobody holds the lock ...
ProbeAcquires(c) ==
  /\ cpc[c] = "probe" /\ lifetime = None
  /\ lifetime' = c
  /\ cpc' = [cpc EXCEPT ![c] = "release"]
  /\ UNCHANGED <<diskVars, nameLock, socket, runVars, starterVars, op, peer, answer, crashes>>

ProbeReleases(c) ==
  /\ cpc[c] = "release"
  /\ lifetime' = None
  /\ IF op[c] = "status"
     THEN cpc' = [cpc EXCEPT ![c] = "readExit"] /\ UNCHANGED <<op, peer, answer>>
     ELSE Answer(c, "stopped")
  /\ UNCHANGED <<diskVars, nameLock, socket, runVars, starterVars, crashes>>

StatusOffline(c) ==
  /\ cpc[c] = "readExit"
  /\ Answer(c, IF lastExit = "nonzero" THEN "failed" ELSE "stopped")
  /\ UNCHANGED <<diskVars, lockVars, socket, runVars, starterVars, crashes>>

\* ... or somebody does: a transport error for a stop, runtime.json for a status.
ProbeFails(c) ==
  /\ cpc[c] = "probe" /\ lifetime # None
  /\ IF op[c] = "status"
     THEN cpc' = [cpc EXCEPT ![c] = "readRuntime"] /\ UNCHANGED <<op, peer, answer>>
     ELSE Answer(c, "error")
  /\ UNCHANGED <<diskVars, lockVars, socket, runVars, starterVars, crashes>>

StatusHeld(c) ==
  /\ cpc[c] = "readRuntime"
  /\ Answer(c, IF metadata = "fresh" THEN "starting" ELSE "unreachable")
  /\ UNCHANGED <<diskVars, lockVars, socket, runVars, starterVars, crashes>>

\* restart: startVM, right after the stop.
Relaunch(c) ==
  /\ cpc[c] = "relaunch"
  /\ \E r \in Runs : Spawn(r, peer[c])
  /\ Ends(c) /\ UNCHANGED answer

-----------------------------------------------------------------------------
(* delete: Store.Delete. *)

DeleteLocks(c) ==
  /\ cpc[c] = "lock" /\ nameLock = None
  /\ nameLock' = c
  /\ cpc' = [cpc EXCEPT ![c] = "check"]
  /\ UNCHANGED <<diskVars, lifetime, socket, runVars, starterVars, op, peer, answer, crashes>>

\* Mutant: the lifetime lock is not asked for.
DeleteUnchecked(c) ==
  /\ cpc[c] = "check" /\ config
  /\ cpc' = [cpc EXCEPT ![c] = "remove"]
  /\ UNCHANGED <<diskVars, lockVars, socket, runVars, starterVars, op, peer, answer, crashes>>

DeleteChecks(c) ==
  /\ cpc[c] = "check" /\ config /\ lifetime = None
  /\ lifetime' = c
  /\ cpc' = [cpc EXCEPT ![c] = "remove"]
  /\ UNCHANGED <<diskVars, nameLock, socket, runVars, starterVars, op, peer, answer, crashes>>

\* No config, a run that holds the lock, or an autostart job that is still there.
DeleteRefused(c) ==
  /\ \/ cpc[c] = "check" /\ (~config \/ lifetime # None)
     \/ cpc[c] = "remove"
  /\ cpc' = [cpc EXCEPT ![c] = "unlock"]
  /\ answer' = [answer EXCEPT ![c] = "error"]
  /\ UNCHANGED <<diskVars, lockVars, socket, runVars, starterVars, op, peer, crashes>>

\* The VM's files, its logs, and its runtime directory with the records.
DeleteRemoves(c) ==
  /\ cpc[c] = "remove"
  /\ config' = FALSE /\ metadata' = "none" /\ lastExit' = "none" /\ evidence' = "kept"
  /\ cpc' = [cpc EXCEPT ![c] = "unlock"]
  /\ answer' = [answer EXCEPT ![c] = "deleted"]
  /\ UNCHANGED <<lockVars, socket, runVars, starterVars, op, peer, crashes>>

DeleteUnlocks(c) ==
  /\ cpc[c] = "unlock"
  /\ lifetime' = IF lifetime = c THEN None ELSE lifetime
  /\ nameLock' = None
  /\ Ends(c)
  /\ UNCHANGED <<diskVars, socket, runVars, starterVars, answer, crashes>>

-----------------------------------------------------------------------------
StartStep(r) ==
  StartReported(r) \/ StartGivesUp(r) \/ StartKillsRun(r) \/ StartReaped(r)

StartupStep(r) ==
  \/ Refused(r) \/ TakeLifetime(r) \/ CleanStale(r) \/ WriteMetadata(r) \/ BindSocket(r)
  \/ Fork(r) \/ BackendStarted(r) \/ SeesAlive(r) \/ ClearFailure(r) \/ Announce(r)
  \/ StartupFails(r) \/ AbortKillsChild(r) \/ RecordFailure(r)

ServingStep(r) ==
  \/ SeesExit(r) \/ StopServing(r) \/ HandlersJoined(r) \/ FinalizeRun(r)
  \/ ReleaseLifetime(r) \/ ReportAndExit(r)

ClientStep(c) ==
  \/ Connect(c) \/ StatusServed(c) \/ StopDispatched(c) \/ StopConfirmed(c) \/ StopFailed(c)
  \/ Cut(c) \/ ProbeAcquires(c) \/ ProbeReleases(c) \/ ProbeFails(c) \/ StatusOffline(c)
  \/ StatusHeld(c)

DeleteStep(c) ==
  DeleteChecks(c) \/ DeleteRefused(c) \/ DeleteRemoves(c) \/ DeleteUnlocks(c)

Next ==
  \/ \E r \in Runs :
       \/ Launch(r) \/ StartStep(r) \/ TakeName(r) \/ StartupStep(r) \/ ServingStep(r)
       \/ GuestExits(r) \/ Crash(r)
  \/ \E c \in Clients :
       Command(c) \/ ClientStep(c) \/ Relaunch(c) \/ DeleteLocks(c) \/ DeleteStep(c)
  \/ MetadataAges

Spec == Init /\ [][Next]_vars

\* Processes run and their calls return (each wait has a timeout); a blocked flock is
\* granted in the end; a guest exits by itself only if it wants to.
Fairness ==
  /\ \A r \in Runs : /\ WF_vars(StartStep(r)) /\ WF_vars(StartupStep(r)) /\ WF_vars(ServingStep(r))
                     /\ WF_vars(StopTakesEffect(r))
  /\ \A c \in Clients : WF_vars(ClientStep(c)) /\ WF_vars(DeleteStep(c)) /\ SF_vars(DeleteLocks(c))

FairSpec == Spec /\ Fairness

-----------------------------------------------------------------------------
(* Properties. *)

TypeOK ==
  /\ config \in BOOLEAN
  /\ metadata \in {"none", "fresh", "old"} /\ lastExit \in {"none", "zero", "nonzero"}
  /\ evidence \in {"kept", "erased", "lost"}
  /\ nameLock \in Runs \cup Clients \cup {None} /\ lifetime \in Runs \cup Clients \cup {None}
  /\ socket \in Runs \cup {None}
  /\ pc \in [Runs -> RunPCs]
  /\ qemu \in [Runs -> {"none", "alive", "dead"}]
  /\ ready \in [Runs -> {"none", "ok", "failed", "closed"}]
  /\ signal \in [Runs -> BOOLEAN]
  /\ starter \in [Runs -> {"idle", "waiting", "reaping", "started", "failed"}]
  /\ after \in [Runs -> Runs \cup {None}]
  /\ cpc \in [Clients -> ClientPCs]
  /\ op \in [Clients -> Ops \cup {"none"}]
  /\ peer \in [Clients -> Runs \cup {None}]
  /\ \A c \in Clients : cpc[c] \in {"connected", "stopping"} => peer[c] # None
  /\ answer \in [Clients -> {"none", "live", "error", "stopped", "failed", "starting",
                             "unreachable", "deleted"}]
  /\ crashes \in 0..MaxCrashes

Alive   == {r \in Runs : qemu[r] = "alive"}
Orphans == {r \in Alive : pc[r] = "off"}

\* The lifetime lock proves what every command takes it to prove: a guest whose
\* supervisor is there runs only while that supervisor holds the lock (so there is one
\* at most), also across crashes and while another start, a probe or a delete tries
\* to take it.
LockProvesOffline == \A r \in Alive \ Orphans : lifetime = r

\* Whoever listens at control.sock holds the lifetime lock, also across crashes: a
\* command that gets through talks to the only run there is.
HolderListens == socket # None => lifetime = socket

\* The files of a VM are there as long as a supervised guest uses them.
FilesOutliveGuest == Alive \ Orphans # {} => config

\* A start that reports failure has left nothing that is in the way of the next one,
\* also when readiness, the start timeout and a cancelled command race (client.go:
\* "Detached failures always terminate and reap the child").
FailedStartLetsGo ==
  \A r \in Runs : starter[r] = "failed" => r \notin {nameLock, lifetime, socket}

\* A stop is confirmed only while no supervised guest of this VM is alive, whether the
\* answer is the supervisor's or a probe of the lock.
StopConfirmsOffline ==
  [][\A c \in Clients :
       op[c] # "status" /\ answer'[c] = "stopped" /\ answer[c] # "stopped"
         => Alive' \subseteq Orphans']_vars

\* The record of a failure is erased only by a run that has got its guest up (metadata.go:
\* "only after successful backend readiness"), and that run owes something for it: it
\* becomes ready, or it leaves a record of its own before it lets go of the lifetime lock,
\* also when its guest dies or the start is cancelled between the look at run.done, the
\* unlink and the readiness message.  Only a supervisor that is killed there, or cannot
\* write its record, leaves nothing behind ("lost").
FailureIsRemembered ==
  evidence = "erased" => lifetime \in Runs /\ qemu[lifetime] # "none"

\* A start ends, however the name lock, the backend and the readiness pipe behave.
StartEnds == \A r \in Runs : (starter[r] = "waiting") ~> (starter[r] \in {"started", "failed"})

\* Every command ends: one that reached the listener of a supervisor that is starting,
\* failing or finishing is served or cut off.
CommandEnds == \A c \in Clients : (cpc[c] # "idle") ~> (cpc[c] \in {"idle", "relaunch"})

\* A restart's start never finds the lock still held by the run its stop ended
\* ("waits until it is fully stopped").  The code does not keep this: the stop is
\* answered before the supervisor lets go of the lock.
RestartFindsItStopped ==
  \A r \in Runs : pc[r] = "locked" /\ after[r] # None => lifetime # after[r]
=============================================================================

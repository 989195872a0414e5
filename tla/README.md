# A verification project for qemu-manage

qemu-manage runs QEMU virtual machines from the command line. It has no daemon: each
running VM has one *supervisor* process of its own, and every command finds out what is
true by talking to that supervisor over a socket or, failing that, by trying to take a
file lock that only a supervisor holds. What makes the system hard is therefore not an
algorithm but coordination: the goroutines of a supervisor, the processes that share a
VM's files, the two protocols spoken to QEMU and the guest, and the steps of a start or a
stop at which something may fail.

This directory holds TLA+ models of that coordination, the TLC runs that check them, and
proofs of their safety properties for every value of the constants. All paths below are
under `src/internal/` unless they say otherwise.

## 1. Inventory

| Part | State it keeps | Operations | Works with | What is hard about it |
|---|---|---|---|---|
| Supervised run (`supervisor/run.go`) | stop flags, cached status, the shared graceful attempt, the force goroutine, tracked connections, the published exit | status, graceful stop, force, connection bookkeeping | backend instance, control server, supervisor | many callers, one attempt; deadline, exit and force race; a force must wait for a request in flight |
| Control server (`supervisor/control_server.go`, `protocol.go`) | listener, accept loop, one handler per connection | serve, handle, stop | supervised run, CLI client | teardown against handlers that read, wait or write |
| Supervisor (`supervisor/supervisor.go`, `metadata.go`) | two locks, runtime and exit records, socket, child, signal handler | Supervise: start, readiness, termination, exit record | all of the above, store, launching command | every step may fail; deferred calls run in reverse order; signals |
| Client and readiness pipe (`supervisor/client.go`) | the launched process, the pipe | StartProcess, awaitReady, terminateAndReap, Control | supervisor | timeout, cancellation and readiness race |
| Lifecycle service (`lifecycle/status.go`, `stop.go`) | none | Status, Stop, DeleteAllowed | control socket, lifetime lock, records | answers must be right while everything moves |
| Store (`store/store.go`, `lock.go`) | config file, VM directory, name lock, lifetime lock | Create, Load, Save, List, Delete, the locks | every command | crash and failure between file operations; lock order |
| Artifacts of a create (`cli/create.go`, `image_source.go`, `cloud_init.go`) | firmware, disk, seed, a download | copy, download, build, resize, take back | store (under the name lock) | a step that fails or falls silent half way |
| Configuration (`model/config.go`, `cli/config.go`, `qemu/command.go`) | the saved config | create, set, config apply, Validate, Render | store, instance | rules of three places that must agree |
| QEMU instance (`qemu/instance.go`) | child process, QMP client, guest agent gate | Start, Status, RequestShutdown, ForceStop, reap | supervised run, monitoring | force against request, monitoring against shutdown |
| QMP and guest agent clients (`qemu/qmp.go`, `qga.go`) | socket, decoder, event stream | execute, wait for events, synchronise | instance | late replies, cancelled commands |
| Serial log (`supervisor/serial_log.go`) | FIFO, copy goroutine, rotating file | start, finish, abort, write, rotate | supervisor | finish and abort against the copy loop; a rotation that fails half way |
| Monitoring (`monitoring/`, `supervisor/monitoring_server.go`) | snapshot, collection rounds, single-flight calls, HTTP server | collect, scrape, lifecycle update, stop | instance, supervisor | stale snapshots, work that outlives stop |
| launchd autostart (`launchd/`) | plist, bootstrapped job, autostart fields of the config, bridge helper | Enable, Disable, Start, provision | store, lifecycle, launchctl | transactions over three stores without a transaction manager |
| CLI (`cli/`) | none | the commands | all services | waiting for a VM that another process starts |
| Console, doctor, output | terminal mode; none | attach; probe; print | - | little: I/O or pure functions |

Correctness, part by part: the supervised run asks the guest once, never lets a force and
a request overlap, tells nobody of a success that has not happened, and ends; the control
server answers every stop exactly once and never holds the exit back; the supervisor
owns a guest if and only if it holds the lifetime lock, and leaves a truthful record; a
start leaves a running VM or nothing; status, stop and delete say or do "offline" things
only to an offline VM; the store never shows half a VM and keeps what a command has
confirmed; the parts of what can be saved fit together at the next start; every call to an instance ends, and says what
really happened; the serial log keeps the newest output in order; health is no older than
it claims; an autostart transaction either takes effect or is undone.

## 2. Modules

| Module | What it is |
|---|---|
| `SupervisedRun` | one run from readiness to the exit record: `run.go`, `control_server.go` and the terminal part of `supervisor.go` |
| `StopContract` | what a supervised run promises to clients, without the machinery: the abstract specification that `SupervisedRun` implements |
| `VMLifecycle` | one VM over many runs: the commands and supervisors that share its files, locks and socket |
| `SupervisedRunProofs`, `SupervisedRunExitProofs` | theorems about `SupervisedRun` |
| `StopContractProofs` | the proof that `SupervisedRun` implements `StopContract` |
| `VMLifecycleProofs` | theorems about `VMLifecycle` |
| `Autostart` | the launchd transactions of one VM over its config, its plists and its loaded jobs |
| `AutostartProofs` | theorems about `Autostart` |
| `VMConfig` | what `create`, `set` and `config apply` can save, what `Validate` accepts, what `Render` asks of QEMU |
| `QEMUInstance` | one QEMU process, from a configuration (it extends `VMConfig`) to its reaping, with the QMP connection, the guest agent and all callers |
| `QEMUInstanceProofs` | theorems about `QEMUInstance` and the configurations of `VMConfig` it starts from |
| `StoreFiles` | the files of one VM name, through failures, kills and power cuts |
| `StoreFilesProofs` | theorems about `StoreFiles` |
| `SerialLog` | the serial log sink: FIFO, copy loop, rotated files |
| `Monitoring` | collector, ping, snapshot and health |
| `RunServices` | the composition of `SerialLog` and `Monitoring` with `Service.Supervise`: in which order they are set up and taken down |
| `RunServicesProofs` | theorems about `RunServices`, and so about the log and the monitoring in it |
| `MCSupervisedRun`, `MCVMLifecycle`, `MCAutostart`, `MCVMConfig`, `MCQEMUInstance`, `MCStoreFiles`, `MCRunServices` | the TLC instances |

`SupervisedRun` sees an instance as `RequestShutdown` and `ForceStop` that answer in any way;
`QEMUInstance` is what stands behind them, and takes over from it that a request and a
force never overlap (`HandoffSafe` is a guard of `Call`). `RunServices` sees QEMU only as a
writer of the FIFO that ends.

### SupervisedRun

A step is one critical section of `run.mu` or one channel operation, so two goroutines
interleave exactly where the code lets them. `Main` is the goroutine of `Supervise`, each
element of `Conns` a connection slot with its handler, each element of `Attempts` a
`gracefulAttempt` with its `runGraceful` goroutine.

| Code | Model |
|---|---|
| `run.status.State`, `run.stopping`, `run.intentional` | `state`, `stopping`, `intentional` |
| `run.done` closed, `run.terminal` | `done` |
| `run.graceful`; the goroutine; its context; `accepted`; `err` | `graceful`; `phase`; `deadline`; `accepted`; `attemptErr` |
| `run.forceStarted`, `run.forceDone`, the goroutine; `requestDone`; `run.forceErr` | `force`; `forceWaits`; `forceErr` |
| `run.connections` (and its stop mark), `run.handlers` | `Handlers`, `marked`, `open` |
| program counter and locals of `stopWithProgress`, `currentStatus`, `handleConnection` | `pc`, `want`, `my`, `verdict` |
| progress frames, terminal frame | `told`, `sent` |
| accept loop, listener | `serving`, `listening` |
| `last_exit.json` | `lastExit` |

A handler's slot is used again once the handler has ended, and an attempt nobody refers
to any more is used again for another, as a garbage collector would. The two facts keep
the instance finite although a run may see any number of connections and refused
attempts; the assumption that there is an attempt more than there are connections
(`RunAssumption`) is what makes allocation never wait. The backend is nondeterministic:
`RequestShutdown` is accepted or refused at any time, the child ends at any time with any
result, `ForceStop` returns only after the child was reaped and may still report an
error.

### VMLifecycle

Each element of `Runs` is a supervisor process together with the command that launched
it and waits on the readiness pipe; each element of `Clients` is a status, stop, force,
restart or delete command. `pc[r]` walks through `Supervise` with its deferred calls,
`cpc[c]` through `lifecycle.Status`, `StopWithProgress` or `Store.Delete`. Shared state is
what is on disk (`config`, `metadata`, `lastExit`), the two advisory locks (`nameLock`,
`lifetime`), and the listener at the control socket (`socket`).

Two process deaths without deferred calls are modelled: `Crash` (SIGKILL, at most
`MaxCrashes` times) and `StartKillsRun`: the SIGTERM of a start that gives up
(`terminateAndReap`) has its default action wherever the supervisor is outside its
`signal.Notify` ... `signal.Stop` (`UnguardedPCs`). Either way the kernel frees the locks
and the socket stops accepting (`Vanishes`), and QEMU goes on for a moment, until
`-run-with exit-with-parent=on` (`qemu/command.go:65`) takes effect: such a guest is in
`Orphans`, and properties about the lock speak of `Alive \ Orphans`. The check of
`run.done`, the unlink of the failure record and the readiness message are three steps
(`SeesAlive`, `ClearFailure`, `Announce`), and `evidence` is the history of what became of that
record. What happens inside a serving run is left to `SupervisedRun`: here a stop is
answered "stopped" when the child is dead, or fails.

Not in this module: signals other than the starter's (they are in `SupervisedRun`), the
foreground start, two VMs (nothing is shared between VMs but directories), a recycled
name (commands check the immutable ID), and a network or disk that blocks for ever.

### Autostart

One transaction at a time: `Enable`, `Disable`, `Start` and the inspection of a delete hold the
name lock from their first read to their return, so `pc` is the program counter of the
one that is under way and the variables from `op` to `trouble` are its locals. `at` is the domain
a loop over both domains is at.

| Code | Model |
|---|---|
| config: present, `Autostart.Scope`, everything a plist is rendered from | `exists`, `scope`, `version` |
| installed plist of a domain, job launchd has loaded (with the content it was loaded from) | `plist[d]`, `loaded[d]` |
| `cfg`, `inspectBoth`; `states[i].loaded`, `.bootedOut`, `.removed` | `oldScope`, `seen`; `jobs`, `bootedOut`, `removed` |
| the returned error or result | `result` |

A step may fail without effect, or report its failure after it took effect (`FailsLate`: `sudo`
killed after `rm`, a directory sync after a rename); commands of the `Runner` also fail once the
context is cancelled, while file operations in the user's directory go on. Around the
transaction, without its lock: a login or a boot loads plists, the user removes a plist, a
cancellation comes, the process is killed, supervisors start (under the lock) and end.
`faults`, `trouble` and `scars` are history: they say what a transaction has met, and the
properties use them to say what is promised under which trouble.

Not in this module: `launchctl enable` and the bridge helper, and a job's restarts under
KeepAlive (a loaded job may start its VM whenever the lock is free).

### VMConfig

The one variable is the saved configuration; `Create`, `Set`, `Apply` and `Delete` are the
commands, each with the refusals of its own flags and then `Valid`. A field that no rule
relates to another one (name, UUID, MAC, paths, machine, clock, keyboard) is left out, and
a text that is parsed is the value it is parsed into. `Render` keeps of a command line what
it defines and refers to, the order of its drives, the ports of its USB controller, what
it and the metrics server listen on, and the options it gives, since these are what several
fields decide together; `Fits` says when they fit. Of `qemu.extra_args`, which only `config
apply` can set and `Render` appends verbatim (`command.go:178`), the model keeps the options
they name (`extra`), which `Valid` compares with the manager's own. Every forward, of TCP or
UDP, and a display with its whole range of ports is a listener; which collisions of theirs
the code does not look for is written down in `Overlooked`, and section 4 says what follows.
Whether QEMU then starts is not in the model: what the extra arguments ask of it, the values
of single options, and other processes' ports are QEMU's and the host's business.

### QEMUInstance

A caller (the starter, a shutdown, a force, the collector; a status query and a ping of the
same kind can be added as `Observers`) is a goroutine at a step with the command it wants
carried out.

| Code | Model |
|---|---|
| `i.qmp`, `i.done` and `reap`, the VNC password file | `client`, `reaper`, `secret` |
| `QMPClient.gate`, `c.dec` and the error it keeps | `gate`, `decoder` |
| written and not executed; emitted and not read | `pending`, `out` |
| `qgaGate`, a session's ID, requests and answers on the agent's channel | `qgaGate`, `mine`, `requests`, `inbox` |
| deadlines of a call, and of the agent's part of a shutdown | `late` |
| `lifecycleEvents`, `blockIOEvents` behind the status of an observation | `owed` |

QEMU, the guest and its agent are external: they execute, answer, err, emit events, stay
silent or end whenever they like. An answer of the agent that cannot be read (malformed, too
long, with an identifier that is no number, with both or neither of a result and an error,
or cut off) is `Unreadable`: it may come at any time, and the guest may have obeyed. `Start` takes the stored configuration along and the
model forgets it, because the run no longer looks at it; a run that ended begins again from
the first command. IDs are compared, never ordered, so only whose they are is kept. The
details of a reply, of the block devices and of the guest's data are not.

### StoreFiles

`job` is the transaction that holds the name lock and `pc` its next step; who waits for the
lock is not told apart. A create is `exists`, three directories, the artifacts of its
`Recipe`, the write of `config.json`, and at any failure the rollback; an edit is a load and a write; a
delete is a load and three removals, entry by entry. `config` is what a reader sees now,
`afterCut` what a power cut may leave of it: between the rename and the sync of the
directory both the old and the new content, and a torn one had the file not been synced.
Readers load without the lock, and a lock probe makes the runtime directory of the ID it
has loaded. Artifacts and directory entries are taken as durable; the three firmware copies
are one. `createOwnedDirectory` is one step with three outcomes: it made the directory, it did
not, or it made it and the inspection refused it. `promised`, `attempts`, `gutted`, `before`, `stuck`
and `refused` are history.

### SerialLog, Monitoring, RunServices

`SerialLog`: slot 0 is the active file, slot i the backup with the number i-1, and the last
one the backup that only another version leaves. Bytes are numbered as they are printed.
`copier` is the step of the goroutine that opens the files and then copies; every file
operation may fail, which disables the log and drains the FIFO from there on. `Monitoring`:
the collector and the ping take `mu` around clone, change and store; the clock is discrete,
and a ticker's channel holds one tick. Of a snapshot the entries that `/health` depends on
are kept, with the changes and the ageing of each. `RunServices` runs `Service.Supervise` again
and again, ended by its guest, by a failed start or by a kill; after a kill QEMU goes too,
so the next run finds the files and nothing else.

## 3. Runs

| Run | Checks | Instance |
|---|---|---|
| `run_safety` | `TypeOK`, `OneRequestInFlight`, `HandoffSafe`, `SuccessMeansExited`, `StoppingSticks`, `QuietAtFinalize`, `CleanExitEarned` | 2 connections, 3 attempts |
| `run_progress` | `ImplementsContract` (refinement), `ExitIsRecorded`, `SignalEndsRun`, `StopIsAnswered` (liveness) | 1 connection, 2 attempts |
| `run_frame` | `StopGetsTerminalFrame`: **violated** | 1 connection |
| `vm_safety` | `TypeOK`, `LockProvesOffline`, `HolderListens`, `FilesOutliveGuest`, `FailedStartLetsGo`, `StopConfirmsOffline`, `FailureIsRemembered` | 2 runs, 1 command of any kind at a time, 1 crash |
| `vm_progress` | `StartEnds`, `CommandEnds` (liveness) | 1 run, 1 command of any kind, 1 crash |
| `vm_restart` | `RestartFindsItStopped`: **violated** | 2 runs, 1 restart, no crash |
| `autostart_safety` | `TypeOK`, `NoVMUnderOperation`, `DeletedLeavesNothing`, `JobsFollowScope`, `FailedDisableRestores`, `EnableTakesEffect`, `StartLoadsCurrent` | 2 contents of a plist |
| `autostart_disable` | `DisableUnloads`: **violated** | 1 content |
| `store` | `ConfigMeansWhole`, `FailedCreateRestores`, `PromiseSurvives`, `LockIsReleased` (liveness) | 2 IDs, 1 edit of each, 2 kinds of create, 1 reader |
| `instance` | `StoredConfigFits`, `StartLeavesNothing`, `AcceptedMeansAsked`, `SyncDiscardsStale`, `CountersCoverStatus`, `CallsEnd` (liveness) | starter, shutdown, force, collector; 1 command, 2 agent requests, 1 event under way |
| `qmp_timeout` | `GivesUpInTime`: **violated** | the same |
| `services` | `LogKeepsNewest`, `HealthIsCurrent`, `TeardownEnds` (liveness) | files of 2 bytes, 2 backups, 7 bytes printed; clock to 2 |

**Bounds and why they are enough.** `Autostart` has no bound but the number of contents: failures,
kills, logins and edits come in any number, and two contents tell current from stale. In
the other modules: Slots, attempts and runs are reused without limit, so
the bounds are on what happens *at once*, not on how often. Two connections and the main
goroutine are three concurrent callers of `stopWithProgress`: one that owns an attempt,
one that shares it, one that forces; the code treats a further caller like one of these.
Three attempts are one more than the connections, as the assumption asks. Two supervisors
are a run and the start that competes with it; a third would wait for the name lock
beside the second. Commands meet each other only through the locks, and a start is already
a process that wants the lock a command holds, so one command at a time is enough to see
what they do to each other. One crash is enough for what a crash leaves behind, and the theorems of section 5 hold for
any number of all of these.

`StoreFiles`: an ID goes to one create, so two IDs are a VM and the one that takes its name
after it; kills, power cuts and failures come in any number. One edit tells old from new.
`QEMUInstance`: what gets in a command's way is that somebody else holds a gate, left a
reply or left an answer, and the collector beside a shutdown or a force is such a somebody;
a second observer waits at the same gates. One command under way makes a second writer
wait, two agent requests are a late one and an own one, one event is one that can be missed.
Calls and events come in any number. The configurations collide in ports (5900, 5901, and
a display's range of both), protocols, addresses (loopback, wildcard), boot places, serials,
USB ports and extra options. `RunServices`: seven
bytes fill three files of two bytes and rotate once more, a scenario begins with files one
byte too long, and the monitoring scenario has two run states and a snapshot that is stale
after more than one tick, so that a success can be fresh, old and too old.

`Conns`, `Attempts`, `Runs` and `Clients` are symmetric; symmetry is
used only in runs without liveness.

**Deadlock** checking is off for `SupervisedRun` and `VMLifecycle` because those systems may stop: a
supervisor's process ends after `Finalize`, and a VM that was deleted has no more commands.
It is on in all other runs.

**Fairness.** `SupervisedRun`: every goroutine that can take a step does; a context's
deadline passes; backend calls return, because each has a context with a deadline or, in
`ForceStop`, ends with SIGKILL; a read of a connection the server has closed fails.
Nothing is assumed of the guest, the clients (they may stay silent for ever) or signals.
`VMLifecycle`: weak fairness for each process's own steps, all of whose waits have a
timeout in the code; a guest that a signal or a force is directed at ends in the end
(that is `SignalEndsRun` and `StopIsAnswered` of the other module); strong fairness only
for a delete's `DeleteLocks`, since a blocked `flock` is granted in the end although the lock
changes hands. There is none for `TakeName` of a start: `StartEnds` holds without, by
the start's timeout. `StoreFiles`: the transaction takes its steps, except the end of a
download, which is the server's; the idle timer fires. `QEMUInstance`: deadlines pass, a
caller whose deadline passed goes on, and start, force and reap take the steps of their own;
no gate is fair, and neither QEMU nor the guest has to do anything. `RunServices`: the
goroutines go on (an observation has `collectorTimeout`); guests, requests and the end of
QEMU are free.

### The properties, and the hazards they answer

* `OneRequestInFlight`, `HandoffSafe`: callers, deadlines and a force may arrive in any order,
  the guest still gets one request at a time, and `ForceStop` none beside it.
* `SuccessMeansExited`: "ok" reaches a caller by three paths (own or shared attempt, a joined
  force, an own force); each must come after `run.done`.
* `StoppingSticks`: `currentStatus` queries the backend without the lock; a state read before
  the stop must not come back after it.
* `QuietAtFinalize`, `CleanExitEarned`: the order listener, accept loop, connections,
  handlers, force makes the outcome final before it is recorded, and the record does not
  call an unasked-for or badly ended exit clean.
* `ExitIsRecorded`, `StopIsAnswered`, `SignalEndsRun`: force, attempt, handlers and
  teardown wait for each other in a chain, never in a circle.
* `LockProvesOffline`, `HolderListens`, `FilesOutliveGuest`, `StopConfirmsOffline`: what every
  command concludes from a lock or from an answer is true, while starts, probes, stops
  and deletes interleave.
* `FailedStartLetsGo`, `StartEnds`: a start succeeds, or fails and leaves nothing in the way.
* `FailureIsRemembered`: the evidence of a failure is erased one step before the start is
  over, and the guest may die or the start be cancelled in between. Whoever erased it still
  owes something: until the run is ready or has recorded its own end it holds the lifetime
  lock. What is left is in `evidence = "lost"`: a supervisor that is killed there, or cannot
  write its record.
* `JobsFollowScope`, `EnableTakesEffect`, `FailedDisableRestores`: one failing step, late or not, of any
  transaction leaves the three stores in agreement; a rollback restores both domains, with
  the content that was there.
* `DeletedLeavesNothing`: whatever killed and cancelled transactions left behind, a delete finds it.
* `StartLoadsCurrent`: launchd's memory of a plist is never taken for the file.
* `NoVMUnderOperation`: the VM is seen stopped once; the lock keeps it stopped until the end.
* `ConfigMeansWhole`, `FailedCreateRestores`: the config is written last and removed in an
  order that is not its own, so whoever finds one finds a whole VM; a rollback takes away
  what its create made and nothing else, except what it cannot remove and a directory that
  was made and refused, which it does not know of.
* `PromiseSurvives`: what a command has confirmed is there after any kill and power cut.
* `LockIsReleased`: a silent server does not keep the name lock for ever.
* `StoredConfigFits`: three places have rules for the same fields; together they let no
  configuration through whose devices, boot order, USB ports, options or listeners do not
  fit together at the next start, maybe at the next boot. Listeners may collide only where
  the rules do not compare them (`Overlooked`).
* `StartLeavesNothing`: a dozen early returns, each of which owes the child and the password.
* `AcceptedMeansAsked`: a guest that is shutting down may not answer; that silence, and no
  other one, counts as a success, and the power button is not pressed on top of it. It is
  pressed on top of an answer that could not be read.
* `CountersCoverStatus`, `SyncDiscardsStale`: both channels carry what other callers left. An
  observation has counted what came before its status; a session that has synchronised
  has behind it all that earlier sessions asked and all that the agent said to them.
* `CallsEnd`: a force ends although the collector holds the gate, the gate's holder ends
  although QEMU is silent, and reap waits for that gate while it holds the client's lock.
* `LogKeepsNewest`: a rotation that fails or is cut short between two renames never puts
  output out of order or twice, and without failures keeps all that its limit allows.
* `HealthIsCurrent`: two goroutines change one snapshot, and an answer is judged by its age.
* `TeardownEnds`: the sink keeps its own FIFO open, the collector sits in a call, and the two
  ends of a run stop them in different orders.
* `CommandEnds`: a request that reached a listener nobody will ever serve is cut off.

## 4. Where code and text disagree

1. **A stop may lose its answer** (`run_frame`). The handler decodes a request and marks its
   connection as a stop in a later step (`control_server.go:84`). If the guest exits in
   between, the teardown closes the connection as an idle one. `protocol.go:30-32` promises
   "exactly one later terminal Response frame". The client falls back on the lock probe.
2. **One late reply breaks the QMP connection** (`qmp_timeout`). The client ends a read by a
   deadline on the socket, and `json.Decoder` keeps the error (`qmp.go:443`): every later
   command is written, and QEMU obeys it, but its caller gets the old timeout at once.
   Nothing connects again. Status then fails for the rest of the run, an ACPI powerdown is
   delivered and reported as failed, and a force takes its `quit` for undelivered and kills
   QEMU without the five seconds. IDs are there so that "the shared decode loop can
   distinguish our reply from asynchronous events or stale frames" (`qmp.go:423-424`), but
   the loop is never reached again.
3. **A restart may fail with "already running"** (`vm_restart`). The stop is answered when the
   child is reaped, before the supervisor lets go of the lifetime lock
   (`supervisor.go:102`); the documentation says restart "waits until it is fully stopped".
4. **A disable may leave a job loaded** (`autostart_disable`). With scope none and no plist, `Disable`
   returns at `disable.go:108` without looking at the jobs it has just asked launchd about. A
   job can be loaded without either: an enable is killed after it installed the plist, a
   login loads it, the file is removed in place. `delete` then refuses and sends the user to
   `disable` (`cli/info.go:1249`), which reports success and changes nothing, until the next
   login.

Observations without a run. In the launchd transactions: the comment at `enable.go:113-114`
says that a plist lost by a failed reconcile is missing "until enable is rerun", but a rerun
leaves a missing plist alone (`enable.go:92-93`), only `start` installs it; a rollback whose
context is cancelled can neither restore nor bootstrap in the system domain, and in the
login domain cannot bootstrap (so `FailedDisableRestores` speaks of transactions that were not
cancelled); a job bootstrapped by the rollback starts its VM, since every plist has
RunAtLoad; a login between `print` and the end of a disable leaves its job loaded. In the
store: a create that is killed leaves a VM directory without a configuration, and one that
is still running shows one, and then `list` fails as a whole, and neither create nor delete of that name works;
a killed delete can leave the log directory, which stops the next create, or a listed VM
whose disk is gone; a directory sync that fails after the rename reports an error although
the edit took effect; a lock probe may make the runtime directory of a deleted VM again.
`set --network socket_vmnet` on a VM with a share is refused by `Validate` with a message
about the config, not the flag. In an instance: `waitForQMP` does not look whether QEMU has
ended, so a QEMU that fails at once costs the whole start timeout; IDs of the guest agent
are unique within a process only, and the `guest-agent` command counts from 1 in its own.
In monitoring: `refreshQMP` stores a failed attempt without `preserveSuccess` and so clears
`LastSuccess`, which `snapshot.go` says "is retained across later failures"; `refreshProcess` sets
it although the first sample failed; a ping may outlive `monitoringServer.stop` and publish.
In a supervised run: an accepted attempt that timed out stays the shared one
(`run.go:205`), so a later graceful stop with a longer timeout gets the old timeout at
once; only a force helps. `RequestShutdown` falls back on the power button whatever the
agent's error was (`instance.go:373-384`), so a guest whose answer to `guest-shutdown` was
malformed, or cut off in the middle (`qga.go:366-383`, `466-505`), is asked twice. In the
store: a directory that `Mkdir` made and `ensureOwnedDirectory` refused (`store.go:348-353`) is not
on the rollback's list (`store.go:166-171`), so it stays and blocks the name. In the
configuration: `validateHostPortConflicts` leaves a display with a range of ports aside
(`config.go:620`, `624`), so a range whose ports the metrics server and the forwards take is
saved and has none left; UDP forwards are compared as exact tuples (`config.go:547`) and
only TCP forwards further (`591`, `596`), so a wildcard and a loopback forward of one UDP
port are both saved; and an extra argument that is not the manager's is not looked at.

## 5. Proofs

All proofs are checked by TLAPS with the SMT, Zenon and temporal backends. They assume the
named assumptions on the constants and nothing else, and TLC evaluates these on every
instance. Besides types and bounds that are at least one they say: there is an attempt
more than there are connections (`RunAssumption`, see section 2); `None`, `Torn` and other
absent values are no values of their own kind (`StoreAssumption`, `InstanceAssumption`,
`SerialAssumption`); and the USB selectors that flags and files bring have the four fields
of `USBDeviceConfig` (`ConfigAssumption`). The theorems hold for any number of connections,
attempts, runs, commands, crashes, plist contents, IDs, edits, kinds of creates, power cuts
and configurations, for channels and a QMP connection of any capacity, and for log files,
buffers and backups of any size and number.

| Theorem | States | Module |
|---|---|---|
| `TypeCorrect` | `[]TypeOK` | `SupervisedRunProofs`, `VMLifecycleProofs`, `AutostartProofs`, `StoreFilesProofs` |
| `OneRequest`, `HandoffIsSafe`, `SuccessIsExit` | `[]OneRequestInFlight`, `[]HandoffSafe`, `[]SuccessMeansExited` | `SupervisedRunProofs` |
| `StoppingIsSticky`, `QuietAtTheEnd`, `CleanExitIsEarned` | `[]StoppingSticks`, `[]QuietAtFinalize`, `[]CleanExitEarned` | `SupervisedRunExitProofs` |
| `LockIsProof`, `ListenerIsHolder`, `FilesAreKept`, `FailedStartIsGone` | `[]LockProvesOffline`, `[]HolderListens`, `[]FilesOutliveGuest`, `[]FailedStartLetsGo` | `VMLifecycleProofs` |
| `ContractIsKept` | `ImplementsContract` (the refinement of `StopContract`) | `StopContractProofs` |
| `StopIsProof`, `FailureStays` | `StopConfirmsOffline` (action property), `[]FailureIsRemembered` | `VMLifecycleProofs` |
| `OperationsSeeNoVM`, `DeletionComplete`, `ScopeGoverns`, `DisableRollsBack`, `EnableCommits`, `StartIsCurrent` | `[]NoVMUnderOperation`, `[]DeletedLeavesNothing`, `[]JobsFollowScope`, `[]FailedDisableRestores`, `[]EnableTakesEffect`, `[]StartLoadsCurrent` | `AutostartProofs` |
| `ConfigIsWhole`, `FailedCreateIsUndone`, `PromiseIsKept` | `[]ConfigMeansWhole`, `[]FailedCreateRestores`, `[]PromiseSurvives` | `StoreFilesProofs` |
| `StoredConfigIsGood`, `StartIsClean`, `AcceptanceIsEarned`, `SyncIsClean`, `CountersAreCurrent` | `[]StoredConfigFits`, `[]StartLeavesNothing`, `[]AcceptedMeansAsked`, `[]SyncDiscardsStale`, `[]CountersCoverStatus` | `QEMUInstanceProofs` |
| `LogKeepsNewestAlways`, `HealthIsCurrentAlways` | `[]LogKeepsNewest`, `[]HealthIsCurrent` | `RunServicesProofs` |

The argument for `SupervisedRun`. `OneRequestInFlight` and `HandoffSafe` are not inductive: they hold
because a request in flight is always the shared attempt's (`graceful`), because no
attempt begins once a force has started, and because the force remembers exactly that
attempt (`forceWaits`); the conjunction, `Handoff`, is. `SuccessMeansExited` needs what success is made
of: a force that is done, and an attempt that ended well, have seen `done` (`Reaped`). The
second module relates the flags to the attempt (`StopFlags`), the teardown's progress to
what has ended (`Quiet`), and the record to its causes (`Recorded`).

The refinement `ContractIsKept` maps what a client has been sent to what the contract has
promised it. The contract has six steps (a request, its confirmation or refusal, the end of a
connection, the exit of the VM and its record); the run has dozens, most of which must be
shown to stutter. `StepKeepsContract` goes through them: a handler's moves inside
`stopWithProgress` (`StopMoves`) change its verdict and no promise, a write is the answer
the verdict allows, and what allows it is `SuccessMeansExited`'s invariant (`Reaped`); the
record is last because of `Quiet`. One fact is new, `Course`: the teardown begins only when the
child is gone, and where a handler is tells which request it serves.

The argument for `VMLifecycle` is one inductive invariant, `Ownership`: where a supervisor stands
determines what it holds. Between taking and releasing the lifetime lock it holds it;
the socket and a live child with a supervisor exist only between those two points; a
delete that is about to remove files holds both locks; a run that is off, or whose
starter gave up and reaped it, holds nothing. The invariants are consequences, and
`StopIsProof` follows because whoever confirms a stop either is the run that holds the lock
with its child dead, or held the lock itself. For `FailureStays` the last part
of `Ownership` says who owes something for the evidence it erased: a run that holds the lock,
has got a guest up and is on the way from `ClearFailure` to its announcement, or from there
through the deferred path to its record (`OwingPCs`). Its guest may be dead by then; only the
announcement and the record end the debt, and both come before the lock is released.

The argument for `Autostart` is that where a transaction is says what it has done. `Course` ties
the program counter to the transaction and to the config it read; on top of it, `Gone` says
what an inspection has seen so far and that nobody adds to it, `Installing` which file an
enable or a start is about to rely on, `Home` in which domain a file or job can be at each
point of a transaction that has met no more than one failure, and `Undoing` what a disable
has undone in each domain (`Undone`) and what its rollback has put back (`Redone`). None of the six
properties is inductive without its part; each is read off its part at the end.

The argument for `StoreFiles` is that the place of a transaction says what is on the disk.
`OnDisk` keeps a torn file out of `config` and `afterCut` because nothing is renamed that was not
synced; `Promise` says that every content of `config.json` now or after a power cut was promised
or attempted, and that whoever removes has withdrawn the promise first; `Undo` that `made` is what
is there beyond `before`, and that the rollback's list has nothing else. `Whole` needs more, since a
configuration becomes readable in one step, `Rename`, after a list of artifact steps of any length:
`Built` says that what is finished and what the list still makes is together what the
configuration needs, and `Planned` that every staging directory and every download has its
removal later in the list. A list keeps that when its head is done (`PlanGoesOn`), and every
`Recipe` has it, because two plans in a row are a plan (`PlansInARow`, `RecipePlan`).

The argument for `QEMUInstance`. A saved configuration was validated, for every command
and every sequence of them (`Configured`); that the parts of a valid one fit is a lemma
about `Render` (`ValidFits`), field by field: the drives have different boot places because
`ValidStorage` compares them, the USB ports suffice because `ValidUSB` has the limit of the
controller, no option is given twice because all that `Render` gives are the manager's
(`OptionsOwned`), and two listeners that meet are overlooked ones (`ListenersApart`) because
`NoPortConflicts` compares every other pair, with the same notion of overlap as the kernel. The rest is a ledger of who may do what:
`Course` says which commands a caller can have at which step, and `Frames` that of all that is
written and not executed, or answered and not read, at most one belongs to the caller that
holds the gate and the rest to nobody that waits; with a good decoder there is no rest. From there
each property has its own part: `Starting` follows the child and the password file along
the early returns, `Asking` says that what was delivered to the guest fits the step the
shutdown is at (nothing before the agent took the command; when the button is pressed,
nothing by the agent but a request whose answer could not be read), and `Counting` that the events not yet counted stand before the reply
that the collector waits for, so that reading up to the reply counts them. Without the
last, `CountersCoverStatus` is not inductive: events arrive while the collector has the
gate. `Session` follows the agent's channel: one caller is connected, its synchronisation is
the last thing asked, and all else that is asked or answered is of earlier sessions and
before it (`InOrder`); so when its answer is first, both queues are empty behind it.

The argument for `SerialLog`, in the composition. FIFO, chunk, active file and backups are
one function on `Pieces`, and every action moves bytes from a piece to the next (`Poured`),
drops the last piece, or shifts pieces as a rotation does. `Ordered` says that this function
is sorted (lemmas show that pouring, shifting and dropping keep it so); it holds whatever fails.
That nothing is missing is harder, because a backup's bytes say nothing of how many there
were: `Complete` says, as long as nothing failed, that each file ends where the next one
began as if every backup were full, counted from what was written (`Edge`), so that what is
before the oldest file is all that is gone. During a rotation there is a hole in the row,
and it moves: `Rotating` says in which slot it is at each step. `Sized` and `Copying` are the
limit and what the copy loop has in hand. The monitoring is simple beside it: one goroutine
at a time is between clone and store, and what it cloned is still what is published
(`Updating`), so what is published of QEMU is what was observed last (`Current`).

Only model-checked: the liveness properties (`ExitIsRecorded`, `SignalEndsRun`,
`StopIsAnswered`, `StartEnds`, `CommandEnds`, `LockIsReleased`, `CallsEnd`, `TeardownEnds`), which
are out of this prover's reach, and what is violated.

## 6. Plan for what is left

1. An abstract specification of a VM's lock and record that `VMLifecycle` implements, and one
   of the log as a bounded queue of bytes that `SerialLog` implements, both proved; type
   correctness of `QEMUInstance` and `RunServices` as theorems of their own (it is now part of
   their inductive invariants).
2. `waitForRunning` as a poller on `VMLifecycle`, the bridge helper's provisioning, the
   syntax of `protocol.go`, the console's copy loops.

## 7. Not modelled, and why

The text of command lines, plists, metrics and CLI output, and the syntax of single values
(formatting); prompts, terminal modes and the console's copy loops (I/O); the doctor's
probes (read-only); platform calls for peer credentials, process tables and descriptor
flags (their failure is a failure of the step that makes them). The bridge helper's
provisioning (`launchd/bridge.go`) happens in privileged scripts of which the code sees an
exit status; `waitForRunning` (`cli/runtime.go:336`) is a poller that may read the exit
record of an earlier run while its job has not begun. Abstracted in what is modelled: the
temporary file of a metadata write; a `/ping` that joins one in flight (it shares the
result); a platform without process samples; a runtime directory is named by a prefix of
the ID, which is taken as unique; a reader blocked on the FIFO is not woken by its Close.
The hazards that no property covers are listed in `PROJECT.json` with the reason.

## 8. Running it

    tlc -config SupervisedRun_safety.cfg MCSupervisedRun.tla
    tlc -config VMLifecycle_safety.cfg MCVMLifecycle.tla
    tlc -config Autostart_safety.cfg MCAutostart.tla
    tlc -config StoreFiles.cfg MCStoreFiles.tla
    tlc -config QEMUInstance.cfg MCQEMUInstance.tla
    tlc -config RunServices.cfg MCRunServices.tla
    tlapm SupervisedRunProofs.tla
    tlapm SupervisedRunExitProofs.tla
    tlapm StopContractProofs.tla
    tlapm VMLifecycleProofs.tla
    tlapm AutostartProofs.tla
    tlapm StoreFilesProofs.tla
    tlapm QEMUInstanceProofs.tla
    tlapm RunServicesProofs.tla

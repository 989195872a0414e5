----------------------------- MODULE QEMUInstance -----------------------------
(***************************************************************************)
(* One QEMU process and everything a supervisor says to it                 *)
(* (internal/qemu/instance.go, qmp.go, qga.go, *_monitoring.go): a VM is   *)
(* configured (VMConfig), started, observed, shut down or forced down, and *)
(* reaped.                                                                 *)
(*                                                                         *)
(* A caller is a goroutine.  It is at a step, with the command it wants    *)
(* carried out: <<"gate", "quit">> waits for the QMP connection to say     *)
(* quit.  Both connections are shared, so a caller's command meets what    *)
(* other callers left there.  Identifiers are compared and never ordered:  *)
(* all that counts is whose request one belongs to.                        *)
(***************************************************************************)
EXTENDS VMConfig

CONSTANTS Observers,       \* which of "status", "collector" and "ping" watch the VM
          MaxCommands,     \* commands the QMP connection holds before a writer has to wait
          MaxRequests,     \* the same for the guest agent's channel
          MaxEvents        \* events not yet read

VARIABLES
  config,      \* what the run needs of the configuration it was started with, or None
  secret,      \* the VNC password file: "absent", "present", or "stuck" when removing failed
  process,     \* "none", "running", "quitting" (quit obeyed), "exited"
  reaper,      \* reap: "none", "waiting", "closing" (holds qmpMu), "done" (i.done closed)
  at,          \* the step of each caller, with its command
  late,        \* whose deadline passed: "no", "agent" (that of the agent's part), "all"
  client,      \* i.qmp: "none", "open", "closed"
  gate,        \* the caller that holds QMPClient.gate, or None
  decoder,     \* "good", or "broken": json.Decoder keeps a read error
  pending,     \* commands written and not executed by QEMU: who asked, and for what
  out,         \* replies and events not yet read
  owed,        \* events emitted before the status of the collector was answered, and
               \* not yet counted
  qgaGate,     \* the caller that holds qgaGate, or None
  mine,        \* the identifier its session waits for
  requests,    \* identifiers the guest agent has yet to answer
  inbox,       \* answers the session has yet to read
  delivered    \* how the shutdown request in progress asked the guest: "agent", "powerdown",
               \* or "unread" when the agent was asked and its answer could not be read

qmpVars   == <<client, gate, decoder, pending, out, owed>>
agentVars == <<qgaGate, mine, requests, inbox>>
vars      == <<stored, config, secret, process, reaper, at, late, qmpVars, agentVars, delivered>>

Callers == {"starter", "shutdown", "force"} \cup Observers

ASSUME InstanceAssumption ==
  /\ Observers \subseteq {"status", "collector", "ping"}
  /\ MaxCommands \in Nat \ {0} /\ MaxRequests \in Nat \ {0} /\ MaxEvents \in Nat
  /\ None \notin Callers

Idle(step)    == <<step, "">>
Step(p)       == at[p][1]
Command(p)    == at[p][2]
Rests(where)  == where[1] \in {"idle", "up", "failed", "refused", "accepted", "forced"}
Resting(p)    == Rests(at[p])
Alive         == process \in {"running", "quitting"}

\* A call that ended leaves its deadline behind, and a ForceStop has its own.
Go(p, where) ==
  /\ at' = [at EXCEPT ![p] = where]
  /\ late' = IF Rests(where) \/ where[1] = "force" THEN [late EXCEPT ![p] = "no"] ELSE late

\* qmpClient takes the read lock, which reap holds while it closes the client.
MayLookUp == reaper # "closing"

-----------------------------------------------------------------------------
(* What a caller does once its command ended. *)

\* Mutant: a failed VNC check only removes the secret.
StarterNextNoStop(command, ok) ==
  IF command = "query-status" /\ ok THEN IF config.vnc THEN <<"gate", "query-vnc">> ELSE Idle("up")
  ELSE IF command = "query-vnc" THEN IF ok THEN Idle("unsecret") ELSE Idle("clean")
  ELSE Idle("force")

\* Start: running or paused, then the VNC display that was asked for; else ForceStop.
StarterNext(command, ok) ==
  IF command = "query-status" /\ ok THEN IF config.vnc THEN <<"gate", "query-vnc">> ELSE Idle("up")
  ELSE IF command = "query-vnc" /\ ok THEN Idle("unsecret")
  ELSE Idle("force")

\* QueryBlocks: the devices' counters come with one command, their state with another.
BlocksNext(command, ok) ==
  IF command = "query-blockstats" /\ ok THEN <<"gate", "query-block">> ELSE Idle("events")

\* Mutant: the counters are read although the status was not.
CollectorNextAlways(command, ok) ==
  CASE command = "query-status" /\ ok -> <<"gate", "query-blockstats">>
    [] command = "guest-info" /\ ok -> <<"ga-gate", "guest-get-time">>
    [] command = "query-status" /\ ~ok -> Idle("events")
    [] command \in {"query-blockstats", "query-block"} -> BlocksNext(command, ok)
    [] OTHER -> Idle("idle")

\* CollectQEMU: the status, the block devices in two commands, the event counters.
\* CollectGuest: guest-info, then what it says the agent has; here one such command.
CollectorNext(command, ok) ==
  CASE command = "query-status" /\ ok -> <<"gate", "query-blockstats">>
    [] command = "guest-info" /\ ok -> <<"ga-gate", "guest-get-time">>
    [] command \in {"query-blockstats", "query-block"} -> BlocksNext(command, ok)
    [] OTHER -> Idle("idle")

\* RequestShutdown: what the agent did not take, ACPI gets, unless the caller gave up.
ShutdownNext(command, ok) ==
  IF ok THEN Idle("accepted")
  ELSE IF command = "guest-shutdown" /\ late["shutdown"] # "all"
  THEN <<"gate", "system_powerdown">>
  ELSE Idle("refused")

\* forceStop: QEMU gets time to quit only if it said it would.
After(p, command, ok) ==
  IF command = "quit" THEN IF ok THEN Idle("grace") ELSE Idle("kill")
  ELSE IF p = "starter" THEN StarterNext(command, ok)
  ELSE IF p = "collector" THEN CollectorNext(command, ok)
  ELSE IF p = "shutdown" THEN ShutdownNext(command, ok)
  ELSE Idle("idle")

-----------------------------------------------------------------------------
(* QMPClient.execute: one command at a time has the connection. *)

Release(p) == gate' = None

\* The commands that nobody waits for any more.
Abandon(queue, p) ==
  [i \in DOMAIN queue |-> IF queue[i].by = p THEN [queue[i] EXCEPT !.by = "nobody"] ELSE queue[i]]

\* The context ends, or is cancelled, while the command waits for the gate.
LeaveGate(p) ==
  /\ Step(p) = "gate" /\ late[p] = "all"
  /\ Go(p, After(p, Command(p), FALSE))
  /\ UNCHANGED <<stored, config, secret, process, reaper, qmpVars, agentVars, delivered>>

\* A closed client, or a QEMU that is gone, fails the command at once.
SendFails(p) ==
  /\ Step(p) = "gate" /\ gate = None
  /\ client = "closed" \/ ~Alive
  /\ Go(p, After(p, Command(p), FALSE))
  /\ UNCHANGED <<stored, config, secret, process, reaper, qmpVars, agentVars, delivered>>

Send(p) ==
  /\ Step(p) = "gate" /\ gate = None /\ late[p] # "all"
  /\ client = "open" /\ Alive /\ Len(pending) < MaxCommands
  /\ gate' = p
  /\ pending' = Append(pending, [by |-> p, command |-> Command(p)])
  /\ Go(p, <<"reply", Command(p)>>)
  /\ UNCHANGED <<stored, config, secret, process, reaper, client, decoder, out, owed,
                 agentVars, delivered>>

Counted(n) == IF n = 0 THEN 0 ELSE n - 1

\* The client reads on until its own reply comes; an event on the way is counted.
ReadEvent(p) ==
  /\ Step(p) = "reply" /\ decoder = "good" /\ out # <<>> /\ Head(out).by = "event"
  /\ owed' = Counted(owed)
  /\ out' = Tail(out)
  /\ UNCHANGED <<stored, config, secret, process, reaper, at, late, client, gate, decoder, pending,
                 agentVars, delivered>>

\* A reply may be an error, or say what the caller did not want to hear.
ReadReply(p) ==
  /\ Step(p) = "reply" /\ decoder = "good" /\ out # <<>> /\ Head(out).by = p
  /\ out' = Tail(out)
  /\ Go(p, After(p, Command(p), Head(out).ok))
  /\ Release(p)
  /\ UNCHANGED decoder
  /\ UNCHANGED <<stored, config, secret, process, reaper, client, pending, owed,
                 agentVars, delivered>>

\* Nothing more can be read: the deadline passed, QEMU closed the connection, or an
\* earlier command met one of the two and left its error in the decoder.
GiveUp(p) ==
  /\ Step(p) = "reply"
  /\ decoder = "broken" \/ late[p] = "all" \/ (~Alive /\ out = <<>>)
  /\ decoder' = "broken"
  /\ out' = <<>>
  /\ pending' = Abandon(pending, p)
  /\ Go(p, After(p, Command(p), FALSE))
  /\ Release(p)
  /\ UNCHANGED <<stored, config, secret, process, reaper, client, owed,
                 agentVars, delivered>>

\* EventCounters, which only takes the gate.
ReadCounters ==
  /\ "collector" \in Callers /\ Step("collector") = "events"
  /\ gate = None \/ late["collector"] = "all"
  /\ Go("collector", Idle("idle"))
  /\ UNCHANGED <<stored, config, secret, process, reaper, qmpVars, agentVars, delivered>>

-----------------------------------------------------------------------------
(* QEMU (external). *)

\* What is written to a connection whose reader is broken is never read.
Put(frame) == out' = IF decoder = "good" THEN Append(out, frame) ELSE out

Unread == Cardinality({i \in DOMAIN out : out[i].by = "event"})

QEMUExecutes ==
  /\ Alive /\ pending # <<>>
  /\ LET request == Head(pending) IN
     /\ \E ok \in BOOLEAN :
          /\ request.command = "quit" => ok
          /\ Put([by |-> request.by, ok |-> ok])
          /\ delivered' = IF request = [by |-> "shutdown", command |-> "system_powerdown"] /\ ok
                          THEN delivered \cup {"powerdown"} ELSE delivered
     /\ process' = IF request.command = "quit" THEN "quitting" ELSE process
     /\ owed' = IF request = [by |-> "collector", command |-> "query-status"]
                THEN Unread ELSE owed
  /\ pending' = Tail(pending)
  /\ UNCHANGED <<stored, config, secret, reaper, at, late, client, gate, decoder,
                 agentVars>>

QEMUEmits ==
  /\ Alive /\ client = "open" /\ Unread < MaxEvents
  /\ Put([by |-> "event", ok |-> TRUE])
  /\ UNCHANGED <<stored, config, secret, process, reaper, at, late, client, gate, decoder, pending,
                 owed, agentVars, delivered>>

\* The guest powers off, QEMU quits, fails or is killed.
QEMUExits ==
  /\ Alive
  /\ process' = "exited"
  /\ pending' = <<>> /\ requests' = <<>>
  /\ UNCHANGED <<stored, config, secret, reaper, at, late, client, gate, decoder, out,
                 owed, qgaGate, mine, inbox, delivered>>

-----------------------------------------------------------------------------
(* reap. *)

\* cmd.Wait returned.
ReapWaits ==
  /\ reaper = "waiting" /\ process = "exited"
  /\ reaper' = "closing"
  /\ UNCHANGED <<stored, config, secret, process, at, late, qmpVars, agentVars, delivered>>

\* Close takes the gate; then done is closed and the exit published.
ReapCloses ==
  /\ reaper = "closing" /\ (client = "open" => gate = None)
  /\ client' = IF client = "open" THEN "closed" ELSE client
  /\ reaper' = "done"
  /\ UNCHANGED <<stored, config, secret, process, at, late, gate, decoder, pending, out,
                 owed, agentVars, delivered>>

-----------------------------------------------------------------------------
(* Start. *)

\* Once the command line is rendered the run works on what it loaded, and what is stored
\* by then is of no more interest to it: the model forgets it.
Start ==
  /\ stored # None /\ Render(stored) # {}
  /\ Step("starter") = "idle"
  /\ config' = [agent |-> stored.agent, vnc |-> stored.vnc # None]
  /\ stored' = None
  /\ Go("starter", Idle(IF stored.vnc # None THEN "secret" ELSE "fork"))
  /\ UNCHANGED <<secret, process, reaper, qmpVars, agentVars, delivered>>

WriteSecret ==
  /\ Step("starter") = "secret"
  /\ \/ secret' = "present" /\ Go("starter", Idle("fork"))
     \/ Go("starter", Idle("failed")) /\ UNCHANGED secret
  /\ UNCHANGED <<stored, config, process, reaper, qmpVars, agentVars, delivered>>

Fork ==
  /\ Step("starter") = "fork"
  /\ \/ process' = "running" /\ reaper' = "waiting" /\ Go("starter", Idle("connect"))
     \/ Go("starter", Idle("clean")) /\ UNCHANGED <<process, reaper>>
  /\ UNCHANGED <<stored, config, secret, qmpVars, agentVars, delivered>>

\* A new connection to QMP is greeted and takes up command mode.
Greets == process = "running"

\* waitForQMP tries again until a client was greeted, or the time to start is over; it
\* does not look whether QEMU still runs.
Connect ==
  /\ Step("starter") = "connect"
  /\ \/ Greets /\ Go("starter", Idle("adopt"))
     \/ late["starter"] = "all" /\ Go("starter", Idle("force"))
  /\ UNCHANGED <<stored, config, secret, process, reaper, qmpVars, agentVars, delivered>>

\* The client is for the instance, unless the process was reaped meanwhile.
Adopt ==
  /\ Step("starter") = "adopt" /\ MayLookUp
  /\ IF reaper = "done" THEN Go("starter", Idle("force")) /\ UNCHANGED client
     ELSE Go("starter", <<"gate", "query-status">>) /\ client' = "open"
  /\ UNCHANGED <<stored, config, secret, process, reaper, gate, decoder, pending, out,
                 owed, agentVars, delivered>>

\* A secret that cannot be removed fails the start and is not tried again.
RemoveSecret ==
  /\ Step("starter") = "unsecret"
  /\ \/ secret' = "absent" /\ Go("starter", Idle("up"))
     \/ secret' = "stuck" /\ Go("starter", Idle("force"))
  /\ UNCHANGED <<stored, config, process, reaper, qmpVars, agentVars, delivered>>

\* cleanupPreparedSecret.
CleanSecret ==
  /\ Step("starter") = "clean"
  /\ secret' \in (IF secret = "present" THEN {"absent", "stuck"} ELSE {secret})
  /\ Go("starter", Idle("failed"))
  /\ UNCHANGED <<stored, config, process, reaper, qmpVars, agentVars, delivered>>

-----------------------------------------------------------------------------
(* ForceStop: of the supervisor, or of a start that failed. *)

Forced(p) == Idle(IF p = "starter" THEN "clean" ELSE "forced")

ForceStop(p) ==
  /\ Step(p) = "force" /\ MayLookUp
  /\ Go(p, IF reaper = "done" THEN Forced(p)
           ELSE IF client = "none" THEN Idle("kill") ELSE <<"gate", "quit">>)
  /\ UNCHANGED <<stored, config, secret, process, reaper, qmpVars, agentVars, delivered>>

\* Five seconds for QEMU to go by itself.
GraceEnds(p) ==
  /\ Step(p) = "grace"
  /\ Go(p, IF reaper = "done" THEN Forced(p) ELSE Idle("kill"))
  /\ UNCHANGED <<stored, config, secret, process, reaper, qmpVars, agentVars, delivered>>

Kill(p) ==
  /\ Step(p) = "kill"
  /\ process' = "exited"
  /\ pending' = <<>> /\ requests' = <<>>
  /\ Go(p, Idle("reaping"))
  /\ UNCHANGED <<stored, config, secret, reaper, client, gate, decoder, out, owed,
                 qgaGate, mine, inbox, delivered>>

Reaped(p) ==
  /\ Step(p) = "reaping" /\ reaper = "done"
  /\ Go(p, Forced(p))
  /\ UNCHANGED <<stored, config, secret, process, reaper, qmpVars, agentVars, delivered>>

-----------------------------------------------------------------------------
(* The guest agent: a session for each command, one at a time. *)

\* Mutant: identifiers are numbered anew in every session.
MatchesFromOne(id) == id.kind = mine.kind

\* The counter of identifiers is shared by all sessions.
Matches(id) == id = mine

\* The next identifier, which no earlier session had.
NewId(kind) == [kind |-> kind, session |-> "this"]

AgentLate(p) == late[p] # "no"

\* The end of a session closes its connection, with all that it did not read.
EndSession(p, ok) ==
  /\ qgaGate' = None /\ mine' = None /\ inbox' = <<>>
  /\ requests' = [i \in DOMAIN requests |-> [requests[i] EXCEPT !.session = "earlier"]]
  /\ Go(p, After(p, Command(p), ok))

LeaveAgentGate(p) ==
  /\ Step(p) = "ga-gate" /\ AgentLate(p)
  /\ Go(p, After(p, Command(p), FALSE))
  /\ UNCHANGED <<stored, config, secret, process, reaper, qmpVars, agentVars, delivered>>

EnterAgentGate(p) ==
  /\ Step(p) = "ga-gate" /\ qgaGate = None /\ ~AgentLate(p)
  /\ qgaGate' = p
  /\ Go(p, <<"ga-dial", Command(p)>>)
  /\ UNCHANGED <<stored, config, secret, process, reaper, qmpVars, mine, requests, inbox,
                 delivered>>

\* A new connection begins with guest-sync-delimited.
Synchronize(p) ==
  /\ Step(p) = "ga-dial" /\ Alive /\ Len(requests) < MaxRequests
  /\ mine' = NewId("sync")
  /\ requests' = Append(requests, mine')
  /\ Go(p, <<"ga-sync", Command(p)>>)
  /\ UNCHANGED <<stored, config, secret, process, reaper, qmpVars, qgaGate, inbox,
                 delivered>>

OwnAnswer == inbox # <<>> /\ Matches(Head(inbox).id)

\* The agent answered the synchronisation, so the command is sent.
Synchronized(p) ==
  /\ Step(p) = "ga-sync" /\ OwnAnswer /\ Alive /\ Len(requests) < MaxRequests
  /\ mine' = NewId(IF Command(p) = "guest-shutdown" THEN "shutdown" ELSE "command")
  /\ requests' = Append(requests, mine')
  /\ inbox' = Tail(inbox)
  /\ delivered' = IF Command(p) = "guest-shutdown" THEN delivered \cup {"agent"} ELSE delivered
  /\ Go(p, <<"ga-answer", Command(p)>>)
  /\ UNCHANGED <<stored, config, secret, process, reaper, qmpVars, qgaGate>>

\* Answers to an earlier session are skipped.
Skip(p) ==
  /\ Step(p) \in {"ga-sync", "ga-answer"} /\ inbox # <<>> /\ ~OwnAnswer
  /\ inbox' = Tail(inbox)
  /\ UNCHANGED <<stored, config, secret, process, reaper, at, late, qmpVars, qgaGate, mine,
                 requests, delivered>>

Answered(p) ==
  /\ Step(p) = "ga-answer" /\ OwnAnswer
  /\ EndSession(p, Head(inbox).ok)
  /\ delivered' = IF Command(p) = "guest-shutdown" /\ ~Head(inbox).ok THEN delivered \ {"agent"}
                  ELSE delivered
  /\ UNCHANGED <<stored, config, secret, process, reaper, qmpVars>>

\* Mutant: an agent that does not even synchronise is taken to be shutting down.
NoReplyIsFine(p) == Command(p) = "guest-shutdown"

\* A guest that shuts down may not answer any more.
NoReplyIsSuccess(p) == Step(p) = "ga-answer" /\ Command(p) = "guest-shutdown"

\* What comes instead of an answer cannot be read: it is malformed or too long, its
\* identifier is no number, it has both or neither of a result and an error (or it is an
\* error, of the synchronisation), or it is cut off by the deadline or the end of QEMU.
\* The guest may have obeyed all the same.
Unreadable(p) ==
  /\ Step(p) \in {"ga-sync", "ga-answer"}
  /\ EndSession(p, FALSE)
  /\ delivered' = IF Command(p) = "guest-shutdown" /\ Step(p) = "ga-answer"
                  THEN {"unread"} ELSE delivered
  /\ UNCHANGED <<stored, config, secret, process, reaper, qmpVars>>

\* There is nobody to read from, or to send the command to once the session synchronised.
Disconnected(p) == ~Alive /\ (inbox = <<>> \/ (Step(p) = "ga-sync" /\ OwnAnswer))

\* The session's deadline passed, the shutdown was cancelled as a whole, which is never a
\* success, or QEMU closed the connection.
SessionFails(p) ==
  /\ Step(p) \in {"ga-dial", "ga-sync", "ga-answer"}
  /\ AgentLate(p) \/ Disconnected(p)
  /\ \E ok \in BOOLEAN :
       /\ ok => NoReplyIsSuccess(p)
       /\ ~ok => ~NoReplyIsSuccess(p) \/ late[p] = "all"
       /\ EndSession(p, ok)
  /\ UNCHANGED <<stored, config, secret, process, reaper, qmpVars, delivered>>

\* One second without an answer.
NoReply(p) ==
  /\ NoReplyIsSuccess(p) /\ Step(p) = "ga-answer"
  /\ EndSession(p, TRUE)
  /\ UNCHANGED <<stored, config, secret, process, reaper, qmpVars, delivered>>

\* The agent (external) answers in order, perhaps late: an answer goes to the session
\* that is connected by then, or nowhere.
AgentAnswers ==
  /\ Alive /\ requests # <<>>
  /\ \/ /\ qgaGate # None /\ mine # None
        /\ \E ok \in BOOLEAN :
             /\ Head(requests).kind = "sync" => ok
             /\ inbox' = Append(inbox, [id |-> Head(requests), ok |-> ok])
     \/ /\ mine = None \/ Head(requests).kind = "shutdown"
        /\ UNCHANGED inbox
  /\ requests' = Tail(requests)
  /\ UNCHANGED <<stored, config, secret, process, reaper, at, late, qmpVars, qgaGate,
                 mine, delivered>>

-----------------------------------------------------------------------------
(* The callers, once the VM is up. *)

FirstStep(p) ==
  CASE p = "status" -> {<<"gate", "query-status">>}
    [] p = "collector" -> {<<"gate", "query-status">>}
                            \cup (IF config.agent THEN {<<"ga-gate", "guest-info">>} ELSE {})
    [] p = "ping" -> IF config.agent THEN {<<"ga-gate", "guest-ping">>} ELSE {}
    [] p = "shutdown" -> IF config.agent THEN {<<"ga-gate", "guest-shutdown">>}
                         ELSE {<<"gate", "system_powerdown">>}
    [] OTHER -> {Idle("force")}

\* A request that failed may be made again; one that was accepted is the last.  The run
\* never has a request and a force at once (HandoffSafe of SupervisedRun).
Call(p) ==
  /\ Step("starter") = "up" /\ p # "starter"
  /\ p = "force" => Resting("shutdown")
  /\ p = "shutdown" => Step("force") = "idle"
  /\ Step(p) \in {"idle", "refused"} /\ MayLookUp
  /\ \E step \in FirstStep(p) : Go(p, step)
  /\ delivered' = IF p = "shutdown" THEN {} ELSE delivered
  /\ UNCHANGED <<stored, config, secret, process, reaper, qmpVars, agentVars>>

\* Mutant: the deadline of a command is not set on the connection it reads.
ExpireNotReading(p) ==
  /\ Step(p) \in {"gate", "connect", "events", "ga-gate", "ga-dial", "ga-sync", "ga-answer"}
  /\ \/ p = "shutdown" /\ late[p] = "no" /\ Step(p) \notin {"gate", "reply"}
        /\ late' = [late EXCEPT ![p] = "agent"]
     \/ late[p] # "all" /\ late' = [late EXCEPT ![p] = "all"]
  /\ UNCHANGED <<stored, config, secret, process, reaper, at, qmpVars, agentVars,
                 delivered>>

\* Every call has a deadline; the agent's part of a shutdown has one of its own.
Expire(p) ==
  /\ Step(p) \in {"gate", "reply", "connect", "events",
                  "ga-gate", "ga-dial", "ga-sync", "ga-answer"}
  /\ \/ p = "shutdown" /\ late[p] = "no" /\ Step(p) \notin {"gate", "reply"}
        /\ late' = [late EXCEPT ![p] = "agent"]
     \/ late[p] # "all" /\ late' = [late EXCEPT ![p] = "all"]
  /\ UNCHANGED <<stored, config, secret, process, reaper, at, qmpVars, agentVars,
                 delivered>>

Fresh ==
  /\ config' = None /\ secret' = "absent" /\ process' = "none" /\ reaper' = "none"
  /\ at' = [p \in Callers |-> Idle("idle")]
  /\ late' = [p \in Callers |-> "no"]
  /\ client' = "none" /\ gate' = None /\ decoder' = "good"
  /\ pending' = <<>> /\ out' = <<>> /\ owed' = 0
  /\ qgaGate' = None /\ mine' = None /\ requests' = <<>> /\ inbox' = <<>>
  /\ delivered' = {}

\* The supervisor ends with its guest.
End ==
  /\ Step("starter") \in {"up", "failed"} /\ reaper \in {"none", "done"}
  /\ \A p \in Callers : Resting(p)
  /\ Fresh
  /\ UNCHANGED stored

-----------------------------------------------------------------------------

Init ==
  /\ ConfigInit
  /\ config = None /\ secret = "absent" /\ process = "none" /\ reaper = "none"
  /\ at = [p \in Callers |-> Idle("idle")]
  /\ late = [p \in Callers |-> "no"]
  /\ client = "none" /\ gate = None /\ decoder = "good"
  /\ pending = <<>> /\ out = <<>> /\ owed = 0
  /\ qgaGate = None /\ mine = None /\ requests = <<>> /\ inbox = <<>>
  /\ delivered = {}

\* The commands that change a configuration; here only of a VM that does not run.
ConfigureVM ==
  /\ config = None /\ Configure
  /\ UNCHANGED <<config, secret, process, reaper, at, late, qmpVars, agentVars, delivered>>

StartStep == WriteSecret \/ Fork \/ Connect \/ Adopt \/ RemoveSecret \/ CleanSecret

ForceStep(p) == ForceStop(p) \/ GraceEnds(p) \/ Kill(p) \/ Reaped(p)

QMPStep(p) == LeaveGate(p) \/ SendFails(p) \/ Send(p) \/ ReadEvent(p) \/ ReadReply(p) \/ GiveUp(p)

AgentStep(p) ==
  \/ LeaveAgentGate(p) \/ EnterAgentGate(p) \/ Synchronize(p) \/ Synchronized(p)
  \/ Skip(p) \/ Answered(p) \/ Unreadable(p) \/ SessionFails(p) \/ NoReply(p)

Reap == ReapWaits \/ ReapCloses

Next ==
  \/ ConfigureVM \/ Start \/ StartStep \/ ReadCounters \/ Reap \/ End
  \/ QEMUExecutes \/ QEMUEmits \/ QEMUExits \/ AgentAnswers
  \/ \E p \in Callers : QMPStep(p) \/ AgentStep(p) \/ ForceStep(p) \/ Call(p) \/ Expire(p)

Spec == Init /\ [][Next]_vars

\* Deadlines pass, and a caller whose deadline passed goes on; so do start, force and reap,
\* which have steps of their own.  Nothing is asked of QEMU, of the guest, or of the order
\* in which callers get a gate.
Fairness ==
  /\ WF_vars(StartStep) /\ WF_vars(Reap) /\ WF_vars(ReadCounters)
  /\ \A p \in Callers :
       /\ WF_vars(Expire(p)) /\ WF_vars(ForceStep(p))
       /\ WF_vars(LeaveGate(p) \/ SendFails(p) \/ GiveUp(p) \/ LeaveAgentGate(p) \/ SessionFails(p))

FairSpec == Spec /\ Fairness

-----------------------------------------------------------------------------
(* Properties. *)

\* Start returns an instance, with the password file gone, or leaves nothing behind: a
\* QEMU that was forked was reaped, and its password file is removed as far as it can
\* be.  Every check on the way to readiness has its own early return.
StartLeavesNothing ==
  /\ Step("starter") = "up" => secret = "absent" /\ client # "none"
  /\ Step("starter") = "failed" => reaper \in {"none", "done"} /\ secret # "present"

\* RequestShutdown reports success only when the guest was asked: by its agent, in a session
\* that synchronised and was not refused, or by the power button.  It is asked in both ways
\* only if the agent was sent the request and its answer could not be read; never after
\* mere silence, which counts as obedience.
AcceptedMeansAsked ==
  Step("shutdown") = "accepted" =>
    delivered \in {{"agent"}, {"powerdown"}, {"unread", "powerdown"}}

\* Synchronising leaves nothing of earlier sessions on the guest agent's channel, although
\* they may have given up on commands that the agent answers late, to whoever is connected:
\* a command that is sent waits behind no other, and no other's answer is there to be read.
SyncDiscardsStale ==
  \A p \in Callers : Step(p) = "ga-answer" =>
    /\ \A i \in DOMAIN requests : requests[i] = mine
    /\ \A i \in DOMAIN inbox : inbox[i].id = mine

\* The event counters of an observation include all that QEMU emitted before it answered
\* the status of that observation: they are counted only while a command reads.
CountersCoverStatus ==
  "collector" \in Callers /\ Step("collector") = "events" => owed = 0

\* Every call ends, Start and ForceStop among them, whatever QEMU and the guest do, and
\* however the callers get in each other's way.
CallsEnd == \A p \in Callers : []<>Resting(p)

\* A command goes without its reply only when its own deadline passed or QEMU is gone:
\* identifiers tell "our reply from asynchronous events or stale frames" (qmp.go:423-424).
GivesUpInTime == [][\A p \in Callers : GiveUp(p) => late[p] = "all" \/ ~Alive]_vars
=============================================================================

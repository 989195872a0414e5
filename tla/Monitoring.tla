------------------------------ MODULE Monitoring ------------------------------
(***************************************************************************)
(* The monitoring of a run (internal/monitoring, and monitoring_server.go  *)
(* of internal/supervisor): a collector refreshes one cached snapshot, a   *)
(* ping of the guest may refresh it too, and HTTP handlers read it.        *)
(*                                                                         *)
(* Of a snapshot the model keeps the run state QEMU reported, the states   *)
(* of the two collectors /health depends on with the time of their last    *)
(* success, and whether the last ping was answered.  What the other        *)
(* refreshes store beside these is left out, their updates are not.        *)
(***************************************************************************)
EXTENDS Integers

CONSTANTS QMPStaleAfter,   \* qmpStaleAfter
          MaxTime,         \* bound: how far a run's clock goes
          RunStates,       \* the run states that QEMU reports
          Agent            \* the guest agent is configured

ASSUME MonitoringAssumption ==
  /\ QMPStaleAfter \in Nat /\ MaxTime \in Nat
  /\ Agent \in BOOLEAN

VARIABLES
  now,         \* the clock of the run
  due,         \* ticks that wait in the two tickers' channels
  cache,       \* the published snapshot
  collector,   \* the collector, or Seed before it: what it refreshes, and its step
  ping,        \* the ping in flight, which outlives the request that began it
  work,        \* what each of the two has observed
  copy,        \* the snapshot each of the two is changing
  mu,          \* who holds Service.mu
  server,      \* "none", "seeding", "serving", "closed"
  cancelled,   \* the collector's context
  newest       \* the last QMP observation that was published: its result and its time

monVars == <<now, due, cache, collector, ping, work, copy, mu, server, cancelled, newest>>

Never == -1
Keys  == {"qmp", "process"}

Entry(status, success) == [status |-> status, success |-> success]

NoSnapshot == [state |-> "none", ping |-> "none",
               of |-> [k \in Keys |-> Entry("pending", Never)]]
NoWork     == [ok |-> FALSE, state |-> "none", at |-> Never]

Unmonitored ==
  /\ now' = 0 /\ due' = {} /\ cache' = NoSnapshot
  /\ collector' = <<"none", "idle">> /\ ping' = <<"none", "idle">>
  /\ work' = [a \in {"collector", "ping"} |-> NoWork]
  /\ copy' = [a \in {"collector", "ping"} |-> NoSnapshot]
  /\ mu' = "free" /\ server' = "none" /\ cancelled' = FALSE /\ newest' = NoWork

MonInit ==
  /\ now = 0 /\ due = {} /\ cache = NoSnapshot
  /\ collector = <<"none", "idle">> /\ ping = <<"none", "idle">>
  /\ work = [a \in {"collector", "ping"} |-> NoWork]
  /\ copy = [a \in {"collector", "ping"} |-> NoSnapshot]
  /\ mu = "free" /\ server = "none" /\ cancelled = FALSE /\ newest = NoWork

-----------------------------------------------------------------------------
(* What a refresh changes in a snapshot. *)

\* collectorFromResult and preserveSuccess.
FromResult(ok, at) == IF ok THEN Entry("ok", at) ELSE Entry("failed", Never)

Preserved(old, new) ==
  IF new.status # "ok" /\ old.success # Never THEN Entry(new.status, old.success) ELSE new

\* refreshQMP: a failed attempt is stored as it is.
QMPChange(s, w) ==
  [s EXCEPT !.state = IF w.ok THEN w.state ELSE @, !.of["qmp"] = FromResult(w.ok, w.at)]

\* refreshProcess: the time is noted although the sample failed.
ProcessChange(s, w) ==
  [s EXCEPT !.of["process"] = Preserved(@, Entry(IF w.ok THEN "ok" ELSE "failed", w.at))]

PingChange(s, w) == [s EXCEPT !.ping = IF w.ok THEN "ok" ELSE "failed"]

\* refreshGuest changes nothing that is kept here.
Changed(task, s, w) ==
  CASE task = "qmp"     -> QMPChange(s, w)
    [] task = "process" -> ProcessChange(s, w)
    [] task = "ping"    -> PingChange(s, w)
    [] OTHER            -> s

-----------------------------------------------------------------------------
(* Seed and the collector, one goroutine after the other. *)

\* startMonitoring: Seed publishes a snapshot with nothing collected, then refreshes.
Seed(fallback) ==
  /\ cache' = [NoSnapshot EXCEPT !.state = fallback]
  /\ collector' = <<"qmp", "observe">> /\ server' = "seeding"
  /\ UNCHANGED <<now, due, ping, work, copy, mu, cancelled, newest>>

Observed(w) == work' = [work EXCEPT !["collector"] = w]

\* The answer, or its absence after collectorTimeout or the cancellation.
Observe ==
  /\ collector[2] = "observe"
  /\ \/ \E state \in RunStates :
          /\ collector[1] = "qmp"
          /\ Observed([ok |-> TRUE, state |-> state, at |-> now])
     \/ \E ok \in BOOLEAN :
          /\ ok => collector[1] = "process"
          /\ Observed([ok |-> ok, state |-> "none", at |-> now])
  /\ collector' = <<collector[1], "update">>
  /\ UNCHANGED <<now, due, cache, ping, copy, mu, server, cancelled, newest>>

\* Mutant: the snapshot is cloned before the lock is taken.
LockFreeForAll(a) == mu' = a

\* update: lock, clone, change, store, unlock.
Lock(a) == mu = "free" /\ mu' = a

BeginUpdate ==
  /\ collector[2] = "update" /\ Lock("collector")
  /\ copy' = [copy EXCEPT !["collector"] = cache]
  /\ collector' = <<collector[1], "store">>
  /\ UNCHANGED <<now, due, cache, ping, work, server, cancelled, newest>>

\* Seed and a QMP tick go on to the process; Seed ends there.
AfterStore ==
  IF collector[1] = "qmp" THEN <<"process", "observe">>
  ELSE IF server = "seeding" THEN <<"seeded", "idle">>
  ELSE <<"select", "idle">>

Store ==
  /\ collector[2] = "store"
  /\ cache' = Changed(collector[1], copy["collector"], work["collector"])
  /\ newest' = IF collector[1] = "qmp" THEN work["collector"] ELSE newest
  /\ copy' = [copy EXCEPT !["collector"] = NoSnapshot]
  /\ work' = [work EXCEPT !["collector"] = NoWork]
  /\ mu' = "free" /\ collector' = AfterStore
  /\ UNCHANGED <<now, due, ping, server, cancelled>>

\* The collector begins with the guest, the server with the snapshot Seed left.
Serve ==
  /\ collector[1] = "seeded"
  /\ collector' = <<"guest", "observe">> /\ server' = "serving"
  /\ UNCHANGED <<now, due, cache, ping, work, copy, mu, cancelled, newest>>

\* Start's loop.
Select ==
  /\ collector[1] = "select"
  /\ \/ cancelled /\ collector' = <<"ended", "idle">> /\ UNCHANGED due
     \/ \E task \in due : collector' = <<task, "observe">> /\ due' = due \ {task}
  /\ UNCHANGED <<now, cache, ping, work, copy, mu, server, cancelled, newest>>

CollectorStep == Observe \/ BeginUpdate \/ Store \/ Select

\* A ticker's channel holds one tick; a tick that finds it full is dropped.  Nobody looks at
\* the clock any more once the server is closed.
Tick ==
  /\ server \in {"seeding", "serving"} /\ now < MaxTime
  /\ now' = now + 1 /\ due' = {"qmp", "guest"}
  /\ UNCHANGED <<cache, collector, ping, work, copy, mu, server, cancelled, newest>>

-----------------------------------------------------------------------------
(* /ping: joinPing.  A request that finds a ping in flight waits for that one. *)

BeginPing ==
  /\ Agent /\ server = "serving" /\ ping[1] = "none"
  /\ ping' = <<"ping", "observe">>
  /\ UNCHANGED <<now, due, cache, collector, work, copy, mu, server, cancelled, newest>>

ObservePing ==
  /\ ping[2] = "observe"
  /\ \E ok \in BOOLEAN :
       work' = [work EXCEPT !["ping"] = [NoWork EXCEPT !.ok = ok, !.at = now]]
  /\ ping' = <<"ping", "update">>
  /\ UNCHANGED <<now, due, cache, collector, copy, mu, server, cancelled, newest>>

BeginPingUpdate ==
  /\ ping[2] = "update" /\ Lock("ping")
  /\ copy' = [copy EXCEPT !["ping"] = cache]
  /\ ping' = <<"ping", "store">>
  /\ UNCHANGED <<now, due, cache, collector, work, server, cancelled, newest>>

StorePing ==
  /\ ping[2] = "store"
  /\ cache' = Changed("ping", copy["ping"], work["ping"])
  /\ copy' = [copy EXCEPT !["ping"] = NoSnapshot]
  /\ work' = [work EXCEPT !["ping"] = NoWork]
  /\ mu' = "free" /\ ping' = <<"none", "idle">>
  /\ UNCHANGED <<now, due, collector, server, cancelled, newest>>

PingStep == ObservePing \/ BeginPingUpdate \/ StorePing

-----------------------------------------------------------------------------
(* monitoringServer.stop. *)

StopServing ==
  /\ cancelled' = TRUE /\ server' = "closed"
  /\ UNCHANGED <<now, due, cache, collector, ping, work, copy, mu, newest>>

Stopped == collector[1] \in {"none", "seeded", "ended"}

-----------------------------------------------------------------------------
(* What a handler serves. *)

\* markStale, for one collector.
StatusOf(key) ==
  LET entry == cache.of[key]
  IN IF entry.status \in {"ok", "failed"} /\ entry.success # Never
        /\ now - entry.success > QMPStaleAfter
     THEN "stale" ELSE entry.status

\* healthPolicy.
Health ==
  IF StatusOf("qmp") # "ok" THEN "unhealthy"
  ELSE IF cache.state = "running"
  THEN IF StatusOf("process") \in {"failed", "stale"} THEN "degraded" ELSE "healthy"
  ELSE IF cache.state = "paused" THEN "degraded" ELSE "unhealthy"

\* /health calls a VM healthy only if the newest observation that was published found
\* QEMU running, within the time it counts as fresh: no failure is covered by an older
\* success, no update is lost to the other goroutine's, and an observation that nothing
\* replaces does not last.
HealthIsCurrent ==
  server = "serving" /\ Health = "healthy" =>
    newest.ok /\ newest.state = "running" /\ now - newest.at <= QMPStaleAfter
=============================================================================

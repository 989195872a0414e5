------------------------------ MODULE Autostart ------------------------------
(***************************************************************************)
(* The autostart transactions (internal/launchd): enable, disable, start   *)
(* through launchd, and the inspection a delete makes.  Three stores hold  *)
(* what they change together and none of them knows of the others: the     *)
(* scope in config.json, a plist file per launchd domain, and the job      *)
(* launchd has loaded, which keeps the plist it was loaded from.           *)
(*                                                                         *)
(* Every transaction holds the lock of the VM's name from its first read   *)
(* to its end, so at most one is under way: pc is its program counter.     *)
(* What other processes do without the lock goes on around it: a login or  *)
(* boot loads plists, the user removes a file, Ctrl-C cancels the context, *)
(* the process is killed.                                                  *)
(*                                                                         *)
(* A step may fail, with or without having taken effect.  The commands run *)
(* through Runner (launchctl, plutil, sudo) also fail once the context is  *)
(* cancelled; file operations in the user's own directory do not.          *)
(***************************************************************************)
CONSTANTS
  Versions,   \* contents a plist rendered from the config may have
  None

Domains == {"login", "boot"}

ASSUME AutostartAssumption ==
  Versions # {} /\ None \notin Versions \cup Domains \cup {"detached"}

VARIABLES
  exists,     \* the VM's config file and directory
  scope,      \* autostart.scope of config.json; a scope names its domain
  version,    \* what a plist rendered from the config says
  plist,      \* the installed file of each domain, or None
  loaded,     \* the job of each domain as launchd loaded it, or None
  vm,         \* who started the running VM: a domain's job, "detached", or None
  pc,         \* where the transaction is; "idle" when the name lock is free
  op,         \* which one it is
  at,         \* the domain it is at
  target,     \* the domain enable or start was asked for
  oldScope,   \* the scope in the config it read
  seen,       \* the files it inspected
  jobs,       \* the domains in which disable found a job loaded
  bootedOut,  \* ... those it has booted out
  removed,    \* ... those whose file it has removed
  result,     \* "none", "ok", "already" or "failed"
  faults,     \* how many of its steps have failed: "none", "one" or "more"
  trouble,    \* what else disturbed it: "cancelled", a step that failed "late",
              \* a "login", a file "touched"
  scars       \* what transactions are not built to survive and have met: one was
              \* "killed", one met "more" than a single failure

diskVars   == <<exists, scope, version>>
launchVars == <<plist, loaded, vm>>
planVars   == <<op, target, oldScope, seen, jobs>>
undoVars   == <<bootedOut, removed>>
faultVars  == <<faults, trouble>>
vars == <<diskVars, launchVars, pc, at, planVars, undoVars, result, faultVars, scars>>

PCs == {"idle", "orphans", "replace", "install", "uninstall", "save", "cleanup", "unsave",
        "print", "check", "bootout", "remove", "restoreConfig", "restore", "rejob",
        "reload", "bootstrap", "inspect", "erase", "done"}

Nothing == [d \in Domains |-> None]

Init ==
  /\ exists = TRUE /\ scope = "none" /\ version \in Versions
  /\ plist = Nothing /\ loaded = Nothing /\ vm = None
  /\ pc = "idle" /\ op = "none" /\ at = "login" /\ target = "login" /\ oldScope = "none"
  /\ seen = Nothing /\ jobs = {} /\ bootedOut = {} /\ removed = {}
  /\ result = "none" /\ faults = "none" /\ trouble = {} /\ scars = {}

-----------------------------------------------------------------------------
(* How a step ends. *)

Goes(to)      == pc' = to /\ UNCHANGED <<at, result>>
Visits(d, to) == pc' = to /\ at' = d /\ UNCHANGED result
Ends(r)       == pc' = "done" /\ result' = r /\ UNCHANGED at

Succeeds == UNCHANGED faultVars

\* A command of the Runner succeeds only before the context is cancelled.
Runs == "cancelled" \notin trouble /\ Succeeds

\* A step fails and has had no effect ...
Counts == faults' = IF faults = "none" THEN "one" ELSE "more"
FileFails == Counts /\ UNCHANGED trouble
Fails == FileFails \/ ("cancelled" \in trouble /\ UNCHANGED faultVars)

\* ... or reports an error after it took effect.
FailsLate == Counts /\ trouble' = trouble \cup {"late"}

\* A command with sudo that fails may have had its effect.
SudoFailsLate(d) == d = "boot" /\ FailsLate

\* removePlist, and what installs a plist: with sudo in the system domain.
FileRuns(d) == IF d = "boot" THEN Runs ELSE Succeeds
FileStepFails(d) == IF d = "boot" THEN Fails ELSE FileFails

\* The file a step is about is no longer the one that was inspected.
FileChanged == plist[at] # seen[at]

-----------------------------------------------------------------------------
(* The beginnings: the lock is taken, the config read and the files inspected. A
   transaction that refuses before it has changed anything is no step. *)

Begins(o, first) ==
  /\ pc = "idle" /\ exists
  /\ op' = o /\ pc' = first
  /\ oldScope' = scope /\ seen' = plist
  /\ UNCHANGED <<diskVars, launchVars, jobs, undoVars, faultVars, scars>>

\* enable: the scope is configured already, and a file that is missing or matches is
\* left alone ...
EnableFindsScope(d) ==
  /\ scope = d /\ plist[d] \in {None, version}
  /\ Begins("enable", "done") /\ at' = d /\ target' = d /\ result' = "already"

\* ... one that has drifted is replaced ...
EnableReconciles(d) ==
  /\ scope = d /\ plist[d] \notin {None, version}
  /\ Begins("enable", "replace") /\ at' = d /\ target' = d /\ UNCHANGED result

\* ... and another scope is refused, so a job is installed only from scope none.
EnableBegins(d) ==
  /\ scope = "none"
  /\ Begins("enable", "orphans") /\ at' = "login" /\ target' = d /\ UNCHANGED result

DisableBegins ==
  /\ Begins("disable", "print") /\ at' = "login" /\ UNCHANGED <<target, result>>

\* start, of a VM that is stopped and has a scope: the file must say what the config
\* says now.
StartBegins(d) ==
  /\ scope = d /\ vm = None
  /\ Begins("start", IF plist[d] = version THEN "reload"
                     ELSE IF plist[d] = None THEN "install" ELSE "replace")
  /\ at' = d /\ target' = d /\ UNCHANGED result

\* Store.Delete: scope none, and the lifetime lock was free.
DeleteBegins ==
  /\ scope = "none" /\ vm = None
  /\ Begins("delete", "inspect") /\ at' = "login" /\ UNCHANGED <<target, result>>

-----------------------------------------------------------------------------
(* Steps of enable and start. *)

\* Mutant: only the orphan of the domain that is enabled is looked for.
RemoveOwnOrphan ==
  /\ pc \in {"orphans", "replace"}
  /\ plist[target] = seen[target]
  /\ plist' = [plist EXCEPT ![target] = None] /\ FileRuns(target)
  /\ Goes("install")
  /\ UNCHANGED <<diskVars, loaded, vm, planVars, undoVars, scars>>

\* A file is removed only if it is still the one that was inspected. A drifted file is
\* the target's; orphans are looked for in both domains.
RemoveInspected ==
  /\ pc \in {"orphans", "replace"}
  /\ \/ /\ \/ seen[at] = None /\ Succeeds /\ UNCHANGED plist
           \/ /\ seen[at] # None /\ ~FileChanged /\ FileRuns(at)
              /\ plist' = [plist EXCEPT ![at] = None]
        /\ IF pc = "orphans" /\ at = "login" THEN Visits("boot", "orphans")
                                             ELSE Goes("install")
     \/ /\ seen[at] # None /\ Ends("failed")
        /\ \/ ((FileChanged /\ Succeeds) \/ FileStepFails(at)) /\ UNCHANGED plist
           \/ SudoFailsLate(at) /\ plist' = [plist EXCEPT ![at] = None]
  /\ UNCHANGED <<diskVars, loaded, vm, planVars, undoVars, scars>>

\* What follows the installed file.
Installed ==
  \/ op = "start" /\ Goes("reload")
  \/ op = "enable" /\ oldScope = "none" /\ Goes("save")
  \/ op = "enable" /\ oldScope # "none" /\ Ends("ok")

\* installPlist: lint, install and verify the rendered plist.
Install ==
  /\ pc = "install"
  /\ \/ Runs /\ plist' = [plist EXCEPT ![target] = version] /\ Installed
     \/ Fails /\ UNCHANGED plist /\ Ends("failed")
     \/ FailsLate /\ plist' = [plist EXCEPT ![target] = version] /\ Goes("uninstall")
  /\ UNCHANGED <<diskVars, loaded, vm, planVars, undoVars, scars>>

\* A failed install, or one whose scope could not be saved, is removed if it is exactly
\* what was written.
Uninstall ==
  /\ pc \in {"uninstall", "cleanup"}
  /\ \/ /\ plist[target] = version /\ FileRuns(target)
        /\ plist' = [plist EXCEPT ![target] = None]
     \/ plist[target] # version /\ Succeeds /\ UNCHANGED plist
     \/ FileStepFails(target) /\ UNCHANGED plist
  /\ IF pc = "cleanup" THEN Goes("unsave") ELSE Ends("failed")
  /\ UNCHANGED <<diskVars, loaded, vm, planVars, undoVars, scars>>

NewScope == IF op = "enable" THEN target ELSE "none"

\* Mutant: a scope that could not be saved is reported, and that is all.
SaveOnly ==
  /\ pc = "save"
  /\ \/ Succeeds /\ scope' = NewScope /\ Ends("ok")
     \/ FileFails /\ UNCHANGED scope /\ Ends("failed")
  /\ UNCHANGED <<exists, version, launchVars, planVars, undoVars, scars>>

\* The scope is committed last. Save can report an error after its rename.
Save ==
  /\ pc = "save"
  /\ \/ Succeeds /\ scope' = NewScope /\ Ends("ok")
     \/ /\ FileFails /\ scope' \in {scope, NewScope}
        /\ Goes(IF op = "enable" THEN "cleanup" ELSE "restoreConfig")
  /\ UNCHANGED <<exists, version, launchVars, planVars, undoVars, scars>>

\* The config that was read is saved again; disable then restores the domains.
RestoreConfig ==
  /\ pc \in {"unsave", "restoreConfig"}
  /\ \/ Succeeds /\ scope' = oldScope
     \/ FileFails /\ UNCHANGED scope
  /\ IF pc = "unsave" THEN Ends("failed") ELSE Visits("boot", "restore")
  /\ UNCHANGED <<exists, version, launchVars, planVars, undoVars, scars>>

\* Mutant: a job that is loaded is taken for one that runs the current plist.
ReloadTrusts ==
  /\ pc = "reload" /\ Runs
  /\ IF loaded[target] = None THEN Goes("bootstrap") ELSE Ends("ok")
  /\ UNCHANGED <<diskVars, launchVars, planVars, undoVars, scars>>

\* start: a loaded job is booted out first, for launchd to read the file again.
Reload ==
  /\ pc = "reload"
  /\ \/ Runs /\ Goes(IF loaded[target] = None THEN "bootstrap" ELSE "bootout")
     \/ Fails /\ Ends("failed")
  /\ UNCHANGED <<diskVars, launchVars, planVars, undoVars, scars>>

\* launchctl bootstrap needs a file, and a domain that has no such job.
Bootstraps(d) ==
  /\ plist[d] # None /\ loaded[d] = None
  /\ loaded' = [loaded EXCEPT ![d] = plist[d]]

BootstrapFails(d) ==
  \/ (Fails \/ ((plist[d] = None \/ loaded[d] # None) /\ Succeeds)) /\ UNCHANGED loaded
  \/ FailsLate /\ Bootstraps(d)

StartBootstraps ==
  /\ pc = "bootstrap"
  /\ \/ Runs /\ Bootstraps(target) /\ Ends("ok")
     \/ BootstrapFails(target) /\ Ends("failed")
  /\ UNCHANGED <<diskVars, plist, vm, planVars, undoVars, scars>>

-----------------------------------------------------------------------------
(* Steps of disable: login domain first, then the system's. *)

RollsBack == Visits("boot", "restore")

NothingToDo == oldScope = "none" /\ seen = Nothing

\* The loaded jobs, and whether the VM is stopped.
DisablePrints ==
  /\ pc = "print"
  /\ \/ /\ Runs /\ jobs' = {d \in Domains : loaded[d] # None}
        /\ \/ vm # None /\ Ends("failed")
           \/ vm = None /\ NothingToDo /\ Ends("ok")
           \/ vm = None /\ ~NothingToDo /\ Goes("check")
     \/ Fails /\ Ends("failed") /\ UNCHANGED jobs
  /\ UNCHANGED <<diskVars, launchVars, op, target, oldScope, seen, undoVars, scars>>

\* The file must still be the one that was inspected.
Check ==
  /\ pc = "check"
  /\ \/ /\ ~FileChanged /\ Succeeds
        /\ Goes(IF at \in jobs THEN "bootout" ELSE "remove")
     \/ ((FileChanged /\ Succeeds) \/ FileFails) /\ RollsBack
  /\ UNCHANGED <<diskVars, launchVars, planVars, undoVars, scars>>

\* launchctl bootout ends the job and the VM it runs.
Unloads(d) ==
  /\ loaded' = [loaded EXCEPT ![d] = None]
  /\ vm' = IF vm = d THEN None ELSE vm

Bootout ==
  /\ pc = "bootout"
  /\ \/ /\ Runs /\ Unloads(at) /\ bootedOut' = bootedOut \cup {at}
        /\ Goes(IF op = "start" THEN "bootstrap" ELSE "remove")
     \/ /\ \/ Fails /\ UNCHANGED <<loaded, vm>>
           \/ FailsLate /\ Unloads(at)
        /\ IF op = "start" THEN Ends("failed") ELSE RollsBack
        /\ UNCHANGED bootedOut
  /\ UNCHANGED <<diskVars, plist, planVars, removed, scars>>

NextDomain ==
  IF at = "login" THEN Visits("boot", "check")
  ELSE IF oldScope = "none" THEN Ends("ok") ELSE Goes("save")

Remove ==
  /\ pc = "remove"
  /\ \/ seen[at] = None /\ Succeeds /\ NextDomain /\ UNCHANGED <<plist, removed>>
     \/ /\ seen[at] # None /\ ~FileChanged /\ FileRuns(at)
        /\ plist' = [plist EXCEPT ![at] = None] /\ removed' = removed \cup {at}
        /\ NextDomain
     \/ /\ seen[at] # None /\ RollsBack /\ UNCHANGED removed
        /\ \/ ((FileChanged /\ Succeeds) \/ FileStepFails(at)) /\ UNCHANGED plist
           \/ SudoFailsLate(at) /\ plist' = [plist EXCEPT ![at] = None]
  /\ UNCHANGED <<diskVars, loaded, vm, planVars, bootedOut, scars>>

\* A job that was loaded from a file that is gone is given one, rendered anew.
Backup(d) == IF seen[d] = None THEN version ELSE seen[d]
NeedsFile(d) == d \in removed \/ (d \in bootedOut /\ seen[d] = None)
NextRestore == IF at = "boot" THEN Visits("login", "restore") ELSE Ends("failed")

\* Mutant: only the domain whose step failed is restored.
RestoreCurrentOnly ==
  /\ pc = "restore"
  /\ IF NeedsFile(at)
     THEN plist' = [plist EXCEPT ![at] = Backup(at)] /\ Runs
     ELSE UNCHANGED plist /\ Succeeds
  /\ IF at \in bootedOut THEN Goes("rejob") ELSE Ends("failed")
  /\ UNCHANGED <<diskVars, loaded, vm, planVars, undoVars, scars>>

\* The rollback takes the domains in reverse, and goes on after a failure. A file whose
\* installation failed late is removed again, if that works.
Restore ==
  /\ pc = "restore"
  /\ \/ ~NeedsFile(at) /\ Succeeds /\ Goes("rejob") /\ UNCHANGED plist
     \/ /\ NeedsFile(at) /\ Runs /\ Goes("rejob")
        /\ plist' = [plist EXCEPT ![at] = Backup(at)]
     \/ /\ NeedsFile(at) /\ NextRestore
        /\ \/ Fails /\ UNCHANGED plist
           \/ FailsLate /\ \E f \in {None, Backup(at)} : plist' = [plist EXCEPT ![at] = f]
  /\ UNCHANGED <<diskVars, loaded, vm, planVars, undoVars, scars>>

Rejob ==
  /\ pc = "rejob" /\ NextRestore
  /\ \/ (at \notin bootedOut \/ plist[at] # Backup(at)) /\ Succeeds /\ UNCHANGED loaded
     \/ /\ at \in bootedOut /\ plist[at] = Backup(at)
        /\ (Runs /\ Bootstraps(at)) \/ BootstrapFails(at)
  /\ UNCHANGED <<diskVars, plist, vm, planVars, undoVars, scars>>

-----------------------------------------------------------------------------
(* delete, the end of a transaction, and what goes on around it. *)

InspectsNext == IF at = "login" THEN Visits("boot", "inspect") ELSE Goes("erase")

\* Mutant: only the files are looked at.
InspectFiles ==
  /\ pc = "inspect" /\ Runs
  /\ IF plist[at] # None THEN Ends("failed") ELSE InspectsNext
  /\ UNCHANGED <<diskVars, launchVars, planVars, undoVars, scars>>

\* A file or a loaded job, in either domain, forbids the deletion.
Inspect ==
  /\ pc = "inspect"
  /\ \/ /\ Runs
        /\ \/ (plist[at] # None \/ loaded[at] # None) /\ Ends("failed")
           \/ plist[at] = None /\ loaded[at] = None /\ InspectsNext
     \/ Fails /\ Ends("failed")
  /\ UNCHANGED <<diskVars, launchVars, planVars, undoVars, scars>>

\* The VM's directory goes first, then its logs and runtime files.
Erase ==
  /\ pc = "erase"
  /\ \/ Succeeds /\ exists' = FALSE /\ Ends("ok")
     \/ FileFails /\ exists' \in BOOLEAN /\ Ends("failed")
  /\ UNCHANGED <<scope, version, launchVars, planVars, undoVars, scars>>

\* The lock is released and the transaction's variables are gone.
Releases ==
  /\ pc' = "idle" /\ op' = "none" /\ at' = "login" /\ target' = "login"
  /\ oldScope' = "none" /\ seen' = Nothing /\ jobs' = {} /\ bootedOut' = {}
  /\ removed' = {} /\ result' = "none" /\ faults' = "none" /\ trouble' = {}
  /\ UNCHANGED <<diskVars, launchVars>>

\* Mutant: what was booted out and removed is remembered.
FinishForgets ==
  /\ pc = "done" /\ pc' = "idle" /\ result' = "none"
  /\ UNCHANGED <<diskVars, launchVars, at, planVars, undoVars, faultVars, scars>>

\* One failing step, late or not, is what a transaction is built to survive.
Survivable == faults # "more" /\ trouble \subseteq {"late", "touched"}

Finish ==
  /\ pc = "done" /\ Releases
  /\ scars' = IF Survivable THEN scars ELSE scars \cup {"more"}

\* The process is killed: SIGKILL, a power cut.
Crash ==
  /\ pc \notin {"idle", "done"} /\ Releases /\ scars' = scars \cup {"killed"}

\* Ctrl-C or SIGTERM cancels the context.
Cancel ==
  /\ pc \notin {"idle", "done"} /\ trouble' = trouble \cup {"cancelled"}
  /\ UNCHANGED <<diskVars, launchVars, pc, at, planVars, undoVars, result, faults,
                 scars>>

\* set and config apply change what is rendered, and never the scope.
Edit ==
  /\ pc = "idle" /\ exists /\ version' \in Versions \ {version}
  /\ UNCHANGED <<exists, scope, launchVars, pc, at, planVars, undoVars, result, faultVars,
                 scars>>

\* Mutant: a supervisor starts without the lock of the name.
VMStartsUnlocked(o) ==
  /\ exists /\ vm = None
  /\ o \in Domains => loaded[o] # None
  /\ vm' = o
  /\ UNCHANGED <<diskVars, plist, loaded, pc, at, planVars, undoVars, result, faultVars,
                 scars>>

\* A supervisor, launched by a loaded job or by a command, starts under the lock.
VMStarts(o) ==
  /\ pc = "idle" /\ exists /\ vm = None
  /\ o \in Domains => loaded[o] # None
  /\ vm' = o
  /\ UNCHANGED <<diskVars, plist, loaded, pc, at, planVars, undoVars, result, faultVars,
                 scars>>

VMStops ==
  /\ vm # None /\ vm' = None
  /\ UNCHANGED <<diskVars, plist, loaded, pc, at, planVars, undoVars, result, faultVars,
                 scars>>

Meanwhile(what) == trouble' = IF pc = "idle" THEN trouble ELSE trouble \cup {what}

\* "A job file can be removed in place." (At "done" the transaction has returned: what
\* happens then happens after it.)
UserRemoves(d) ==
  /\ plist[d] # None /\ pc # "done"
  /\ plist' = [plist EXCEPT ![d] = None] /\ Meanwhile("touched")
  /\ UNCHANGED <<diskVars, loaded, vm, pc, at, planVars, undoVars, result, faults, scars>>

\* A login loads the agent, whatever a process started over ssh is doing.
Login ==
  /\ plist["login"] # None /\ loaded["login"] = None /\ pc # "done"
  /\ loaded' = [loaded EXCEPT !["login"] = plist["login"]] /\ Meanwhile("login")
  /\ UNCHANGED <<diskVars, plist, vm, pc, at, planVars, undoVars, result, faults, scars>>

Reboot ==
  /\ pc = "idle"
  /\ vm' = None /\ loaded' = [Nothing EXCEPT !["boot"] = plist["boot"]]
  /\ UNCHANGED <<diskVars, plist, pc, at, planVars, undoVars, result, faultVars, scars>>

-----------------------------------------------------------------------------
Begin ==
  \/ \E d \in Domains : EnableFindsScope(d) \/ EnableReconciles(d) \/ EnableBegins(d)
  \/ DisableBegins \/ DeleteBegins
  \/ \E d \in Domains : StartBegins(d)

EnableStep == RemoveInspected \/ Install \/ Uninstall \/ Save \/ RestoreConfig
StartStep == Reload \/ Bootout \/ StartBootstraps
DisableStep == DisablePrints \/ Check \/ Remove \/ Restore \/ Rejob
DeleteStep == Inspect \/ Erase

Around ==
  \/ Crash \/ Cancel \/ Edit
  \/ \E o \in Domains \cup {"detached"} : VMStarts(o)
  \/ VMStops \/ Login \/ Reboot
  \/ \E d \in Domains : UserRemoves(d)

Next == Begin \/ EnableStep \/ StartStep \/ DisableStep \/ DeleteStep \/ Finish \/ Around

Spec == Init /\ [][Next]_vars

-----------------------------------------------------------------------------
(* Properties. *)

Contents == [Domains -> Versions \cup {None}]

\* Every variable has its type, and nothing outlives the lock: a transaction begins with
\* empty hands.
TypeOK ==
  /\ exists \in BOOLEAN /\ scope \in Domains \cup {"none"} /\ version \in Versions
  /\ plist \in Contents /\ loaded \in Contents
  /\ vm \in Domains \cup {"detached", None}
  /\ pc \in PCs /\ op \in {"none", "enable", "disable", "start", "delete"}
  /\ at \in Domains /\ target \in Domains /\ oldScope \in Domains \cup {"none"}
  /\ seen \in Contents /\ jobs \subseteq Domains /\ bootedOut \subseteq Domains
  /\ removed \subseteq Domains
  /\ result \in {"none", "ok", "already", "failed"}
  /\ faults \in {"none", "one", "more"}
  /\ trouble \subseteq {"cancelled", "late", "login", "touched"}
  /\ scars \subseteq {"killed", "more"}
  /\ pc = "idle" => /\ jobs = {} /\ bootedOut = {} /\ removed = {}
                    /\ faults = "none" /\ trouble = {}

\* While disable or start loads and unloads jobs, and while delete inspects and erases,
\* the VM does not run: it was seen stopped once, at the beginning, and a bootout later
\* on would end it (disable.go:32-36).
NoVMUnderOperation ==
  pc \notin {"idle", "print", "done"} /\ op \in {"disable", "start", "delete"} => vm = None

\* Nothing of the VM is left with launchd when it is deleted, also after crashes,
\* cancelled transactions and logins in the middle of one.
DeletedLeavesNothing == ~exists => plist = Nothing /\ loaded = Nothing /\ vm = None

\* Between transactions, files and jobs exist only in the domain of the configured
\* scope, although every transaction may have had a step that failed.
JobsFollowScope ==
  pc = "idle" /\ scars = {}
    => \A d \in Domains : plist[d] # None \/ loaded[d] # None => scope = d

\* A disable that fails at one step leaves files, jobs and scope as it found them
\* (disable.go:43-44).
FailedDisableRestores ==
  pc = "done" /\ op = "disable" /\ result = "failed" /\ faults = "one" /\ trouble = {}
    => /\ scope = oldScope
       /\ \A d \in Domains : /\ seen[d] # None => plist[d] = seen[d]
                             /\ d \in jobs => loaded[d] # None

\* An enable that installed a job leaves the current plist in the domain asked for, none
\* in the other, and that scope in the config.
EnableTakesEffect ==
  pc = "done" /\ op = "enable" /\ result = "ok" /\ "touched" \notin trouble
    => /\ scope = target /\ plist[target] = version
       /\ oldScope = "none" => \A d \in Domains \ {target} : plist[d] = None

\* After a start launchd runs the job from what the config says now, and not from what
\* it had in memory (start.go:18-23).
StartLoadsCurrent ==
  pc = "done" /\ op = "start" /\ result = "ok" /\ trouble = {}
    => loaded[target] = version /\ plist[target] = version

\* Violated. A disable that succeeds leaves no job loaded: "For a stopped VM, it boots
\* out any loaded job and removes its plist" (docs-site/docs/operations/autostart.md:55).
DisableUnloads ==
  pc = "done" /\ op = "disable" /\ result = "ok" /\ trouble = {} => loaded = Nothing
=============================================================================

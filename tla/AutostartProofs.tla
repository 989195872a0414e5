--------------------------- MODULE AutostartProofs ---------------------------
(***************************************************************************)
(* Proofs about Autostart, for any set of contents a plist may have.       *)
(***************************************************************************)
EXTENDS Autostart, TLAPS

-----------------------------------------------------------------------------
(* What the proofs rest on: where a transaction is says what it has done. *)

\* Which transaction a program counter belongs to, and what it was asked.
Course ==
  /\ pc \in {"print", "check", "remove", "restoreConfig", "restore", "rejob"}
       => op = "disable"
  /\ pc \in {"inspect", "erase"} => op = "delete"
  /\ pc \in {"reload", "bootstrap"} => op = "start"
  /\ pc \in {"orphans", "cleanup", "unsave"} => op = "enable"
  /\ pc \in {"replace", "install", "uninstall"} => op \in {"enable", "start"}
  /\ pc = "save" => op \in {"enable", "disable"}
  /\ pc = "bootout" => op \in {"disable", "start"}
  /\ pc = "print" => at = "login" /\ jobs = {} /\ bootedOut = {} /\ removed = {}
  /\ op = "disable" /\ pc = "bootout" => at \in jobs
  /\ op = "disable" /\ pc \in {"check", "bootout", "remove"}
       => at \notin removed /\ "boot" \notin removed
  /\ pc # "idle" /\ (op = "start" \/ pc = "replace") => at = target /\ oldScope = target
  /\ op = "enable" /\ pc \in {"orphans", "save", "cleanup", "unsave"} => oldScope = "none"
  /\ op = "enable" /\ pc \in {"install", "uninstall"} => oldScope \in {"none", target}
  /\ pc \in {"orphans", "replace", "install", "uninstall", "save", "print", "check",
             "remove", "reload", "bootstrap", "bootout", "inspect", "erase"}
       => scope = oldScope
  /\ pc \in {"uninstall", "cleanup"} \/ (op = "enable" /\ pc = "save")
       => plist[target] \in {None, version}

\* A VM that is deleted is gone from launchd.
Gone ==
  /\ NoVMUnderOperation
  /\ ~exists => pc \in {"idle", "done"} /\ plist = Nothing /\ loaded = Nothing /\ vm = None
  /\ pc = "inspect" /\ at = "boot" => plist["login"] = None /\ loaded["login"] = None
  /\ pc = "erase" => plist = Nothing /\ loaded = Nothing

\* An enable, and a start, have the file they are about to commit to or to load.
Installing ==
  /\ pc = "orphans" => /\ \A d \in Domains : plist[d] \in {None, seen[d]}
                       /\ at = "boot" => plist["login"] = None
  /\ op = "enable" /\ pc = "install" /\ oldScope = "none" => plist = Nothing
  /\ op = "enable" /\ pc = "save" /\ "touched" \notin trouble
       => plist[target] = version /\ \A d \in Domains \ {target} : plist[d] = None
  /\ op = "start" /\ pc \in {"reload", "bootout", "bootstrap"} /\ "touched" \notin trouble
       => plist[target] = version
  /\ EnableTakesEffect /\ StartLoadsCurrent

\* A domain that has a file or a job is the configured one, as long as no transaction
\* has met more than it is built to survive.
Home ==
  scars = {} /\ Survivable =>
  /\ pc \in {"uninstall", "cleanup", "unsave", "restoreConfig"} => faults = "one"
  /\ pc \in {"restore", "rejob"} => scope = oldScope
  /\ pc = "unsave" => plist = Nothing
  /\ pc # "idle" => \A d \in Domains :
       (seen[d] # None \/ d \in jobs \cup bootedOut \cup removed) => oldScope = d
  /\ pc \notin {"idle", "done"} => \A d \in Domains :
       /\ loaded[d] # None => oldScope = d
       /\ plist[d] # None
            => oldScope = d \/ (d = target /\ pc \in {"uninstall", "save", "cleanup"})
  /\ op = "disable" =>
       /\ pc \in {"print", "check", "bootout", "remove"}
            => \A d \in Domains : plist[d] \in {None, seen[d]}
       /\ pc \in {"check", "bootout", "remove"}
            => /\ \A d \in Domains : loaded[d] # None => d \in jobs
               /\ at = "boot" => plist["login"] = None /\ loaded["login"] = None
       /\ pc = "remove" => loaded[at] = None
       /\ pc = "save" => plist = Nothing /\ loaded = Nothing
  /\ pc \in {"idle", "done"} => \A d \in Domains :
       plist[d] # None \/ loaded[d] # None => scope = d

\* What a disable has undone so far, and what of it the rollback has restored.
Undone(d) ==
  /\ plist[d] = IF d \in removed THEN None ELSE seen[d]
  /\ d \in jobs => (loaded[d] = None <=> d \in bootedOut)
  /\ d \in removed => seen[d] # None
  /\ d \in bootedOut => d \in jobs

Redone(d) ==
  /\ seen[d] # None => plist[d] = seen[d]
  /\ d \in jobs => loaded[d] # None

\* Nothing but one plain failure has happened to the transaction.
Clean == trouble = {} /\ faults # "more"

\* What a disable has done matches what it would have to undo.
Undoing ==
  op = "disable" /\ Clean =>
  /\ pc \in {"print", "check", "bootout", "remove", "save"}
       => faults = "none" /\ \A d \in Domains : Undone(d)
  /\ pc = "restoreConfig" => faults = "one" /\ \A d \in Domains : Undone(d)
  /\ pc \in {"restore", "rejob"} =>
       /\ faults = "one" /\ scope = oldScope
       /\ at = "boot" => Undone("login")
       /\ at = "login" => Redone("boot")
  /\ pc = "restore" => Undone(at)
  /\ pc = "rejob" => /\ seen[at] # None => plist[at] = seen[at]
                     /\ at \in bootedOut => plist[at] = Backup(at) /\ loaded[at] = None
                     /\ at \in jobs \ bootedOut => loaded[at] # None
  /\ pc = "done" /\ result = "failed" /\ faults = "one"
       => scope = oldScope /\ \A d \in Domains : Redone(d)

Inv == TypeOK /\ Course /\ Gone /\ Installing /\ Home /\ Undoing

-----------------------------------------------------------------------------
(* Type correctness. *)

\* The two domains. (Domains itself stays folded in most of the proofs.)
LEMMA DomainFacts ==
  /\ "login" \in Domains /\ "boot" \in Domains /\ "none" \notin Domains
  /\ \A d \in Domains : d = "login" \/ d = "boot"
BY DEF Domains

\* What Contents is made of, and what a change at one domain makes of it.
LEMMA ContentsFacts ==
  /\ Nothing \in Contents
  /\ \A f \in Contents, d \in Domains :
       /\ f[d] \in Versions \cup {None}
       /\ \A v \in Versions \cup {None} : [f EXCEPT ![d] = v] \in Contents
       /\ \A v : \A e \in Domains : [f EXCEPT ![d] = v][e] = IF e = d THEN v ELSE f[e]
BY DEF Nothing, Contents

\* The type of what a transaction has met.
FaultType ==
  /\ faults \in {"none", "one", "more"}
  /\ trouble \subseteq {"cancelled", "late", "login", "touched"}

\* However a step turns out, faults and trouble keep their types.
LEMMA Outcomes ==
  ASSUME FaultType
  PROVE  /\ Succeeds \/ Runs \/ FileFails \/ Fails \/ FailsLate => FaultType'
         /\ \A d \in Domains :
              FileRuns(d) \/ FileStepFails(d) \/ SudoFailsLate(d) => FaultType'
BY DEF FaultType, Succeeds, Runs, Counts, FileFails, Fails, FailsLate, FileRuns,
       FileStepFails, SudoFailsLate, faultVars

\* The first state has the declared types.
LEMMA InitType == Init => TypeOK
BY ContentsFacts, DomainFacts DEF Init, TypeOK, PCs

\* Every step preserves the types.
LEMMA NextType == TypeOK /\ [Next]_vars => TypeOK'
<1>0. SUFFICES ASSUME TypeOK, [Next]_vars PROVE TypeOK'
  OBVIOUS
<1> USE DEF TypeOK, FaultType, PCs, Goes, Visits, Ends, diskVars, planVars, undoVars
<1>1. ASSUME NEW d \in Domains, EnableFindsScope(d)
      PROVE  TypeOK'
  BY <1>1, <1>0 DEF EnableFindsScope, Begins, launchVars, faultVars
<1>2. ASSUME NEW d \in Domains, EnableReconciles(d)
      PROVE  TypeOK'
  BY <1>2, <1>0 DEF EnableReconciles, Begins, launchVars, faultVars
<1>3. ASSUME NEW d \in Domains, EnableBegins(d)
      PROVE  TypeOK'
  BY <1>3, <1>0, DomainFacts DEF EnableBegins, Begins, launchVars, faultVars
<1>4. CASE DisableBegins
  BY <1>4, <1>0, DomainFacts DEF DisableBegins, Begins, launchVars, faultVars
<1>5. CASE DeleteBegins
  BY <1>5, <1>0, DomainFacts DEF DeleteBegins, Begins, launchVars, faultVars
<1>6. ASSUME NEW d \in Domains, StartBegins(d)
      PROVE  TypeOK'
  BY <1>6, <1>0 DEF StartBegins, Begins, launchVars, faultVars
<1>7. CASE RemoveInspected
  <2>1. FaultType'
    BY <1>0, <1>7, Outcomes DEF RemoveInspected
  <2> QED BY <1>0, <2>1, <1>7, ContentsFacts, DomainFacts DEF RemoveInspected, FileChanged
<1>8. CASE Install
  <2>1. FaultType'
    BY <1>0, <1>8, Outcomes DEF Install
  <2> QED BY <1>0, <2>1, <1>8, ContentsFacts, DomainFacts DEF Install, Installed
<1>9. CASE Uninstall
  <2>1. FaultType'
    BY <1>0, <1>9, Outcomes DEF Uninstall
  <2> QED BY <1>0, <2>1, <1>9, ContentsFacts, DomainFacts DEF Uninstall
<1>10. CASE Save
  <2>1. FaultType'
    BY <1>0, <1>10, Outcomes DEF Save
  <2> QED BY <1>0, <2>1, <1>10, ContentsFacts, DomainFacts DEF Save, NewScope, launchVars
<1>11. CASE RestoreConfig
  <2>1. FaultType'
    BY <1>0, <1>11, Outcomes DEF RestoreConfig
  <2> QED BY <1>0, <2>1, <1>11, ContentsFacts, DomainFacts DEF RestoreConfig, launchVars
<1>12. CASE Reload
  <2>1. FaultType'
    BY <1>0, <1>12, Outcomes DEF Reload
  <2> QED BY <1>0, <2>1, <1>12, ContentsFacts, DomainFacts DEF Reload, launchVars
<1>13. CASE Bootout
  <2>1. FaultType'
    BY <1>0, <1>13, Outcomes DEF Bootout
  <2> QED BY <1>0, <2>1, <1>13, ContentsFacts, DomainFacts DEF Bootout, Unloads, RollsBack
<1>14. CASE StartBootstraps
  <2>1. FaultType'
    BY <1>0, <1>14, Outcomes DEF StartBootstraps, Bootstraps, BootstrapFails
  <2> QED BY <1>0, <2>1, <1>14, ContentsFacts, DomainFacts
          DEF StartBootstraps, Bootstraps, BootstrapFails
<1>15. CASE DisablePrints
  <2>1. FaultType'
    BY <1>0, <1>15, Outcomes DEF DisablePrints
  <2> QED BY <1>0, <2>1, <1>15, ContentsFacts, DomainFacts
          DEF DisablePrints, NothingToDo, launchVars
<1>16. CASE Check
  <2>1. FaultType'
    BY <1>0, <1>16, Outcomes DEF Check
  <2> QED BY <1>0, <2>1, <1>16, ContentsFacts, DomainFacts
          DEF Check, FileChanged, RollsBack, launchVars
<1>17. CASE Remove
  <2>1. FaultType'
    BY <1>0, <1>17, Outcomes DEF Remove
  <2> QED BY <1>0, <2>1, <1>17, ContentsFacts, DomainFacts
          DEF Remove, FileChanged, RollsBack, NextDomain
<1>18. CASE Restore
  <2>1. FaultType'
    BY <1>0, <1>18, Outcomes DEF Restore
  <2> QED BY <1>0, <2>1, <1>18, ContentsFacts, DomainFacts
          DEF Restore, NeedsFile, Backup, NextRestore
<1>19. CASE Rejob
  <2>1. FaultType'
    BY <1>0, <1>19, Outcomes DEF Rejob, Bootstraps, BootstrapFails
  <2> QED BY <1>0, <2>1, <1>19, ContentsFacts, DomainFacts
          DEF Rejob, Backup, NextRestore, Bootstraps, BootstrapFails
<1>20. CASE Inspect
  <2>1. FaultType'
    BY <1>0, <1>20, Outcomes DEF Inspect
  <2> QED BY <1>0, <2>1, <1>20, ContentsFacts, DomainFacts
          DEF Inspect, InspectsNext, launchVars
<1>21. CASE Erase
  <2>1. FaultType'
    BY <1>0, <1>21, Outcomes DEF Erase
  <2> QED BY <1>0, <2>1, <1>21, ContentsFacts, DomainFacts DEF Erase, launchVars
<1>22. CASE Crash
  BY <1>22, <1>0, ContentsFacts, DomainFacts DEF Crash, Releases, launchVars
<1>23. CASE Cancel
  BY <1>23, <1>0 DEF Cancel, launchVars
<1>24. CASE Edit
  BY <1>24, <1>0 DEF Edit, launchVars, faultVars
<1>25. ASSUME NEW o \in Domains \cup {"detached"}, VMStarts(o)
      PROVE  TypeOK'
  BY <1>25, <1>0 DEF VMStarts, faultVars
<1>26. CASE VMStops
  BY <1>26, <1>0 DEF VMStops, faultVars
<1>27. CASE Login
  <2>1. FaultType' /\ (pc = "idle" => trouble' = trouble)
    BY <1>0, <1>27 DEF Login, Meanwhile
  <2>2. loaded' \in Contents
    BY <1>0, <1>27, ContentsFacts, DomainFacts DEF Login
  <2> QED BY <1>0, <2>1, <2>2, <1>27 DEF Login
<1>28. CASE Reboot
  BY <1>28, <1>0, ContentsFacts, DomainFacts DEF Reboot, faultVars
<1>29. ASSUME NEW d \in Domains, UserRemoves(d)
      PROVE  TypeOK'
  <2>1. FaultType' /\ (pc = "idle" => trouble' = trouble)
    BY <1>0, <1>29 DEF UserRemoves, Meanwhile
  <2>2. plist' \in Contents
    BY <1>0, <1>29, ContentsFacts DEF UserRemoves
  <2> QED BY <1>0, <2>1, <2>2, <1>29 DEF UserRemoves
<1>30. CASE Finish
  BY <1>30, <1>0, ContentsFacts, DomainFacts DEF Finish, Releases, launchVars
<1>31. CASE UNCHANGED vars
  BY <1>31, <1>0 DEF vars, launchVars, faultVars
<1> QED BY <1>0, <1>1, <1>2, <1>3, <1>4, <1>5, <1>6, <1>7, <1>8, <1>9, <1>10, <1>11,
       <1>12, <1>13, <1>14, <1>15, <1>16, <1>17, <1>18, <1>19, <1>20, <1>21, <1>22,
       <1>23, <1>24, <1>25, <1>26, <1>27, <1>28, <1>29, <1>30, <1>31
       DEF Next, Begin, EnableStep, StartStep, DisableStep, DeleteStep, Around

\* Every reachable state is well typed.
THEOREM TypeCorrect == Spec => []TypeOK
BY InitType, NextType, PTL DEF Spec

-----------------------------------------------------------------------------
(* Where a transaction is says which one it is and what it knows. *)

\* No transaction is under way at first.
LEMMA InitCourse == Init => Course
BY DEF Init, Course

\* Every step keeps to the course of its transaction.
LEMMA NextCourse == TypeOK /\ Course /\ [Next]_vars => Course'
<1>0. SUFFICES ASSUME TypeOK, Course, [Next]_vars PROVE Course'
  OBVIOUS
<1>t. /\ plist \in Contents /\ seen \in Contents /\ version \in Versions
      /\ at \in Domains /\ target \in Domains
  BY <1>0 DEF TypeOK
<1>i. pc = "idle" => jobs = {} /\ bootedOut = {} /\ removed = {}
  BY <1>0 DEF TypeOK
<1> USE DEF Course, Goes, Visits, Ends, diskVars, planVars, undoVars
<1>1. ASSUME NEW d \in Domains, EnableFindsScope(d)
      PROVE  Course'
  BY <1>1 DEF EnableFindsScope, Begins
<1>2. ASSUME NEW d \in Domains, EnableReconciles(d)
      PROVE  Course'
  BY <1>2 DEF EnableReconciles, Begins
<1>3. ASSUME NEW d \in Domains, EnableBegins(d)
      PROVE  Course'
  BY <1>3 DEF EnableBegins, Begins
<1>4. CASE DisableBegins
  BY <1>4, <1>i DEF DisableBegins, Begins
<1>5. CASE DeleteBegins
  BY <1>5 DEF DeleteBegins, Begins
<1>6. ASSUME NEW d \in Domains, StartBegins(d)
      PROVE  Course'
  BY <1>6 DEF StartBegins, Begins
<1>7. CASE RemoveInspected
  BY <1>7, <1>0 DEF RemoveInspected
<1>8. CASE Install
  <2>1. pc' \in {"uninstall", "save"} => plist'[target'] = version'
    <3>1. [plist EXCEPT ![target] = version][target] = version
      BY <1>t DEF Contents
    <3> QED BY <3>1, <1>8 DEF Install, Installed
  <2> QED BY <1>0, <2>1, <1>8 DEF Install, Installed
<1>9. CASE Uninstall
  BY <1>9, <1>0 DEF Uninstall
<1>10. CASE Save
  BY <1>10, <1>0 DEF Save, launchVars
<1>11. CASE RestoreConfig
  BY <1>11, <1>0 DEF RestoreConfig
<1>12. CASE Reload
  BY <1>12, <1>0 DEF Reload
<1>13. CASE Bootout
  BY <1>13, <1>0 DEF Bootout, RollsBack
<1>14. CASE StartBootstraps
  BY <1>14, <1>0 DEF StartBootstraps
<1>15. CASE DisablePrints
  BY <1>15, <1>0 DEF DisablePrints
<1>16. CASE Check
  BY <1>16, <1>0 DEF Check, RollsBack
<1>17. CASE Remove
  BY <1>17, <1>0 DEF Remove, RollsBack, NextDomain
<1>18. CASE Restore
  BY <1>18, <1>0 DEF Restore, NextRestore
<1>19. CASE Rejob
  BY <1>19, <1>0 DEF Rejob, NextRestore
<1>20. CASE Inspect
  BY <1>20, <1>0 DEF Inspect, InspectsNext
<1>21. CASE Erase
  BY <1>21, <1>0 DEF Erase
<1>22. CASE Crash
  BY <1>22 DEF Crash, Releases
<1>23. CASE Cancel
  BY <1>23, <1>0 DEF Cancel, launchVars
<1>24. CASE Edit
  BY <1>24 DEF Edit
<1>25. ASSUME NEW o \in Domains \cup {"detached"}, VMStarts(o)
      PROVE  Course'
  BY <1>25 DEF VMStarts
<1>26. CASE VMStops
  BY <1>26, <1>0 DEF VMStops
<1>27. CASE Login
  BY <1>27, <1>0 DEF Login
<1>28. CASE Reboot
  BY <1>28 DEF Reboot
<1>29. ASSUME NEW d \in Domains, UserRemoves(d)
      PROVE  Course'
  BY <1>29, <1>0 DEF UserRemoves
<1>30. CASE Finish
  BY <1>30 DEF Finish, Releases
<1>31. CASE UNCHANGED vars
  BY <1>31, <1>0 DEF vars, launchVars
<1> QED BY <1>0, <1>1, <1>2, <1>3, <1>4, <1>5, <1>6, <1>7, <1>8, <1>9, <1>10, <1>11,
       <1>12, <1>13, <1>14, <1>15, <1>16, <1>17, <1>18, <1>19, <1>20, <1>21, <1>22,
       <1>23, <1>24, <1>25, <1>26, <1>27, <1>28, <1>29, <1>30, <1>31
       DEF Next, Begin, EnableStep, StartStep, DisableStep, DeleteStep, Around

-----------------------------------------------------------------------------
(* The VM does not run under an operation, and a deletion is complete. *)

\* The value Nothing, domain by domain.
LEMMA NothingFacts ==
  /\ \A f \in Contents : f["login"] = None /\ f["boot"] = None <=> f = Nothing
  /\ \A d \in Domains : Nothing[d] = None /\ [Nothing EXCEPT ![d] = None] = Nothing
BY DEF Nothing, Contents, Domains

\* The VM exists at first, and no operation is under way.
LEMMA InitGone == Init => Gone
BY DEF Init, Gone, NoVMUnderOperation

\* Every step preserves it: delete sees both domains empty while it holds the lock, and
\* neither a login nor a user adds what was not there.
LEMMA NextGone == TypeOK /\ Course /\ Gone /\ [Next]_vars => Gone'
<1>0. SUFFICES ASSUME TypeOK, Course, Gone, [Next]_vars PROVE Gone'
  OBVIOUS
<1>t. /\ plist \in Contents /\ loaded \in Contents /\ plist' \in Contents
      /\ loaded' \in Contents /\ at \in Domains /\ target \in Domains
  BY <1>0, NextType DEF TypeOK
<1>c. /\ pc \in {"inspect", "erase"} => op = "delete"
      /\ pc \in {"print", "check", "remove", "restoreConfig", "restore", "rejob"}
           => op = "disable"
      /\ pc \in {"orphans", "cleanup", "unsave"} => op = "enable"
      /\ pc \in {"save"} => op \in {"enable", "disable"}
      /\ pc \in {"reload", "bootstrap"} => op = "start"
  BY <1>0 DEF Course
<1> USE DEF Gone, NoVMUnderOperation, Goes, Visits, Ends, diskVars, planVars, undoVars
<1>1. ASSUME NEW d \in Domains, EnableFindsScope(d)
      PROVE  Gone'
  BY <1>1 DEF EnableFindsScope, Begins
<1>2. ASSUME NEW d \in Domains, EnableReconciles(d)
      PROVE  Gone'
  BY <1>2 DEF EnableReconciles, Begins
<1>3. ASSUME NEW d \in Domains, EnableBegins(d)
      PROVE  Gone'
  BY <1>3 DEF EnableBegins, Begins
<1>4. CASE DisableBegins
  BY <1>4 DEF DisableBegins, Begins
<1>5. CASE DeleteBegins
  BY <1>5 DEF DeleteBegins, Begins, launchVars
<1>6. ASSUME NEW d \in Domains, StartBegins(d)
      PROVE  Gone'
  BY <1>6 DEF StartBegins, Begins, launchVars
<1>7. CASE RemoveInspected
  BY <1>7, <1>0 DEF RemoveInspected
<1>8. CASE Install
  BY <1>8, <1>0 DEF Install, Installed
<1>9. CASE Uninstall
  BY <1>9, <1>0 DEF Uninstall
<1>10. CASE Save
  BY <1>10, <1>0 DEF Save, launchVars
<1>11. CASE RestoreConfig
  BY <1>11, <1>0 DEF RestoreConfig, launchVars
<1>12. CASE Reload
  BY <1>12, <1>0 DEF Reload, launchVars
<1>13. CASE Bootout
  BY <1>13, <1>0 DEF Bootout, Unloads, RollsBack
<1>14. CASE StartBootstraps
  BY <1>14, <1>0 DEF StartBootstraps
<1>15. CASE DisablePrints
  BY <1>15, <1>0 DEF DisablePrints, launchVars
<1>16. CASE Check
  BY <1>16, <1>0 DEF Check, RollsBack, launchVars
<1>17. CASE Remove
  BY <1>17, <1>0 DEF Remove, RollsBack, NextDomain
<1>18. CASE Restore
  BY <1>18, <1>0 DEF Restore, NextRestore
<1>19. CASE Rejob
  BY <1>19, <1>0 DEF Rejob, NextRestore
<1>20. CASE Inspect
  <2>1. at = "login" \/ at = "boot"
    BY <1>t DEF Domains
  <2> QED BY <1>0, <1>t, <1>c, <2>1, <1>20, NothingFacts
          DEF Inspect, InspectsNext, launchVars
<1>21. CASE Erase
  BY <1>21, <1>0, <1>c DEF Erase, launchVars
<1>22. CASE Crash
  BY <1>22, <1>0 DEF Crash, Releases
<1>23. CASE Cancel
  BY <1>23, <1>0 DEF Cancel, launchVars
<1>24. CASE Edit
  BY <1>24 DEF Edit
<1>25. ASSUME NEW o \in Domains \cup {"detached"}, VMStarts(o)
      PROVE  Gone'
  BY <1>25 DEF VMStarts
<1>26. CASE VMStops
  BY <1>26, <1>0 DEF VMStops
<1>27. CASE Login
  BY <1>27, <1>0 DEF Login
<1>28. CASE Reboot
  BY <1>28, <1>0, <1>t, NothingFacts DEF Reboot
<1>29. ASSUME NEW d \in Domains, UserRemoves(d)
      PROVE  Gone'
  BY <1>29, <1>0, NothingFacts DEF UserRemoves
<1>30. CASE Finish
  BY <1>30, <1>0 DEF Finish, Releases, launchVars
<1>31. CASE UNCHANGED vars
  BY <1>31, <1>0 DEF vars, launchVars
<1> QED BY <1>0, <1>1, <1>2, <1>3, <1>4, <1>5, <1>6, <1>7, <1>8, <1>9, <1>10, <1>11,
       <1>12, <1>13, <1>14, <1>15, <1>16, <1>17, <1>18, <1>19, <1>20, <1>21, <1>22,
       <1>23, <1>24, <1>25, <1>26, <1>27, <1>28, <1>29, <1>30, <1>31
       DEF Next, Begin, EnableStep, StartStep, DisableStep, DeleteStep, Around

-----------------------------------------------------------------------------
(* What enable and start leave behind. *)

\* Trouble only grows while a transaction runs.
LEMMA TroubleStays ==
  /\ Succeeds \/ Runs \/ FileFails \/ Fails \/ FailsLate => trouble \subseteq trouble'
  /\ \A d \in Domains :
       FileRuns(d) \/ FileStepFails(d) \/ SudoFailsLate(d) => trouble \subseteq trouble'
BY DEF Succeeds, Runs, Counts, FileFails, Fails, FailsLate, FileRuns, FileStepFails,
       SudoFailsLate, faultVars

\* No enable and no start is under way at first.
LEMMA InitInstalling == Init => Installing
BY DEF Init, Installing, EnableTakesEffect, StartLoadsCurrent

\* Every step preserves it: under the lock only the transaction writes files, and one
\* that the user removes is on record.
LEMMA NextInstalling == TypeOK /\ Course /\ Installing /\ [Next]_vars => Installing'
<1>0. SUFFICES ASSUME TypeOK, Course, Installing, [Next]_vars PROVE Installing'
  OBVIOUS
<1>t. /\ plist \in Contents /\ loaded \in Contents /\ seen \in Contents
      /\ plist' \in Contents /\ loaded' \in Contents
      /\ at \in Domains /\ target \in Domains /\ version \in Versions
  BY <1>0, NextType DEF TypeOK
<1>c. Course /\ Course'
  BY <1>0, NextCourse
<1> USE DEF Installing, EnableTakesEffect, StartLoadsCurrent, Course,
            Goes, Visits, Ends, diskVars, planVars, undoVars
<1>1. ASSUME NEW d \in Domains, EnableFindsScope(d)
      PROVE  Installing'
  BY <1>1 DEF EnableFindsScope, Begins
<1>2. ASSUME NEW d \in Domains, EnableReconciles(d)
      PROVE  Installing'
  BY <1>2 DEF EnableReconciles, Begins
<1>3. ASSUME NEW d \in Domains, EnableBegins(d)
      PROVE  Installing'
  BY <1>3 DEF EnableBegins, Begins, launchVars
<1>4. CASE DisableBegins
  BY <1>4 DEF DisableBegins, Begins
<1>5. CASE DeleteBegins
  BY <1>5 DEF DeleteBegins, Begins
<1>6. ASSUME NEW d \in Domains, StartBegins(d)
      PROVE  Installing'
  BY <1>6 DEF StartBegins, Begins, launchVars
<1>7. CASE RemoveInspected
  <2>1. (at = "login" \/ at = "boot") /\ target # "none"
    BY <1>t DEF Domains
  <2>2. \A d \in Domains : plist'[d] \in {None, plist[d]}
    BY <1>t, <1>7, ContentsFacts DEF RemoveInspected
  <2>3. pc = "orphans" /\ pc' # "done" => plist'[at] = None
    <3>1. [plist EXCEPT ![at] = None][at] = None
      BY <1>t DEF Contents
    <3> QED BY <1>0, <1>t, <3>1, <1>7 DEF RemoveInspected
  <2>4. pc = "orphans" /\ pc' = "install" => plist' = Nothing
    BY <1>0, <1>t, <2>1, <2>2, <2>3, <1>7, NothingFacts, DomainFacts DEF RemoveInspected
  <2> QED BY <1>0, <1>t, <2>1, <2>2, <2>3, <2>4, <1>7, DomainFacts DEF RemoveInspected
<1>8. CASE Install
  <2> DEFINE new == [plist EXCEPT ![target] = version]
  <2>1. pc' # "done" \/ result' = "ok" => plist' = new
    BY <1>8 DEF Install, Installed
  <2>2. new[target] = version /\ \A d \in Domains \ {target} : new[d] = plist[d]
    BY <1>t DEF Contents
  <2> HIDE DEF new
  <2> QED BY <1>0, <1>t, <2>1, <2>2, <1>8, TroubleStays, NothingFacts
          DEF Install, Installed
<1>9. CASE Uninstall
  BY <1>9 DEF Uninstall
<1>10. CASE Save
  BY <1>10, <1>0, TroubleStays DEF Save, NewScope, launchVars
<1>11. CASE RestoreConfig
  BY <1>11 DEF RestoreConfig
<1>12. CASE Reload
  BY <1>12, <1>0, TroubleStays DEF Reload, launchVars
<1>13. CASE Bootout
  BY <1>13, <1>0, TroubleStays DEF Bootout, RollsBack
<1>14. CASE StartBootstraps
  <2>1. result' = "ok" => loaded'[target] = plist[target]
    <3>1. [loaded EXCEPT ![target] = plist[target]][target] = plist[target]
      BY <1>t DEF Contents
    <3> QED BY <3>1, <1>14 DEF StartBootstraps, Bootstraps
  <2> QED BY <1>0, <2>1, <1>14, TroubleStays DEF StartBootstraps, BootstrapFails
<1>15. CASE DisablePrints
  BY <1>15, <1>0 DEF DisablePrints
<1>16. CASE Check
  BY <1>16, <1>0 DEF Check, RollsBack
<1>17. CASE Remove
  BY <1>17, <1>0 DEF Remove, RollsBack, NextDomain
<1>18. CASE Restore
  BY <1>18 DEF Restore, NextRestore
<1>19. CASE Rejob
  BY <1>19 DEF Rejob, NextRestore
<1>20. CASE Inspect
  BY <1>20 DEF Inspect, InspectsNext
<1>21. CASE Erase
  BY <1>21, <1>0 DEF Erase
<1>22. CASE Crash
  BY <1>22 DEF Crash, Releases
<1>23. CASE Cancel
  BY <1>23, <1>0 DEF Cancel, launchVars
<1>24. CASE Edit
  BY <1>24 DEF Edit
<1>25. ASSUME NEW o \in Domains \cup {"detached"}, VMStarts(o)
      PROVE  Installing'
  BY <1>25 DEF VMStarts
<1>26. CASE VMStops
  BY <1>26, <1>0 DEF VMStops, faultVars
<1>27. CASE Login
  BY <1>27, <1>0 DEF Login, Meanwhile
<1>28. CASE Reboot
  BY <1>28 DEF Reboot
<1>29. ASSUME NEW d \in Domains, UserRemoves(d)
      PROVE  Installing'
  BY <1>29, <1>0, NothingFacts DEF UserRemoves, Meanwhile
<1>30. CASE Finish
  BY <1>30 DEF Finish, Releases
<1>31. CASE UNCHANGED vars
  BY <1>31, <1>0 DEF vars, launchVars, faultVars
<1> QED BY <1>0, <1>1, <1>2, <1>3, <1>4, <1>5, <1>6, <1>7, <1>8, <1>9, <1>10, <1>11,
       <1>12, <1>13, <1>14, <1>15, <1>16, <1>17, <1>18, <1>19, <1>20, <1>21, <1>22,
       <1>23, <1>24, <1>25, <1>26, <1>27, <1>28, <1>29, <1>30, <1>31
       DEF Next, Begin, EnableStep, StartStep, DisableStep, DeleteStep, Around

-----------------------------------------------------------------------------
(* Files and jobs stay where the configured scope says. *)

\* What a step does to a transaction that is still one it can survive.
LEMMA SurvivableFacts ==
  /\ Succeeds \/ Runs => faults' = faults /\ trouble' = trouble
  /\ Survivable' /\ (FileFails \/ Fails \/ FailsLate)
       => Survivable /\ faults = "none" /\ faults' = "one"
  /\ \A d \in Domains :
       /\ FileRuns(d) => faults' = faults /\ trouble' = trouble
       /\ Survivable' /\ (FileStepFails(d) \/ SudoFailsLate(d))
            => Survivable /\ faults = "none" /\ faults' = "one"
  /\ faults' = faults /\ trouble' = trouble => (Survivable <=> Survivable')
  /\ faults' = faults /\ trouble' = trouble \cup {"touched"} /\ Survivable' => Survivable
  /\ Survivable' => "cancelled" \notin trouble' /\ "login" \notin trouble'
BY DEF Succeeds, Runs, Counts, FileFails, Fails, FailsLate, FileRuns, FileStepFails,
       SudoFailsLate, Survivable, faultVars

\* There are no files and no jobs at first.
LEMMA InitHome == Init => Home
BY NothingFacts, DomainFacts DEF Init, Home

\* Every step preserves it.
LEMMA NextHome == TypeOK /\ Course /\ Home /\ [Next]_vars => Home'
<1>0. SUFFICES ASSUME TypeOK, Course, Home, [Next]_vars PROVE Home'
  OBVIOUS
<1>t. /\ plist \in Contents /\ loaded \in Contents /\ seen \in Contents
      /\ plist' \in Contents /\ loaded' \in Contents
      /\ at \in Domains /\ target \in Domains /\ version \in Versions
      /\ oldScope \in Domains \cup {"none"} /\ scope \in Domains \cup {"none"}
  BY <1>0, NextType DEF TypeOK
<1>i. pc = "idle" => /\ jobs = {} /\ bootedOut = {} /\ removed = {}
                     /\ faults = "none" /\ trouble = {}
  BY <1>0 DEF TypeOK
<1>c. Course /\ Course'
  BY <1>0, NextCourse
<1> USE DEF Home, Course, Goes, Visits, Ends, diskVars, planVars, undoVars
<1>1. ASSUME NEW d \in Domains, EnableFindsScope(d)
      PROVE  Home'
  BY <1>1, <1>0, <1>i, SurvivableFacts DEF EnableFindsScope, Begins, launchVars, faultVars
<1>2. ASSUME NEW d \in Domains, EnableReconciles(d)
      PROVE  Home'
  BY <1>2, <1>0, <1>i, SurvivableFacts DEF EnableReconciles, Begins, launchVars, faultVars
<1>3. ASSUME NEW d \in Domains, EnableBegins(d)
      PROVE  Home'
  BY <1>3, <1>0, <1>i, SurvivableFacts DEF EnableBegins, Begins, launchVars, faultVars
<1>4. CASE DisableBegins
  BY <1>4, <1>0, <1>i, SurvivableFacts DEF DisableBegins, Begins, launchVars, faultVars
<1>5. CASE DeleteBegins
  BY <1>5, <1>0, <1>i, SurvivableFacts DEF DeleteBegins, Begins, launchVars, faultVars
<1>6. ASSUME NEW d \in Domains, StartBegins(d)
      PROVE  Home'
  BY <1>6, <1>0, <1>i, SurvivableFacts DEF StartBegins, Begins, launchVars, faultVars
<1>7. CASE RemoveInspected
  BY <1>7, <1>0, <1>t, ContentsFacts, SurvivableFacts DEF RemoveInspected
<1>8. CASE Install
  BY <1>8, <1>0, <1>t, NothingFacts, ContentsFacts, SurvivableFacts DEF Install, Installed
<1>9. CASE Uninstall
  <2>1. \A d \in Domains : plist'[d] \in {None, plist[d]}
    BY <1>t, <1>9, ContentsFacts DEF Uninstall
  <2>2. scars = {} /\ Survivable' => plist'[target] = None
    <3>1. [plist EXCEPT ![target] = None][target] = None
      BY <1>t DEF Contents
    <3> QED BY <1>0, <1>t, <3>1, <1>9, SurvivableFacts DEF Uninstall
  <2> QED BY <1>0, <1>t, <2>1, <2>2, <1>9, DomainFacts, NothingFacts, SurvivableFacts
          DEF Uninstall, launchVars
<1>10. CASE Save
  BY <1>10, <1>0, NothingFacts, DomainFacts, SurvivableFacts
  DEF Save, NewScope, launchVars
<1>11. CASE RestoreConfig
  BY <1>11, <1>0, SurvivableFacts DEF RestoreConfig, launchVars
<1>12. CASE Reload
  BY <1>12, <1>0, SurvivableFacts DEF Reload, launchVars
<1>13. CASE Bootout
  BY <1>13, <1>0, <1>t, <1>c, ContentsFacts, DomainFacts, SurvivableFacts
  DEF Bootout, Unloads, RollsBack
<1>14. CASE StartBootstraps
  BY <1>14, <1>0, <1>t, ContentsFacts, SurvivableFacts
  DEF StartBootstraps, Bootstraps, BootstrapFails
<1>15. CASE DisablePrints
  BY <1>15, <1>0, SurvivableFacts DEF DisablePrints, launchVars
<1>16. CASE Check
  BY <1>16, <1>0, <1>t, SurvivableFacts DEF Check, RollsBack, launchVars
<1>17. CASE Remove
  <2>1. \A d \in Domains : plist'[d] \in {None, plist[d]}
    BY <1>t, <1>17, ContentsFacts DEF Remove
  <2>2. scars = {} /\ Survivable /\ pc' # "restore" => plist'[at] = None
    <3>1. [plist EXCEPT ![at] = None][at] = None
      BY <1>t DEF Contents
    <3> QED BY <1>0, <1>t, <3>1, <1>17 DEF Remove, RollsBack
  <2>3. scars = {} /\ Survivable /\ pc' \in {"save", "done"}
          => plist' = Nothing /\ loaded = Nothing
    BY <1>0, <1>t, <2>1, <2>2, <1>17, DomainFacts, NothingFacts
       DEF Remove, RollsBack, NextDomain
  <2> QED BY <1>0, <1>t, <2>1, <2>2, <2>3, <1>17, DomainFacts, NothingFacts,
             SurvivableFacts
          DEF Remove, RollsBack, NextDomain
<1>18. CASE Restore
  BY <1>18, <1>0, <1>t, <1>c, ContentsFacts, SurvivableFacts
  DEF Restore, NeedsFile, NextRestore
<1>19. CASE Rejob
  BY <1>19, <1>0, <1>t, ContentsFacts, SurvivableFacts
  DEF Rejob, NextRestore, Bootstraps, BootstrapFails
<1>20. CASE Inspect
  BY <1>20, <1>0, SurvivableFacts DEF Inspect, InspectsNext, launchVars
<1>21. CASE Erase
  BY <1>21, <1>0, SurvivableFacts DEF Erase, launchVars
<1>22. CASE Crash
  BY <1>22 DEF Crash
<1>23. CASE Cancel
  BY <1>23, SurvivableFacts DEF Cancel
<1>24. CASE Edit
  BY <1>24, <1>0, SurvivableFacts DEF Edit, launchVars, faultVars
<1>25. ASSUME NEW o \in Domains \cup {"detached"}, VMStarts(o)
      PROVE  Home'
  BY <1>25, <1>0, SurvivableFacts DEF VMStarts, faultVars
<1>26. CASE VMStops
  BY <1>26, <1>0, SurvivableFacts DEF VMStops, faultVars
<1>27. CASE Login
  BY <1>27, <1>0, SurvivableFacts DEF Login, Meanwhile
<1>28. CASE Reboot
  BY <1>28, <1>0, NothingFacts, SurvivableFacts DEF Reboot, faultVars
<1>29. ASSUME NEW d \in Domains, UserRemoves(d)
      PROVE  Home'
  BY <1>29, <1>0, NothingFacts, SurvivableFacts DEF UserRemoves, Meanwhile
<1>30. CASE Finish
  BY <1>30, <1>0 DEF Finish, Releases, launchVars
<1>31. CASE UNCHANGED vars
  BY <1>31, <1>0, SurvivableFacts DEF vars, launchVars, faultVars
<1> QED BY <1>0, <1>1, <1>2, <1>3, <1>4, <1>5, <1>6, <1>7, <1>8, <1>9, <1>10, <1>11,
       <1>12, <1>13, <1>14, <1>15, <1>16, <1>17, <1>18, <1>19, <1>20, <1>21, <1>22,
       <1>23, <1>24, <1>25, <1>26, <1>27, <1>28, <1>29, <1>30, <1>31
       DEF Next, Begin, EnableStep, StartStep, DisableStep, DeleteStep, Around

-----------------------------------------------------------------------------
(* A disable that fails at one step puts back what it found. *)

\* What a step does to a transaction that has met at most one plain failure.
LEMMA CleanFacts ==
  /\ Succeeds \/ Runs => faults' = faults /\ trouble' = trouble
  /\ Clean' /\ (FileFails \/ Fails) => Clean /\ faults = "none" /\ faults' = "one"
  /\ Clean' => ~FailsLate /\ "cancelled" \notin trouble' /\ "login" \notin trouble'
                /\ "touched" \notin trouble'
  /\ \A d \in Domains :
       /\ FileRuns(d) => faults' = faults /\ trouble' = trouble
       /\ Clean' /\ FileStepFails(d) => Clean /\ faults = "none" /\ faults' = "one"
       /\ Clean' => ~SudoFailsLate(d)
  /\ faults' = faults /\ trouble' = trouble => (Clean <=> Clean')
BY DEF Succeeds, Runs, Counts, FileFails, Fails, FailsLate, FileRuns, FileStepFails,
       SudoFailsLate, Clean, faultVars

\* No disable is under way at first.
LEMMA InitUndoing == Init => Undoing
BY DEF Init, Undoing

\* Every step preserves it.
LEMMA NextUndoing == TypeOK /\ Course /\ Undoing /\ [Next]_vars => Undoing'
<1>0. SUFFICES ASSUME TypeOK, Course, Undoing, [Next]_vars PROVE Undoing'
  OBVIOUS
<1>t. /\ plist \in Contents /\ loaded \in Contents /\ seen \in Contents
      /\ plist' \in Contents /\ loaded' \in Contents
      /\ at \in Domains /\ version \in Versions /\ None \notin Versions
  BY <1>0, NextType, AutostartAssumption DEF TypeOK
<1>c. Course /\ Course'
  BY <1>0, NextCourse
<1>i. pc = "idle" => /\ jobs = {} /\ bootedOut = {} /\ removed = {}
                     /\ faults = "none" /\ trouble = {}
  BY <1>0 DEF TypeOK
<1> USE DEF Undoing, Undone, Redone, Course,
            Goes, Visits, Ends, diskVars, planVars, undoVars
<1>1. ASSUME NEW d \in Domains, EnableFindsScope(d)
      PROVE  Undoing'
  BY <1>1 DEF EnableFindsScope, Begins
<1>2. ASSUME NEW d \in Domains, EnableReconciles(d)
      PROVE  Undoing'
  BY <1>2 DEF EnableReconciles, Begins
<1>3. ASSUME NEW d \in Domains, EnableBegins(d)
      PROVE  Undoing'
  BY <1>3 DEF EnableBegins, Begins
<1>4. CASE DisableBegins
  BY <1>4, <1>i DEF DisableBegins, Begins, launchVars, faultVars
<1>5. CASE DeleteBegins
  BY <1>5 DEF DeleteBegins, Begins
<1>6. ASSUME NEW d \in Domains, StartBegins(d)
      PROVE  Undoing'
  BY <1>6 DEF StartBegins, Begins
<1>7. CASE RemoveInspected
  BY <1>7, <1>0 DEF RemoveInspected
<1>8. CASE Install
  BY <1>8, <1>0 DEF Install, Installed
<1>9. CASE Uninstall
  BY <1>9, <1>0 DEF Uninstall
<1>10. CASE Save
  BY <1>10, <1>0, CleanFacts DEF Save, launchVars
<1>11. CASE RestoreConfig
  BY <1>11, <1>0, DomainFacts, CleanFacts DEF RestoreConfig, launchVars
<1>12. CASE Reload
  BY <1>12, <1>0 DEF Reload
<1>13. CASE Bootout
  <2>1. op = "disable" /\ Clean' => \/ UNCHANGED <<loaded, bootedOut>>
                                   \/ /\ loaded' = [loaded EXCEPT ![at] = None]
                                      /\ bootedOut' = bootedOut \cup {at}
    BY <1>13, CleanFacts DEF Bootout, Unloads
  <2>2. \A d \in Domains : [loaded EXCEPT ![at] = None][d] = IF d = at THEN None ELSE loaded[d]
    BY <1>t DEF Contents
  <2> QED BY <1>13, <1>0, <1>t, <2>1, <2>2, CleanFacts, DomainFacts DEF Bootout, RollsBack
<1>14. CASE StartBootstraps
  BY <1>14, <1>0 DEF StartBootstraps
<1>15. CASE DisablePrints
  BY <1>15, <1>0, CleanFacts DEF DisablePrints, launchVars
<1>16. CASE Check
  BY <1>16, <1>0, <1>t, DomainFacts, CleanFacts
  DEF Check, FileChanged, RollsBack, launchVars
<1>17. CASE Remove
  BY <1>17, <1>0, <1>t, <1>c, ContentsFacts, DomainFacts, CleanFacts
  DEF Remove, FileChanged, SudoFailsLate, RollsBack, NextDomain
<1>18. CASE Restore
  BY <1>18, <1>0, <1>t, <1>c, ContentsFacts, DomainFacts, CleanFacts
  DEF Restore, NeedsFile, Backup, NextRestore
<1>19. CASE Rejob
  BY <1>19, <1>0, <1>t, <1>c, ContentsFacts, DomainFacts, CleanFacts
  DEF Rejob, Backup, NextRestore, Bootstraps, BootstrapFails
<1>20. CASE Inspect
  BY <1>20, <1>0 DEF Inspect
<1>21. CASE Erase
  BY <1>21, <1>0 DEF Erase
<1>22. CASE Crash
  BY <1>22 DEF Crash, Releases
<1>23. CASE Cancel
  BY <1>23, CleanFacts DEF Cancel
<1>24. CASE Edit
  BY <1>24 DEF Edit
<1>25. ASSUME NEW o \in Domains \cup {"detached"}, VMStarts(o)
      PROVE  Undoing'
  BY <1>25 DEF VMStarts
<1>26. CASE VMStops
  <2> HIDE DEF Course
  <2> QED BY <1>26, <1>0, CleanFacts DEF VMStops, faultVars, Backup
<1>27. CASE Login
  BY <1>27, CleanFacts DEF Login, Meanwhile
<1>28. CASE Reboot
  BY <1>28 DEF Reboot
<1>29. ASSUME NEW d \in Domains, UserRemoves(d)
      PROVE  Undoing'
  BY <1>29, CleanFacts DEF UserRemoves, Meanwhile
<1>30. CASE Finish
  BY <1>30 DEF Finish, Releases
<1>31. CASE UNCHANGED vars
  <2> HIDE DEF Course
  <2> QED BY <1>31, <1>0, CleanFacts DEF vars, launchVars, faultVars, Backup
<1> QED BY <1>0, <1>1, <1>2, <1>3, <1>4, <1>5, <1>6, <1>7, <1>8, <1>9, <1>10, <1>11,
       <1>12, <1>13, <1>14, <1>15, <1>16, <1>17, <1>18, <1>19, <1>20, <1>21, <1>22,
       <1>23, <1>24, <1>25, <1>26, <1>27, <1>28, <1>29, <1>30, <1>31
       DEF Next, Begin, EnableStep, StartStep, DisableStep, DeleteStep, Around

-----------------------------------------------------------------------------
(* The theorems. *)

\* The parts are inductive together.
LEMMA InvAlways == Spec => []Inv
<1>1. Init => Inv
  BY InitType, InitCourse, InitGone, InitInstalling, InitHome, InitUndoing DEF Inv
<1>2. Inv /\ [Next]_vars => Inv'
  BY NextType, NextCourse, NextGone, NextInstalling, NextHome, NextUndoing DEF Inv
<1> QED BY <1>1, <1>2, PTL DEF Spec

\* The VM does not run while disable or start moves jobs or delete erases.
THEOREM OperationsSeeNoVM == Spec => []NoVMUnderOperation
<1>1. Inv => NoVMUnderOperation
  BY DEF Inv, Gone
<1> QED BY <1>1, InvAlways, PTL

\* A deleted VM has no file, no job and no supervisor, whatever was killed, cancelled or
\* loaded before.
THEOREM DeletionComplete == Spec => []DeletedLeavesNothing
<1>1. Inv => DeletedLeavesNothing
  BY DEF Inv, Gone, DeletedLeavesNothing
<1> QED BY <1>1, InvAlways, PTL

\* Between transactions that survived their failures, files and jobs are in the domain of
\* the configured scope.
THEOREM ScopeGoverns == Spec => []JobsFollowScope
<1>1. Inv => JobsFollowScope
  <2>1. TypeOK /\ pc = "idle" => Survivable
    BY DEF TypeOK, Survivable
  <2> QED BY <2>1 DEF Inv, Home, JobsFollowScope
<1> QED BY <1>1, InvAlways, PTL

\* A disable with one failing step restores files, jobs and scope.
THEOREM DisableRollsBack == Spec => []FailedDisableRestores
<1>1. Inv => FailedDisableRestores
  BY DEF Inv, Undoing, Clean, Redone, FailedDisableRestores
<1> QED BY <1>1, InvAlways, PTL

\* An enable that reports success has taken effect.
THEOREM EnableCommits == Spec => []EnableTakesEffect
<1>1. Inv => EnableTakesEffect
  BY DEF Inv, Installing
<1> QED BY <1>1, InvAlways, PTL

\* A start that reports success runs the job the config describes.
THEOREM StartIsCurrent == Spec => []StartLoadsCurrent
<1>1. Inv => StartLoadsCurrent
  BY DEF Inv, Installing
<1> QED BY <1>1, InvAlways, PTL
=============================================================================

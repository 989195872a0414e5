------------------------------ MODULE StoreFiles ------------------------------
(***************************************************************************)
(* The files of one VM name: the transactions of internal/store/store.go   *)
(* (create, edit, delete) that run under the name lock, the artifacts that *)
(* `create` makes inside them (internal/cli/create.go, cloud_init.go,      *)
(* image_source.go), the readers that take no lock, and what a kill or a   *)
(* power cut between any two steps leaves behind.                          *)
(*                                                                         *)
(* A configuration is its ID and a revision; what it says is VMConfig.     *)
(* Who waits for the name lock is not told apart: it has one holder, whose *)
(* transaction is `job`.  Every removal may fail.                          *)
(***************************************************************************)
EXTENDS Naturals, Sequences, FiniteSets, SequencesExt

CONSTANTS Ids,         \* the VM IDs that GenerateID hands out, each to one create
          MaxRev,      \* bound: how often the configuration of a VM is edited
          Requests,    \* what the creates are asked for: a seed, an image, a larger disk
          Readers,     \* commands that load the configuration without the lock
          Torn,        \* a file whose content never reached the disk
          None

VARIABLES
  dirs,       \* the VM and the log directory, those that exist
  runtime,    \* the IDs that have a runtime directory
  files,      \* finished files in the VM directory, but for config.json
  partial,    \* unfinished ones
  config,     \* what config.json says, or None
  afterCut,   \* what config.json may say once the power has failed
  temp,       \* the temporary file of a write of config.json
  job,        \* the transaction that holds the name lock, or None
  pc,         \* its next step
  todo,       \* the artifact steps it has left
  made,       \* the directories a create has made, in order
  body,       \* the HTTP body that a create downloads
  loaded,     \* the configuration each reader has loaded
  used,       \* history: the IDs handed out
  before,     \* history: the directories there were when the create began
  stuck,      \* history: what a rollback could not remove
  refused,    \* history: the directory that a create made and did not accept
  promised,   \* history: the last configuration whose command succeeded
  attempts,   \* history: the ones a command has tried to save since
  gutted      \* history: the VMs whose directory was being removed

tree == <<dirs, runtime>>
artifacts == <<files, partial>>
written == <<config, afterCut, temp>>
disk == <<tree, artifacts, written>>
origin == <<before, stuck, refused>>
process == <<job, pc, todo, made, body, origin>>
history == <<used, promised, attempts, gutted>>
vars == <<disk, process, loaded, history>>

Temporary == "config-tmp"  \* what a killed write of config.json leaves

\* The artifacts that a configuration refers to; the others are taken away again.  The
\* copies of the firmware, its variables and an installer are one, "firmware".
Permanent == {"firmware", "seed", "disk"}
Files == Permanent \cup {"staging", "source"}

\* The runtime directory is named after the ID, the others after the VM.
Directories == {"vm", "logs", "runtime"}

Configs == [id : Ids, rev : 0..MaxRev, needs : SUBSET Permanent]
Jobs    == [kind : {"create", "edit", "delete"}, config : Configs \cup {None}]

ASSUME StoreAssumption ==
  /\ MaxRev \in Nat
  /\ None \notin Configs \cup Jobs \cup Files /\ Torn \notin Configs \cup {None}

Init ==
  /\ dirs = {} /\ runtime = {} /\ files = {} /\ partial = {}
  /\ config = None /\ afterCut = {None} /\ temp = None
  /\ job = None /\ pc = "idle" /\ todo = <<>> /\ made = <<>> /\ body = None
  /\ loaded = [r \in Readers |-> None]
  /\ used = {} /\ before = {} /\ stuck = {} /\ refused = {}
  /\ promised = None /\ attempts = {} /\ gutted = {}

-----------------------------------------------------------------------------
(* The start and the end of a transaction. *)

\* flock of the name's lock file, which makes the others wait.
LockFree == job = None

\* A staging directory, the ISO that is made of it, and the end of the directory.
SeedSteps == <<"staging", "seed", "unstage">>

\* A new disk, or one made of an image, which is downloaded first; a small one grows.
DiskSteps(request) ==
  (IF request.image = "remote" THEN <<"source", "disk", "unsource">> ELSE <<"disk">>)
    \o (IF request.image # "none" /\ request.grows THEN <<"resize">> ELSE <<>>)

Recipe(request) ==
  <<"firmware">> \o (IF request.seed THEN SeedSteps ELSE <<>>) \o DiskSteps(request)

BeginCreate(id, request) ==
  /\ LockFree /\ id \notin used
  /\ job' = [kind |-> "create",
             config |-> [id |-> id, rev |-> 0, needs |-> Permanent \cap Range(Recipe(request))]]
  /\ pc' = "exists" /\ todo' = Recipe(request) /\ made' = <<>> /\ body' = None
  /\ used' = used \cup {id} /\ before' = dirs /\ stuck' = {} /\ refused' = {}
  /\ UNCHANGED <<disk, loaded, promised, attempts, gutted>>

\* set, config apply and Save; the file of config apply may name any VM.
BeginEdit(id) ==
  /\ LockFree
  /\ job' = [kind |-> "edit", config |-> [id |-> id, rev |-> 0, needs |-> {}]]
  /\ pc' = "load"
  /\ UNCHANGED <<disk, todo, made, body, loaded, origin, history>>

BeginDelete ==
  /\ LockFree
  /\ job' = [kind |-> "delete", config |-> None]
  /\ pc' = "load"
  /\ UNCHANGED <<disk, todo, made, body, loaded, origin, history>>

\* The deferred Close of the name lock.
Release ==
  /\ job' = None /\ pc' = "idle" /\ todo' = <<>> /\ made' = <<>> /\ body' = None
  /\ before' = {} /\ stuck' = {} /\ refused' = {}

End ==
  /\ pc \in {"failed", "done"}
  /\ Release
  /\ UNCHANGED <<disk, loaded, history>>

\* A create takes back the directories it made, the last one first; the others stop
\* where they are.
Failing ==
  IF job.kind = "create"
  THEN /\ pc' = "erase" /\ todo' = Reverse(made)
       /\ gutted' = gutted \cup {job.config.id}
  ELSE pc' = "failed" /\ UNCHANGED <<todo, gutted>>

-----------------------------------------------------------------------------
(* create: the directories. *)

CheckExists ==
  /\ pc = "exists"
  /\ pc' = IF "vm" \in dirs THEN "failed" ELSE "vm"
  /\ UNCHANGED <<disk, job, todo, made, body, loaded, origin, history>>

NextOf == [vm |-> "logs", logs |-> "runtime", runtime |-> "artifacts"]

Exists(dir) == IF dir = "runtime" THEN job.config.id \in runtime ELSE dir \in dirs

\* Mutant: every candidate is noted before Mkdir is tried.
NotedBefore(dir, done) == Append(made, dir)

\* The list that the rollback goes through names a directory once Mkdir has made it.
Noted(dir, done) == IF done THEN Append(made, dir) ELSE made

Made(dir) ==
  IF dir = "runtime" THEN runtime' = runtime \cup {job.config.id} /\ UNCHANGED dirs
  ELSE dirs' = dirs \cup {dir} /\ UNCHANGED runtime

\* createOwnedDirectory makes the directory and inspects it.  An existing one makes Mkdir
\* fail, and so may anything else; one that Mkdir has made and that is then not found, not
\* its user's or of another mode (the umask) is there, and not noted.
MakeDirectory(dir) ==
  /\ pc = dir
  /\ \/ /\ ~Exists(dir) /\ Made(dir)
        /\ made' = Noted(dir, TRUE) /\ pc' = NextOf[dir]
        /\ UNCHANGED <<todo, refused, gutted>>
     \/ /\ \/ UNCHANGED <<tree, refused>>
           \/ ~Exists(dir) /\ Made(dir) /\ refused' = {dir}
        /\ made' = Noted(dir, FALSE) /\ pc' = "erase" /\ todo' = Reverse(made')
        /\ gutted' = gutted \cup {job.config.id}
  /\ UNCHANGED <<artifacts, written, job, body, loaded, used, before, stuck, promised, attempts>>

-----------------------------------------------------------------------------
(* create: the artifacts.  A step that makes a file begins it and then finishes it; a *)
(* copy and a download remove their own unfinished file when they fail, the commands  *)
(* that qemu-manage runs leave theirs to the rollback.                                *)

Step == Head(todo)
AtStep == pc = "artifacts" /\ todo # <<>>

Target(step) == IF step = "resize" THEN "disk" ELSE step
Removes(step) ==
  IF step = "unstage" THEN "staging" ELSE IF step = "unsource" THEN "source" ELSE None

CleansUp(step) == step \in {"firmware", "source", "staging"}

Begin ==
  /\ AtStep /\ Removes(Step) = None /\ Target(Step) \notin partial
  /\ partial' = partial \cup {Target(Step)}
  /\ files' = files \ {Target(Step)}
  /\ body' = IF Step = "source" THEN "open" ELSE None
  /\ UNCHANGED <<tree, written, job, pc, todo, made, loaded, origin, history>>

\* A download ends with its body; the others when the copy or the command does.
Finish ==
  /\ AtStep /\ Target(Step) \in partial /\ body # "closed"
  /\ partial' = partial \ {Target(Step)} /\ files' = files \cup {Target(Step)}
  /\ todo' = Tail(todo) /\ body' = None
  /\ UNCHANGED <<tree, written, job, pc, made, loaded, origin, history>>

\* Mutant: the watcher notes its failure and leaves the body open.
WatchOnlyNotes ==
  /\ body = "open"
  /\ UNCHANGED vars

\* The watcher of the download: no byte for the idle timeout, or the context is done.
\* It closes the body, so the read that waits for it fails.
WatchFires ==
  /\ body = "open"
  /\ body' = "closed"
  /\ UNCHANGED <<disk, job, pc, todo, made, loaded, origin, history>>

\* Mutant: an error of that removal is ignored.
RemoveArtifactOrNot ==
  /\ AtStep /\ Removes(Step) # None
  /\ files' \in {files, files \ {Removes(Step)}} /\ todo' = Tail(todo)
  /\ UNCHANGED <<tree, partial, written, job, pc, made, body, loaded, origin, history>>

\* The removal of the staging directory and of the downloaded image is an artifact step
\* of its own: its error is the error of create.
RemoveArtifact ==
  /\ AtStep /\ Removes(Step) # None
  /\ files' = files \ {Removes(Step)} /\ todo' = Tail(todo)
  /\ UNCHANGED <<tree, partial, written, job, pc, made, body, loaded, origin, history>>

\* What is there for the time of one step only is removed on this path too, as far as it
\* can be.
StepFails ==
  /\ AtStep /\ Failing /\ body' = None
  /\ partial' = IF CleansUp(Step) THEN partial \ {Step} ELSE partial
  /\ files' \in {files, files \ {"staging", "source"}}
  /\ UNCHANGED <<tree, written, job, made, loaded, used, origin, promised, attempts>>

ArtifactsDone ==
  /\ pc = "artifacts" /\ todo = <<>>
  /\ pc' = "temp" /\ attempts' = attempts \cup {job.config}
  /\ UNCHANGED <<disk, job, todo, made, body, loaded, used, origin, promised, gutted>>

-----------------------------------------------------------------------------
(* edit and delete: what is loaded under the lock, and what it refuses. *)

\* One whole JSON object that Validate accepts.
Decodes(content) == content \notin {None, Torn}

Loadable == "vm" \in dirs /\ Decodes(config)

\* A replacement may not change the ID; the revision stands for all it may change.
LoadForEdit ==
  /\ pc = "load" /\ job.kind = "edit"
  /\ IF Loadable /\ job.config.id = config.id /\ config.rev < MaxRev
     THEN LET new == [config EXCEPT !.rev = @ + 1] IN
          /\ job' = [job EXCEPT !.config = new]
          /\ pc' = "temp" /\ attempts' = attempts \cup {new}
     ELSE pc' = "failed" /\ UNCHANGED <<job, attempts>>
  /\ UNCHANGED <<disk, todo, made, body, loaded, used, origin, promised, gutted>>

\* A VM that runs, or starts by itself, is not deleted (see VMLifecycle and Autostart).
LoadForDelete ==
  /\ pc = "load" /\ job.kind = "delete"
  /\ \/ /\ Loadable
        /\ job' = [job EXCEPT !.config = config] /\ pc' = "erase"
        /\ todo' = <<"vm", "logs", "runtime">>
        /\ promised' = None /\ attempts' = {} /\ gutted' = gutted \cup {config.id}
     \/ pc' = "failed" /\ UNCHANGED <<job, todo, promised, attempts, gutted>>
  /\ UNCHANGED <<disk, made, body, loaded, used, origin>>

-----------------------------------------------------------------------------
(* writeConfigAtomic. *)

WriteTemporary ==
  /\ pc = "temp"
  /\ temp' = "written" /\ pc' = "sync"
  /\ UNCHANGED <<tree, artifacts, config, afterCut, job, todo, made, body, loaded,
                 origin, history>>

SyncTemporary ==
  /\ pc = "sync"
  /\ temp' = "synced" /\ pc' = "rename"
  /\ UNCHANGED <<tree, artifacts, config, afterCut, job, todo, made, body, loaded,
                 origin, history>>

\* Until the directory is synced, a power cut may bring the old file back.
Rename ==
  /\ pc = "rename"
  /\ config' = job.config /\ temp' = None /\ pc' = "dirsync"
  /\ afterCut' = afterCut \cup {IF temp = "synced" THEN job.config ELSE Torn}
  /\ UNCHANGED <<tree, artifacts, job, todo, made, body, loaded, origin, history>>

\* Mutant: the command succeeds although the directory was not synced.
NoSyncDirectory ==
  /\ pc = "dirsync"
  /\ promised' = job.config /\ attempts' = {}
  /\ Release
  /\ UNCHANGED <<disk, loaded, used, gutted>>

\* The end of a create or an edit that succeeds.
SyncDirectory ==
  /\ pc = "dirsync"
  /\ afterCut' = {config}
  /\ promised' = job.config /\ attempts' = {}
  /\ Release
  /\ UNCHANGED <<tree, artifacts, config, temp, loaded, used, gutted>>

\* Any of these calls can fail, and the deferred os.Remove of the temporary file too,
\* silently.  After the rename the command reports an error although the new
\* configuration is in place; a create then takes the whole VM back.
WriteFails ==
  /\ pc \in {"temp", "sync", "rename", "dirsync"}
  /\ Failing /\ temp' = None
  /\ partial' \in {partial} \cup IF temp = None THEN {} ELSE {partial \cup {Temporary}}
  /\ UNCHANGED <<tree, files, config, afterCut, job, made, body, loaded, used, origin,
                 promised, attempts>>

-----------------------------------------------------------------------------
(* RemoveAll of the directories in `todo`: the three of a delete, or those that a        *)
(* create takes back.  The entries of the VM directory go one by one.                    *)

Erasing(dir) == pc = "erase" /\ todo # <<>> /\ Head(todo) = dir

EraseEntry ==
  /\ Erasing("vm")
  /\ \/ \E file \in files \cup partial :
          /\ files' = files \ {file} /\ partial' = partial \ {file}
          /\ UNCHANGED <<config, afterCut>>
     \/ /\ config # None /\ config' = None /\ afterCut' = {None}
        /\ UNCHANGED <<artifacts>>
  /\ UNCHANGED <<tree, temp, process, loaded, history>>

EraseDirectory(dir) ==
  /\ Erasing(dir)
  /\ dir = "vm" => files \cup partial = {} /\ config = None
  /\ dirs' = dirs \ {dir}
  /\ runtime' = IF dir = "runtime" THEN runtime \ {job.config.id} ELSE runtime
  /\ todo' = Tail(todo)
  /\ UNCHANGED <<artifacts, written, job, pc, made, body, loaded, origin, history>>

\* A rollback goes on with the next directory, a delete reports the error.
EraseFails(dir) ==
  /\ Erasing(dir)
  /\ IF job.kind = "create"
     THEN todo' = Tail(todo) /\ stuck' = stuck \cup {dir} /\ UNCHANGED pc
     ELSE pc' = "failed" /\ UNCHANGED <<todo, stuck>>
  /\ UNCHANGED <<disk, job, made, body, loaded, used, before, refused, promised, attempts,
                 gutted>>

Erased ==
  /\ pc = "erase" /\ todo = <<>>
  /\ pc' = IF job.kind = "create" THEN "failed" ELSE "done"
  /\ UNCHANGED <<disk, job, todo, made, body, loaded, origin, history>>

-----------------------------------------------------------------------------
(* The readers: Load, and the lock probe of status, which makes the runtime directory of *)
(* the ID it has loaded when it is not there (any more).                                 *)

Load(r) ==
  /\ loaded[r] = None /\ Loadable
  /\ loaded' = [loaded EXCEPT ![r] = config]
  /\ UNCHANGED <<disk, process, history>>

Probe(r) ==
  /\ loaded[r] # None
  /\ runtime' = runtime \cup {loaded[r].id}
  /\ loaded' = [loaded EXCEPT ![r] = None]
  /\ UNCHANGED <<dirs, artifacts, written, process, history>>

-----------------------------------------------------------------------------
(* A transaction killed between two steps, which frees its lock, and a power cut.  The  *)
(* artifacts and the directory entries are taken as durable; the content of config.json *)
(* is what this module follows.                                                         *)

Killed ==
  /\ Release /\ temp' = None
  /\ partial' = IF temp = None THEN partial ELSE partial \cup {Temporary}

Kill ==
  /\ job # None /\ Killed
  /\ UNCHANGED <<tree, files, config, afterCut, loaded, history>>

PowerCut ==
  /\ Killed
  /\ config' \in afterCut /\ afterCut' = {config'}
  /\ loaded' = [r \in Readers |-> None]
  /\ UNCHANGED <<tree, files, history>>

-----------------------------------------------------------------------------

\* A step of the transaction that holds the lock.  The end of a download is not one: the
\* server decides when, or whether, it comes.
Transaction ==
  \/ CheckExists
  \/ \E dir \in Directories : MakeDirectory(dir) \/ EraseDirectory(dir) \/ EraseFails(dir)
  \/ Begin \/ RemoveArtifact \/ ArtifactsDone
  \/ (body # "open" /\ (Finish \/ StepFails))
  \/ LoadForEdit \/ LoadForDelete
  \/ WriteTemporary \/ SyncTemporary \/ Rename \/ SyncDirectory \/ WriteFails
  \/ EraseEntry \/ Erased \/ End

Download == body = "open" /\ (Finish \/ StepFails)

Next ==
  \/ \E id \in Ids : BeginEdit(id) \/ \E request \in Requests : BeginCreate(id, request)
  \/ BeginDelete
  \/ Transaction \/ Download \/ WatchFires
  \/ \E r \in Readers : Load(r) \/ Probe(r)
  \/ Kill \/ PowerCut

Spec == Init /\ [][Next]_vars

\* The process runs until it is killed, what it calls returns, and the timer fires.
FairSpec == Spec /\ WF_vars(Transaction) /\ WF_vars(WatchFires)

-----------------------------------------------------------------------------
(* Properties. *)

Steps == {"idle", "exists", "vm", "logs", "runtime", "artifacts", "load", "temp", "sync",
          "rename", "dirsync", "erase", "failed", "done"}

\* Every variable has its type, and a process without a transaction is idle.
TypeOK ==
  /\ dirs \subseteq {"vm", "logs"} /\ runtime \subseteq Ids
  /\ files \subseteq Files /\ partial \subseteq Files \cup {Temporary}
  /\ config \in Configs \cup {None, Torn} /\ afterCut \subseteq Configs \cup {None, Torn}
  /\ temp \in {None, "written", "synced"}
  /\ job \in Jobs \cup {None}
  /\ pc \in Steps /\ (pc = "idle" <=> job = None)
  /\ body \in {None, "open", "closed"}
  /\ loaded \in [Readers -> Configs \cup {None}]
  /\ used \subseteq Ids /\ before \subseteq {"vm", "logs"}
  /\ stuck \subseteq Directories /\ refused \subseteq Directories
  /\ promised \in Configs \cup {None} /\ attempts \subseteq Configs /\ gutted \subseteq Ids

\* A config.json that can be read stands for a whole VM, at every moment and after every
\* kill and power cut: both directories and the runtime directory of its ID are there,
\* the artifacts it refers to are finished, and no download or staging directory is left
\* beside them.  Only a VM that is being taken away again is less than that.
ConfigMeansWhole ==
  /\ config # Torn
  /\ config # None /\ config.id \notin gutted =>
       /\ dirs = {"vm", "logs"} /\ config.id \in runtime
       /\ files = config.needs /\ partial \subseteq {Temporary}

\* A create that fails leaves the directories that were there before it, and no other one
\* but those that its rollback could not remove, and one that it had made itself and then
\* refused: with neither, the name is free again.
FailedCreateRestores ==
  job # None /\ job.kind = "create" /\ pc = "failed" =>
    before \subseteq dirs /\ dirs \subseteq before \cup stuck \cup refused

\* Once a create or an edit has succeeded, what config.json says is that or what a later
\* command has tried to save, through kills and power cuts, until a delete begins.
PromiseSurvives == promised # None => config \in {promised} \cup attempts

\* A transaction gives the name lock back, also when the server of a download falls
\* silent.
LockIsReleased == (job # None) ~> (job = None)
=============================================================================

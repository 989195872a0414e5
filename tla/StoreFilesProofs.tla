--------------------------- MODULE StoreFilesProofs ---------------------------
(***************************************************************************)
(* Proofs about StoreFiles, for any IDs, requests, readers and edits, and  *)
(* any number of failures, kills and power cuts.                           *)
(***************************************************************************)
EXTENDS StoreFiles, SequenceTheorems, TLAPS

ArtifactSteps == Files \cup {"unstage", "unsource", "resize"}

Making  == {"exists", "vm", "logs", "runtime", "artifacts"}
Writing == {"temp", "sync", "rename", "dirsync"}

\* The types, with what a transaction has left to do.
Typed ==
  /\ TypeOK
  /\ pc \in Making => todo \in Seq(ArtifactSteps)

\* Which steps each kind of transaction has, and what it knows there.
Course ==
  /\ pc \in Making \cup Writing \cup {"erase"} => job.config \in Configs
  /\ pc \in Making => job.kind = "create"
  /\ pc \in Writing => job.kind \in {"create", "edit"}
  /\ pc = "erase" => job.kind \in {"create", "delete"}
  /\ pc = "load" => job.kind \in {"edit", "delete"}
  /\ pc = "rename" => temp = "synced"
  /\ pc = "dirsync" => config = job.config /\ temp = None
  /\ pc \in {"exists", "vm"} => made = <<>>

\* What is on the disk; a create or an edit is at work on a directory that is there.
OnDisk ==
  /\ config = None => afterCut = {None}
  /\ config # None => "vm" \in dirs
  /\ Torn \notin afterCut \cup {config}
  /\ pc \in Writing \cup {"logs", "runtime", "artifacts"} => "vm" \in dirs

\* What has been promised, and who may still break it.
Promise ==
  /\ promised # None => afterCut \cup {config} \subseteq {promised} \cup attempts
  /\ pc \in Writing => job.config \in attempts
  /\ pc \in {"logs", "runtime", "artifacts"} => promised = None
  /\ pc \in Writing /\ job.kind = "create" => promised = None
  /\ pc = "erase" /\ todo # <<>> => promised = None

\* What a create has made, and what its rollback has to take back.
Undo ==
  job # None /\ job.kind = "create" =>
    /\ pc \in Making \cup Writing =>
         /\ made \in Seq(Directories)
         /\ dirs = before \cup (Range(made) \cap {"vm", "logs"})
         /\ Range(made) \cap before = {}
    /\ pc = "erase" =>
         /\ todo \in Seq(Directories)
         /\ before \subseteq dirs
         /\ dirs \subseteq before \cup stuck \cup refused \cup Range(todo)
         /\ Range(todo) \cap before = {}
    /\ pc = "failed" => before \subseteq dirs /\ dirs \subseteq before \cup stuck \cup refused

\* What a list of artifact steps works on, and that it takes away what it only needs on
\* the way.
Targets(steps) == {Target(step) : step \in Range(steps)}
Planned(steps) ==
  \A i \in 1..Len(steps) : steps[i] \in {"staging", "source"} =>
    \E j \in (i + 1)..Len(steps) : Removes(steps[j]) = steps[i]
WillGo(file, steps) == \E step \in Range(steps) : Removes(step) = file

\* What a create has built so far.
Built ==
  job # None /\ job.kind = "create" =>
    /\ pc \in Making => Planned(todo)
    /\ pc \in Making \ {"artifacts"} => Permanent \cap Targets(todo) = job.config.needs
    /\ pc \in {"logs", "runtime"} => files = {} /\ partial = {}
    /\ pc \in {"logs", "runtime", "artifacts", "temp", "sync", "rename"} => config = None
    /\ pc \in {"runtime", "artifacts"} \cup Writing => dirs = {"vm", "logs"}
    /\ pc \in {"artifacts"} \cup Writing => job.config.id \in runtime
    /\ pc = "artifacts" =>
         /\ Permanent \cap (files \cup Targets(todo)) = job.config.needs
         /\ \A file \in files \ Permanent : WillGo(file, todo)
         /\ partial \subseteq IF todo = <<>> THEN {} ELSE {Target(Head(todo))}
    /\ pc \in Writing => files = job.config.needs /\ partial = {}

\* What a configuration that can be found stands for, now and after a power cut.
Whole ==
  /\ "vm" \notin dirs => files = {} /\ partial = {}
  /\ temp # None => pc \in Writing
  /\ \A c \in afterCut \ {None} :
       config # None /\ c.id = config.id /\ c.needs = config.needs
  /\ config # None /\ config.id \notin gutted =>
       /\ dirs = {"vm", "logs"} /\ config.id \in runtime
       /\ files = config.needs /\ partial \subseteq {Temporary}
  /\ job # None /\ job.kind = "edit" /\ pc \in Writing =>
       config # None /\ job.config.id = config.id /\ job.config.needs = config.needs
  /\ pc = "erase" => job.config.id \in gutted
  /\ pc = "erase" /\ todo # <<>> /\ config # None => config.id = job.config.id

IInv == Typed /\ Course /\ OnDisk /\ Promise /\ Undo /\ Built /\ Whole

-----------------------------------------------------------------------------
(* Type correctness. *)

\* The steps of a recipe are artifact steps.
LEMMA RecipeSteps == ASSUME NEW request PROVE Recipe(request) \in Seq(ArtifactSteps)
<1>1. SeedSteps \in Seq(ArtifactSteps)
  BY DEF SeedSteps, ArtifactSteps, Files, Permanent
<1>2. DiskSteps(request) \in Seq(ArtifactSteps)
  <2>1. /\ <<"source", "disk", "unsource">> \in Seq(ArtifactSteps)
        /\ <<"disk">> \in Seq(ArtifactSteps) /\ <<"resize">> \in Seq(ArtifactSteps)
        /\ <<>> \in Seq(ArtifactSteps)
    BY DEF ArtifactSteps, Files, Permanent
  <2> QED BY <2>1, ConcatProperties DEF DiskSteps
<1>3. <<"firmware">> \in Seq(ArtifactSteps) /\ <<>> \in Seq(ArtifactSteps)
  BY DEF ArtifactSteps, Files, Permanent
<1>4. <<"firmware">> \o (IF request.seed THEN SeedSteps ELSE <<>>) \in Seq(ArtifactSteps)
  BY <1>1, <1>3, ConcatProperties
<1> QED BY <1>2, <1>4, ConcatProperties DEF Recipe

\* What a create has ahead of it.
LEMMA Ahead ==
  ASSUME Typed, AtStep
  PROVE  Step \in ArtifactSteps /\ Tail(todo) \in Seq(ArtifactSteps)
BY HeadTailProperties DEF Typed, AtStep, Step, Making

\* The configuration of a transaction that changes the disk.
LEMMA OwnConfig ==
  ASSUME Course, pc \in Making \cup Writing \cup {"erase"}
  PROVE  job.config \in Configs /\ job.config.id \in Ids
BY DEF Course, Configs

\* What Mkdir changes, whether the directory is accepted or not.
LEMMA DirectoryMade ==
  ASSUME NEW dir \in Directories, Made(dir)
  PROVE  /\ dirs' = dirs \cup ({dir} \cap {"vm", "logs"})
         /\ runtime' \in {runtime, runtime \cup {job.config.id}}
         /\ dir = "runtime" => runtime' = runtime \cup {job.config.id}
         /\ dir # "runtime" => runtime' = runtime /\ dirs' = dirs \cup {dir}
<1>1. dir = "runtime" \/ dir \in {"vm", "logs"}
  BY DEF Directories
<1> QED BY <1>1 DEF Made

\* A step of the loop over the directories goes on to the next one, or back.
LEMMA DirectoryStep ==
  ASSUME NEW dir \in Directories, MakeDirectory(dir)
  PROVE  /\ pc = dir
         /\ dirs \subseteq dirs' /\ dirs' \subseteq dirs \cup ({dir} \cap {"vm", "logs"})
         /\ runtime' \in {runtime, runtime \cup {job.config.id}}
         /\ \/ /\ pc' = NextOf[dir] /\ ~Exists(dir) /\ Made(dir) /\ made' = Append(made, dir)
               /\ UNCHANGED <<todo, refused, gutted>>
            \/ /\ pc' = "erase" /\ made' = made /\ todo' = Reverse(made)
               /\ gutted' = gutted \cup {job.config.id}
               /\ dirs' \ dirs \subseteq refused' /\ refused' \in {refused, {dir}}
<1>1. /\ pc = dir
      /\ \/ /\ ~Exists(dir) /\ Made(dir) /\ made' = Append(made, dir) /\ pc' = NextOf[dir]
            /\ UNCHANGED <<todo, refused, gutted>>
         \/ /\ \/ UNCHANGED <<tree, refused>>
               \/ ~Exists(dir) /\ Made(dir) /\ refused' = {dir}
            /\ made' = made /\ pc' = "erase" /\ todo' = Reverse(made)
            /\ gutted' = gutted \cup {job.config.id}
  BY DEF MakeDirectory, Noted
<1>2. CASE Made(dir)
  BY <1>1, <1>2, DirectoryMade
<1>3. CASE UNCHANGED <<tree, refused>>
  BY <1>1, <1>3 DEF tree
<1> QED BY <1>1, <1>2, <1>3

\* Every step keeps the types.
LEMMA NextTyped ==
  ASSUME Typed, Course, [Next]_vars
  PROVE  Typed'
<1>0. Next \/ UNCHANGED vars
  OBVIOUS
<1> USE StoreAssumption
    DEF Typed, TypeOK, Making, Writing, Steps,
        disk, tree, artifacts, written, origin, process, history
<1>1. ASSUME NEW id \in Ids, BeginEdit(id)
      PROVE  Typed'
  BY <1>1 DEF BeginEdit, LockFree, Jobs, Configs
<1>2. ASSUME NEW id \in Ids, NEW request \in Requests, BeginCreate(id, request)
      PROVE  Typed'
  BY <1>2, RecipeSteps DEF BeginCreate, LockFree, Jobs, Configs
<1>3. CASE BeginDelete
  BY <1>3 DEF BeginDelete, LockFree, Jobs
<1>4. CASE CheckExists
  BY <1>4 DEF CheckExists
<1>5. ASSUME NEW dir \in Directories, MakeDirectory(dir)
      PROVE  Typed'
  <2>1. pc = dir /\ job.config.id \in Ids
    BY <1>5, OwnConfig DEF MakeDirectory, Directories
  <2>2. NextOf[dir] \in {"logs", "runtime", "artifacts"}
    BY DEF NextOf, Directories
  <2>3. dirs' \subseteq {"vm", "logs"} /\ runtime' \subseteq Ids
    BY <1>5, <2>1, DirectoryStep
  <2>4. /\ pc' \in {NextOf[dir], "erase"} /\ (pc' # "erase" => todo' = todo)
        /\ gutted' \subseteq Ids /\ refused' \subseteq Directories
    BY <1>5, <2>1, DirectoryStep
  <2>5. UNCHANGED <<artifacts, written, job, body, loaded, used, before, stuck, promised, attempts>>
    BY <1>5 DEF MakeDirectory
  <2>6. pc \in Making /\ pc' \in Steps \ {"idle"}
    BY <2>1, <2>2, <2>4 DEF Directories
  <2> QED BY <2>1, <2>2, <2>3, <2>4, <2>5, <2>6
<1>6. CASE Begin
  BY <1>6, Ahead DEF Begin, AtStep, Step, Target, Removes, ArtifactSteps, Files,
       Permanent, Temporary
<1>7. CASE Finish
  BY <1>7, Ahead DEF Finish, AtStep, Step, Target, Removes, ArtifactSteps, Files,
       Permanent, Temporary
<1>8. CASE RemoveArtifact
  BY <1>8, Ahead DEF RemoveArtifact, AtStep, Step
<1>9. CASE StepFails
  <2>1. partial' \subseteq partial /\ files' \subseteq files
    BY <1>9 DEF StepFails
  <2> QED BY <1>9, <2>1, Ahead, OwnConfig DEF StepFails, AtStep, Failing
<1>10. CASE ArtifactsDone
  BY <1>10, OwnConfig DEF ArtifactsDone
<1>11. CASE LoadForEdit
  BY <1>11 DEF LoadForEdit, Loadable, Decodes, Jobs, Configs
<1>12. CASE LoadForDelete
  BY <1>12 DEF LoadForDelete, Loadable, Decodes, Jobs, Configs
<1>13. CASE WriteTemporary
  BY <1>13 DEF WriteTemporary
<1>14. CASE SyncTemporary
  BY <1>14 DEF SyncTemporary
<1>15. CASE Rename
  BY <1>15, OwnConfig DEF Rename
<1>16. CASE SyncDirectory
  BY <1>16, OwnConfig DEF SyncDirectory, Release
<1>17. CASE WriteFails
  BY <1>17, OwnConfig DEF WriteFails, Failing
<1>18. CASE EraseEntry
  BY <1>18 DEF EraseEntry, Erasing
<1>19. ASSUME NEW dir \in Directories, EraseDirectory(dir)
      PROVE  Typed'
  BY <1>19 DEF EraseDirectory, Erasing, Directories
<1>20. ASSUME NEW dir \in Directories, EraseFails(dir)
      PROVE  Typed'
  BY <1>20 DEF EraseFails, Erasing, Directories
<1>21. CASE Erased
  BY <1>21 DEF Erased
<1>22. CASE End
  BY <1>22 DEF End, Release
<1>23. CASE WatchFires
  BY <1>23 DEF WatchFires
<1>24. ASSUME NEW r \in Readers, Load(r)
      PROVE  Typed'
  BY <1>24 DEF Load, Loadable, Decodes
<1>25. ASSUME NEW r \in Readers, Probe(r)
      PROVE  Typed'
  BY <1>25 DEF Probe, Configs
<1>26. CASE Kill
  BY <1>26 DEF Kill, Killed, Release
<1>27. CASE PowerCut
  BY <1>27 DEF PowerCut, Killed, Release
<1>28. CASE UNCHANGED vars
  BY <1>28 DEF vars
<1> QED BY <1>0, <1>1, <1>2, <1>3, <1>4, <1>5, <1>6, <1>7, <1>8, <1>9, <1>10, <1>11,
     <1>12, <1>13, <1>14, <1>15, <1>16, <1>17, <1>18, <1>19, <1>20, <1>21, <1>22, <1>23,
     <1>24, <1>25, <1>26, <1>27, <1>28 DEF Next, Transaction, Download

\* Where a transaction is says what it is.
LEMMA NextCourse ==
  ASSUME Typed, Course, [Next]_vars
  PROVE  Course'
<1>0. Next \/ UNCHANGED vars
  OBVIOUS
<1> USE StoreAssumption
    DEF Typed, TypeOK, Course, Making, Writing, Steps,
        disk, tree, artifacts, written, origin, process, history
<1>1. ASSUME NEW id \in Ids, BeginEdit(id)
      PROVE  Course'
  BY <1>1 DEF BeginEdit, LockFree, Jobs
<1>2. ASSUME NEW id \in Ids, NEW request \in Requests, BeginCreate(id, request)
      PROVE  Course'
  BY <1>2 DEF BeginCreate, LockFree, Jobs, Configs
<1>3. CASE BeginDelete
  BY <1>3 DEF BeginDelete, LockFree, Jobs
<1>4. CASE CheckExists
  BY <1>4 DEF CheckExists
<1>5. ASSUME NEW dir \in Directories, MakeDirectory(dir)
      PROVE  Course'
  <2>1. pc = dir /\ job.kind = "create" /\ job.config \in Configs
    BY <1>5 DEF MakeDirectory, Directories
  <2>2. NextOf[dir] \in {"logs", "runtime", "artifacts"}
    BY DEF NextOf, Directories
  <2> QED BY <1>5, <2>1, <2>2 DEF MakeDirectory
<1>6. CASE Begin
  BY <1>6 DEF Begin, AtStep, Step
<1>7. CASE Finish
  BY <1>7 DEF Finish, AtStep, Step
<1>8. CASE RemoveArtifact
  BY <1>8 DEF RemoveArtifact, AtStep, Step
<1>9. CASE StepFails
  BY <1>9 DEF StepFails, AtStep, Step, Failing
<1>10. CASE ArtifactsDone
  BY <1>10 DEF ArtifactsDone
<1>11. CASE LoadForEdit
  BY <1>11 DEF LoadForEdit, Loadable, Decodes, Jobs, Configs
<1>12. CASE LoadForDelete
  BY <1>12 DEF LoadForDelete, Loadable, Decodes, Jobs
<1>13. CASE WriteTemporary
  BY <1>13 DEF WriteTemporary
<1>14. CASE SyncTemporary
  BY <1>14 DEF SyncTemporary
<1>15. CASE Rename
  BY <1>15 DEF Rename
<1>16. CASE SyncDirectory
  BY <1>16 DEF SyncDirectory, Release
<1>17. CASE WriteFails
  BY <1>17 DEF WriteFails, Failing
<1>18. CASE EraseEntry
  BY <1>18 DEF EraseEntry, Erasing
<1>19. ASSUME NEW dir \in Directories, EraseDirectory(dir)
      PROVE  Course'
  BY <1>19 DEF EraseDirectory, Erasing, Directories
<1>20. ASSUME NEW dir \in Directories, EraseFails(dir)
      PROVE  Course'
  BY <1>20 DEF EraseFails, Erasing, Directories
<1>21. CASE Erased
  BY <1>21 DEF Erased
<1>22. CASE End
  BY <1>22 DEF End, Release
<1>23. CASE WatchFires
  BY <1>23 DEF WatchFires
<1>24. ASSUME NEW r \in Readers, Load(r)
      PROVE  Course'
  BY <1>24 DEF Load, Loadable, Decodes
<1>25. ASSUME NEW r \in Readers, Probe(r)
      PROVE  Course'
  BY <1>25 DEF Probe
<1>26. CASE Kill
  BY <1>26 DEF Kill, Killed, Release
<1>27. CASE PowerCut
  BY <1>27 DEF PowerCut, Killed, Release
<1>28. CASE UNCHANGED vars
  BY <1>28 DEF vars
<1> QED BY <1>0, <1>1, <1>2, <1>3, <1>4, <1>5, <1>6, <1>7, <1>8, <1>9, <1>10, <1>11,
     <1>12, <1>13, <1>14, <1>15, <1>16, <1>17, <1>18, <1>19, <1>20, <1>21, <1>22, <1>23,
     <1>24, <1>25, <1>26, <1>27, <1>28 DEF Next, Transaction, Download

\* The disk stays in order.
LEMMA NextOnDisk ==
  ASSUME Typed, Course, OnDisk, [Next]_vars
  PROVE  OnDisk'
<1>0. Next \/ UNCHANGED vars
  OBVIOUS
<1> USE StoreAssumption
    DEF Typed, TypeOK, Course, OnDisk, Making, Writing, Steps,
        disk, tree, artifacts, written, origin, process, history
<1>1. ASSUME NEW id \in Ids, BeginEdit(id)
      PROVE  OnDisk'
  BY <1>1 DEF BeginEdit, LockFree
<1>2. ASSUME NEW id \in Ids, NEW request \in Requests, BeginCreate(id, request)
      PROVE  OnDisk'
  BY <1>2 DEF BeginCreate, LockFree
<1>3. CASE BeginDelete
  BY <1>3 DEF BeginDelete, LockFree
<1>4. CASE CheckExists
  BY <1>4 DEF CheckExists
<1>5. ASSUME NEW dir \in Directories, MakeDirectory(dir)
      PROVE  OnDisk'
  <2>1. pc = dir /\ dirs \subseteq dirs' /\ UNCHANGED <<written>>
    BY <1>5, DirectoryStep DEF MakeDirectory
  <2>2. "vm" \in dirs' \/ pc' = "erase"
    BY <1>5, <2>1, DirectoryStep, DirectoryMade DEF Directories
  <2>3. NextOf[dir] \in {"logs", "runtime", "artifacts"}
    BY DEF NextOf, Directories
  <2>4. pc' \in {"logs", "runtime", "artifacts", "erase"}
    BY <1>5, <2>3 DEF MakeDirectory
  <2> QED BY <2>1, <2>2, <2>4
<1>6. CASE Begin
  BY <1>6 DEF Begin, AtStep, Step
<1>7. CASE Finish
  BY <1>7 DEF Finish, AtStep, Step
<1>8. CASE RemoveArtifact
  BY <1>8 DEF RemoveArtifact, AtStep, Step
<1>9. CASE StepFails
  BY <1>9 DEF StepFails, AtStep, Step, Failing
<1>10. CASE ArtifactsDone
  BY <1>10 DEF ArtifactsDone
<1>11. CASE LoadForEdit
  BY <1>11 DEF LoadForEdit, Loadable, Decodes
<1>12. CASE LoadForDelete
  BY <1>12 DEF LoadForDelete, Loadable, Decodes
<1>13. CASE WriteTemporary
  BY <1>13 DEF WriteTemporary
<1>14. CASE SyncTemporary
  BY <1>14 DEF SyncTemporary
<1>15. CASE Rename
  BY <1>15 DEF Rename
<1>16. CASE SyncDirectory
  BY <1>16 DEF SyncDirectory, Release
<1>17. CASE WriteFails
  BY <1>17 DEF WriteFails, Failing
<1>18. CASE EraseEntry
  BY <1>18 DEF EraseEntry, Erasing
<1>19. ASSUME NEW dir \in Directories, EraseDirectory(dir)
      PROVE  OnDisk'
  BY <1>19 DEF EraseDirectory, Erasing, Directories
<1>20. ASSUME NEW dir \in Directories, EraseFails(dir)
      PROVE  OnDisk'
  BY <1>20 DEF EraseFails, Erasing, Directories
<1>21. CASE Erased
  BY <1>21 DEF Erased
<1>22. CASE End
  BY <1>22 DEF End, Release
<1>23. CASE WatchFires
  BY <1>23 DEF WatchFires
<1>24. ASSUME NEW r \in Readers, Load(r)
      PROVE  OnDisk'
  BY <1>24 DEF Load, Loadable, Decodes
<1>25. ASSUME NEW r \in Readers, Probe(r)
      PROVE  OnDisk'
  BY <1>25 DEF Probe
<1>26. CASE Kill
  BY <1>26 DEF Kill, Killed, Release
<1>27. CASE PowerCut
  BY <1>27 DEF PowerCut, Killed, Release
<1>28. CASE UNCHANGED vars
  BY <1>28 DEF vars
<1> QED BY <1>0, <1>1, <1>2, <1>3, <1>4, <1>5, <1>6, <1>7, <1>8, <1>9, <1>10, <1>11,
     <1>12, <1>13, <1>14, <1>15, <1>16, <1>17, <1>18, <1>19, <1>20, <1>21, <1>22, <1>23,
     <1>24, <1>25, <1>26, <1>27, <1>28 DEF Next, Transaction, Download

\* What the elements of a sequence are, from either end and backwards.
LEMMA RangeOfReverse ==
  ASSUME NEW S, NEW s \in Seq(S)
  PROVE  Reverse(s) \in Seq(S) /\ Range(Reverse(s)) = Range(s)
<1>1. Len(s) \in Nat /\ DOMAIN s = 1..Len(s) /\ \A i \in 1..Len(s) : s[i] \in S
  BY LenProperties, ElementOfSeq
<1>2. /\ DOMAIN Reverse(s) = 1..Len(s)
      /\ \A i \in 1..Len(s) : Len(s) - i + 1 \in 1..Len(s) /\ Reverse(s)[i] = s[Len(s) - i + 1]
  BY <1>1 DEF Reverse
<1>3. \A i \in 1..Len(s) : s[i] = Reverse(s)[Len(s) - i + 1]
  <2> SUFFICES ASSUME NEW i \in 1..Len(s) PROVE s[i] = Reverse(s)[Len(s) - i + 1]
    OBVIOUS
  <2>1. Len(s) - i + 1 \in 1..Len(s) /\ Len(s) - (Len(s) - i + 1) + 1 = i
    BY <1>1
  <2> QED BY <1>2, <2>1
<1>4. Reverse(s) \in [1..Len(s) -> S]
  BY <1>1, <1>2 DEF Reverse
<1>5. Reverse(s) \in Seq(S)
  BY <1>1, <1>4, IsASeq DEF Reverse
<1>6. Range(Reverse(s)) \subseteq Range(s)
  BY <1>1, <1>2 DEF Range
<1>7. Range(s) \subseteq Range(Reverse(s))
  BY <1>1, <1>2, <1>3 DEF Range
<1> QED BY <1>5, <1>6, <1>7

\* The head is one of them, the others are the tail's.
LEMMA RangeOfTail ==
  ASSUME NEW S, NEW s \in Seq(S), s # <<>>
  PROVE  Tail(s) \in Seq(S) /\ Head(s) \in S /\ Range(s) = {Head(s)} \cup Range(Tail(s))
<1>1. /\ Head(s) \in S /\ Tail(s) \in Seq(S) /\ s = <<Head(s)>> \o Tail(s)
  BY HeadTailProperties
<1>2. <<Head(s)>> \in Seq(S) /\ Range(<<Head(s)>>) = {Head(s)}
  BY <1>1 DEF Range
<1>3. Range(<<Head(s)>> \o Tail(s)) = Range(<<Head(s)>>) \cup Range(Tail(s))
  <2> DEFINE h == <<Head(s)>>
             t == Tail(s)
  <2>1. h \in Seq(S) /\ t \in Seq(S)
    BY <1>1, <1>2
  <2> HIDE DEF h, t
  <2>2. Range(h \o t) = Range(h) \cup Range(t)
    BY <2>1, RangeConcatenation
  <2> QED BY <2>2 DEF h, t
<1>4. Range(s) = {Head(s)} \cup Range(Tail(s))
  <2>1. Range(s) = Range(<<Head(s)>> \o Tail(s))
    BY <1>1, Zenon
  <2> QED BY <1>2, <1>3, <2>1, Zenon
<1> QED BY <1>1, <1>4

\* Nothing has no elements.
LEMMA RangeOfNothing == Range(<<>>) = {}
BY DEF Range

\* The one that is appended is one of them.
LEMMA RangeOfAppend ==
  ASSUME NEW S, NEW s \in Seq(S), NEW e \in S
  PROVE  Append(s, e) \in Seq(S) /\ Range(Append(s, e)) = Range(s) \cup {e}
<1>1. Append(s, e) = s \o <<e>> /\ <<e>> \in Seq(S) /\ Append(s, e) \in Seq(S)
  BY AppendIsConcat, AppendProperties
<1>2. Range(<<e>>) = {e}
  BY DEF Range
<1>3. Range(s \o <<e>>) = Range(s) \cup Range(<<e>>)
  <2> DEFINE t == <<e>>
  <2>1. t \in Seq(S)
    BY <1>1
  <2> HIDE DEF t
  <2>2. Range(s \o t) = Range(s) \cup Range(t)
    BY <2>1, RangeConcatenation
  <2> QED BY <2>2 DEF t
<1> QED BY <1>1, <1>2, <1>3

\* The rollback of a create that made nothing has nothing to do.
LEMMA NothingMade == Reverse(<<>>) = <<>>
BY DEF Reverse

\* Promises are kept by every step.
LEMMA NextPromise ==
  ASSUME Typed, Course, OnDisk, Promise, [Next]_vars
  PROVE  Promise'
<1>0. Next \/ UNCHANGED vars
  OBVIOUS
<1> USE StoreAssumption
    DEF Typed, TypeOK, Course, OnDisk, Promise, Making, Writing, Steps,
        disk, tree, artifacts, written, origin, process, history
<1>1. ASSUME NEW id \in Ids, BeginEdit(id)
      PROVE  Promise'
  BY <1>1 DEF BeginEdit, LockFree
<1>2. ASSUME NEW id \in Ids, NEW request \in Requests, BeginCreate(id, request)
      PROVE  Promise'
  BY <1>2 DEF BeginCreate, LockFree
<1>3. CASE BeginDelete
  BY <1>3 DEF BeginDelete, LockFree
<1>4. CASE CheckExists
  BY <1>4 DEF CheckExists
<1>5. ASSUME NEW dir \in Directories, MakeDirectory(dir)
      PROVE  Promise'
  <2>1. NextOf[dir] \in {"logs", "runtime", "artifacts"}
    BY DEF NextOf, Directories
  <2>2. pc = dir /\ pc' \in {"logs", "runtime", "artifacts", "erase"}
    BY <1>5, <2>1 DEF MakeDirectory
  <2>3. dir = "vm" /\ pc' = "erase" => todo' = <<>>
    BY <1>5, <2>1, NothingMade DEF MakeDirectory, Noted
  <2>4. dir = "vm" /\ pc' # "erase" => promised = None
    BY <1>5, <2>2 DEF MakeDirectory, Exists
  <2>5. dir # "vm" => promised = None
    BY <2>2 DEF Directories
  <2>6. UNCHANGED <<written, job, promised, attempts>>
    BY <1>5 DEF MakeDirectory
  <2> QED BY <2>2, <2>3, <2>4, <2>5, <2>6
<1>6. CASE Begin
  BY <1>6 DEF Begin, AtStep, Step
<1>7. CASE Finish
  BY <1>7 DEF Finish, AtStep, Step
<1>8. CASE RemoveArtifact
  BY <1>8 DEF RemoveArtifact, AtStep, Step
<1>9. CASE StepFails
  BY <1>9 DEF StepFails, AtStep, Step, Failing
<1>10. CASE ArtifactsDone
  BY <1>10 DEF ArtifactsDone
<1>11. CASE LoadForEdit
  BY <1>11 DEF LoadForEdit, Loadable, Decodes, Jobs
<1>12. CASE LoadForDelete
  BY <1>12 DEF LoadForDelete, Loadable, Decodes
<1>13. CASE WriteTemporary
  BY <1>13 DEF WriteTemporary
<1>14. CASE SyncTemporary
  BY <1>14 DEF SyncTemporary
<1>15. CASE Rename
  BY <1>15 DEF Rename
<1>16. CASE SyncDirectory
  BY <1>16 DEF SyncDirectory, Release
<1>17. CASE WriteFails
  BY <1>17 DEF WriteFails, Failing
<1>18. CASE EraseEntry
  BY <1>18 DEF EraseEntry, Erasing
<1>19. ASSUME NEW dir \in Directories, EraseDirectory(dir)
      PROVE  Promise'
  BY <1>19 DEF EraseDirectory, Erasing, Directories
<1>20. ASSUME NEW dir \in Directories, EraseFails(dir)
      PROVE  Promise'
  BY <1>20 DEF EraseFails, Erasing, Directories
<1>21. CASE Erased
  BY <1>21 DEF Erased
<1>22. CASE End
  BY <1>22 DEF End, Release
<1>23. CASE WatchFires
  BY <1>23 DEF WatchFires
<1>24. ASSUME NEW r \in Readers, Load(r)
      PROVE  Promise'
  BY <1>24 DEF Load, Loadable, Decodes
<1>25. ASSUME NEW r \in Readers, Probe(r)
      PROVE  Promise'
  BY <1>25 DEF Probe
<1>26. CASE Kill
  BY <1>26 DEF Kill, Killed, Release
<1>27. CASE PowerCut
  BY <1>27 DEF PowerCut, Killed, Release
<1>28. CASE UNCHANGED vars
  BY <1>28 DEF vars
<1> QED BY <1>0, <1>1, <1>2, <1>3, <1>4, <1>5, <1>6, <1>7, <1>8, <1>9, <1>10, <1>11,
     <1>12, <1>13, <1>14, <1>15, <1>16, <1>17, <1>18, <1>19, <1>20, <1>21, <1>22, <1>23,
     <1>24, <1>25, <1>26, <1>27, <1>28 DEF Next, Transaction, Download

\* A rollback takes back what its create has made.
LEMMA NextUndo ==
  ASSUME Typed, Course, Undo, [Next]_vars
  PROVE  Undo'
<1>0. Next \/ UNCHANGED vars
  OBVIOUS
<1> USE StoreAssumption
    DEF Typed, TypeOK, Course, Undo, Making, Writing, Steps,
        disk, tree, artifacts, written, origin, process, history
<1>1. ASSUME NEW id \in Ids, BeginEdit(id)
      PROVE  Undo'
  BY <1>1 DEF BeginEdit, LockFree
<1>2. ASSUME NEW id \in Ids, NEW request \in Requests, BeginCreate(id, request)
      PROVE  Undo'
  <2>1. <<>> \in Seq(Directories) /\ Range(<<>>) = {}
    BY RangeOfNothing
  <2> QED BY <1>2, <2>1 DEF BeginCreate
<1>3. CASE BeginDelete
  BY <1>3 DEF BeginDelete, LockFree
<1>4. CASE CheckExists
  BY <1>4, RangeOfNothing DEF CheckExists
<1>5. ASSUME NEW dir \in Directories, MakeDirectory(dir)
      PROVE  Undo'
  <2> SUFFICES ASSUME Undo PROVE Undo'
    OBVIOUS
  <2>1. /\ pc = dir /\ job # None /\ job.kind = "create" /\ UNCHANGED <<job, before>>
        /\ made \in Seq(Directories) /\ Range(made) \cap before = {}
        /\ dirs = before \cup (Range(made) \cap {"vm", "logs"})
    BY <1>5 DEF MakeDirectory, Directories
  <2>2. \/ /\ ~Exists(dir) /\ made' = Append(made, dir) /\ pc' = NextOf[dir]
            /\ dirs' = IF dir = "runtime" THEN dirs ELSE dirs \cup {dir}
         \/ /\ dirs \subseteq dirs' /\ dirs' \ dirs \subseteq refused' /\ made' = made
            /\ pc' = "erase" /\ todo' = Reverse(made)
    BY <1>5, DirectoryStep, DirectoryMade DEF Directories
  <2>3. CASE ~Exists(dir) /\ made' = Append(made, dir) /\ pc' = NextOf[dir]
             /\ dirs' = IF dir = "runtime" THEN dirs ELSE dirs \cup {dir}
    <3>1. NextOf[dir] \in {"logs", "runtime", "artifacts"}
      BY DEF NextOf, Directories
    <3>2. made' \in Seq(Directories) /\ Range(made') = Range(made) \cup {dir}
      BY <2>1, <2>3, RangeOfAppend
    <3>3. dir \in {"vm", "logs"} \/ dir = "runtime"
      BY DEF Directories
    <3>4. dir \notin before
      BY <2>1, <2>3, <3>3 DEF Exists
    <3>5. dirs' = before \cup (Range(made') \cap {"vm", "logs"})
      BY <2>1, <2>3, <3>2, <3>3
    <3> QED BY <2>1, <2>3, <3>1, <3>2, <3>4, <3>5
  <2>4. CASE /\ dirs \subseteq dirs' /\ dirs' \ dirs \subseteq refused' /\ made' = made
             /\ pc' = "erase" /\ todo' = Reverse(made)
    <3>1. todo' \in Seq(Directories) /\ Range(todo') = Range(made)
      BY <2>1, <2>4, RangeOfReverse
    <3> QED BY <2>1, <2>4, <3>1
  <2> QED BY <2>2, <2>3, <2>4
<1>6. CASE Begin
  BY <1>6 DEF Begin, AtStep, Step
<1>7. CASE Finish
  BY <1>7 DEF Finish, AtStep, Step
<1>8. CASE RemoveArtifact
  BY <1>8 DEF RemoveArtifact, AtStep, Step
<1>9. CASE StepFails
  BY <1>9, RangeOfReverse DEF StepFails, AtStep, Step, Failing
<1>10. CASE ArtifactsDone
  BY <1>10 DEF ArtifactsDone
<1>11. CASE LoadForEdit
  BY <1>11 DEF LoadForEdit, Loadable, Decodes, Jobs
<1>12. CASE LoadForDelete
  BY <1>12 DEF LoadForDelete, Loadable, Decodes, Jobs
<1>13. CASE WriteTemporary
  BY <1>13 DEF WriteTemporary
<1>14. CASE SyncTemporary
  BY <1>14 DEF SyncTemporary
<1>15. CASE Rename
  BY <1>15 DEF Rename
<1>16. CASE SyncDirectory
  BY <1>16 DEF SyncDirectory, Release
<1>17. CASE WriteFails
  BY <1>17, RangeOfReverse DEF WriteFails, Failing
<1>18. CASE EraseEntry
  BY <1>18 DEF EraseEntry, Erasing
<1>19. ASSUME NEW dir \in Directories, EraseDirectory(dir)
      PROVE  Undo'
  BY <1>19, RangeOfTail DEF EraseDirectory, Erasing, Directories
<1>20. ASSUME NEW dir \in Directories, EraseFails(dir)
      PROVE  Undo'
  <2> SUFFICES ASSUME job # None, job.kind = "create" PROVE Undo'
    BY <1>20 DEF EraseFails
  <2>1. /\ todo \in Seq(Directories) /\ todo # <<>> /\ dir = Head(todo)
        /\ todo' = Tail(todo) /\ stuck' = stuck \cup {dir} /\ pc' = "erase"
        /\ UNCHANGED <<dirs, before, job>>
    BY <1>20 DEF EraseFails, Erasing
  <2>2. Tail(todo) \in Seq(Directories) /\ Range(todo) = {dir} \cup Range(Tail(todo))
    BY <2>1, RangeOfTail
  <2> QED BY <1>20, <2>1, <2>2 DEF EraseFails, Erasing
<1>21. CASE Erased
  BY <1>21, RangeOfNothing DEF Erased
<1>22. CASE End
  BY <1>22 DEF End, Release
<1>23. CASE WatchFires
  BY <1>23 DEF WatchFires
<1>24. ASSUME NEW r \in Readers, Load(r)
      PROVE  Undo'
  BY <1>24 DEF Load, Loadable, Decodes
<1>25. ASSUME NEW r \in Readers, Probe(r)
      PROVE  Undo'
  BY <1>25 DEF Probe
<1>26. CASE Kill
  BY <1>26 DEF Kill, Killed, Release
<1>27. CASE PowerCut
  BY <1>27 DEF PowerCut, Killed, Release
<1>28. CASE UNCHANGED vars
  BY <1>28 DEF vars
<1> QED BY <1>0, <1>1, <1>2, <1>3, <1>4, <1>5, <1>6, <1>7, <1>8, <1>9, <1>10, <1>11,
     <1>12, <1>13, <1>14, <1>15, <1>16, <1>17, <1>18, <1>19, <1>20, <1>21, <1>22, <1>23,
     <1>24, <1>25, <1>26, <1>27, <1>28 DEF Next, Transaction, Download

\* Two plans, one after the other, are a plan.
LEMMA PlansInARow ==
  ASSUME NEW s \in Seq(ArtifactSteps), NEW t \in Seq(ArtifactSteps), Planned(s), Planned(t)
  PROVE  Planned(s \o t)
<1>1. /\ Len(s) \in Nat /\ Len(t) \in Nat /\ Len(s \o t) = Len(s) + Len(t)
      /\ \A i \in 1..Len(s) : (s \o t)[i] = s[i]
      /\ \A i \in 1..Len(t) : (s \o t)[Len(s) + i] = t[i]
  BY ConcatProperties, LenProperties
<1> SUFFICES ASSUME NEW i \in 1..Len(s \o t), (s \o t)[i] \in {"staging", "source"}
             PROVE  \E j \in (i + 1)..Len(s \o t) : Removes((s \o t)[j]) = (s \o t)[i]
  BY DEF Planned
<1>2. CASE i \in 1..Len(s)
  <2>1. PICK j \in (i + 1)..Len(s) : Removes(s[j]) = s[i]
    BY <1>1, <1>2 DEF Planned
  <2>2. j \in 1..Len(s) /\ j \in (i + 1)..Len(s \o t)
    BY <1>1, <1>2, <2>1
  <2> QED BY <1>1, <1>2, <2>1, <2>2
<1>3. CASE i \notin 1..Len(s)
  <2>1. i - Len(s) \in 1..Len(t) /\ i = Len(s) + (i - Len(s))
    BY <1>1, <1>3
  <2>2. t[i - Len(s)] = (s \o t)[i]
    BY <1>1, <2>1
  <2>3. PICK j \in (i - Len(s) + 1)..Len(t) : Removes(t[j]) = t[i - Len(s)]
    BY <2>1, <2>2 DEF Planned
  <2>4. j \in 1..Len(t) /\ Len(s) + j \in (i + 1)..Len(s \o t)
    BY <1>1, <2>1, <2>3
  <2> QED BY <1>1, <2>2, <2>3, <2>4
<1> QED BY <1>2, <1>3

\* What two lists work on together.
LEMMA StepsInARow ==
  ASSUME NEW s \in Seq(ArtifactSteps), NEW t \in Seq(ArtifactSteps)
  PROVE  s \o t \in Seq(ArtifactSteps) /\ Range(s \o t) = Range(s) \cup Range(t)
<1>1. s \o t \in Seq(ArtifactSteps)
  BY ConcatProperties
<1>2. Range(s \o t) = Range(s) \cup Range(t)
  BY RangeConcatenation
<1> QED BY <1>1, <1>2

\* A recipe takes away what it only needs on the way, and works on nothing else that is
\* not in it.
LEMMA RecipePlan ==
  ASSUME NEW request
  PROVE  Planned(Recipe(request))
         /\ Permanent \cap Targets(Recipe(request)) = Permanent \cap Range(Recipe(request))
<1> DEFINE fetched == <<"source", "disk", "unsource">>
           seeded  == IF request.seed THEN SeedSteps ELSE <<>>
           fetch   == IF request.image = "remote" THEN fetched ELSE <<"disk">>
           grown   == IF request.image # "none" /\ request.grows THEN <<"resize">> ELSE <<>>
<1>1. /\ <<"firmware">> \in Seq(ArtifactSteps) /\ seeded \in Seq(ArtifactSteps)
      /\ fetch \in Seq(ArtifactSteps) /\ grown \in Seq(ArtifactSteps)
  <2>1. /\ SeedSteps \in Seq(ArtifactSteps) /\ fetched \in Seq(ArtifactSteps)
        /\ <<"firmware">> \in Seq(ArtifactSteps) /\ <<"disk">> \in Seq(ArtifactSteps)
        /\ <<"resize">> \in Seq(ArtifactSteps) /\ <<>> \in Seq(ArtifactSteps)
    BY DEF SeedSteps, ArtifactSteps, Files, Permanent
  <2> QED BY <2>1
<1>2. Planned(<<"firmware">>) /\ Planned(<<"disk">>) /\ Planned(<<"resize">>) /\ Planned(<<>>)
  BY DEF Planned
<1>3. Planned(fetched)
  BY DEF Planned, Removes
<1>4. Planned(SeedSteps)
  BY DEF Planned, Removes, SeedSteps
<1>5. Planned(seeded) /\ Planned(fetch) /\ Planned(grown)
  BY <1>2, <1>3, <1>4
<1>6. /\ Recipe(request) = (<<"firmware">> \o seeded) \o (fetch \o grown)
  BY DEF Recipe, DiskSteps
<1>7. "disk" \in Range(fetch)
  <2>1. fetched[2] = "disk" /\ 2 \in DOMAIN fetched /\ "disk" \in Range(<<"disk">>)
    BY DEF Range
  <2> QED BY <2>1 DEF Range
<1> HIDE DEF seeded, fetch, grown
<1>8. <<"firmware">> \o seeded \in Seq(ArtifactSteps) /\ fetch \o grown \in Seq(ArtifactSteps)
  BY <1>1, StepsInARow
<1>9. Planned(<<"firmware">> \o seeded) /\ Planned(fetch \o grown)
  BY <1>1, <1>2, <1>5, PlansInARow
<1>10. Planned(Recipe(request))
  BY <1>6, <1>8, <1>9, PlansInARow
<1>11. Range(Recipe(request)) =
         (Range(<<"firmware">>) \cup Range(seeded)) \cup (Range(fetch) \cup Range(grown))
  <2>1. Range(<<"firmware">> \o seeded) = Range(<<"firmware">>) \cup Range(seeded)
    BY <1>1, StepsInARow
  <2>2. Range(fetch \o grown) = Range(fetch) \cup Range(grown)
    BY <1>1, StepsInARow
  <2>3. Range((<<"firmware">> \o seeded) \o (fetch \o grown)) =
          Range(<<"firmware">> \o seeded) \cup Range(fetch \o grown)
    BY <1>8, StepsInARow
  <2> QED BY <1>6, <2>1, <2>2, <2>3
<1>12. "disk" \in Range(Recipe(request))
  BY <1>11, <1>7
<1>13. Permanent \cap Targets(Recipe(request)) \subseteq Range(Recipe(request))
  BY <1>12 DEF Targets, Target
<1>14. Permanent \cap Range(Recipe(request)) \subseteq Targets(Recipe(request))
  <2>1. \A step \in Permanent : Target(step) = step
    BY DEF Target, Permanent
  <2> QED BY <2>1 DEF Targets
<1> QED BY <1>10, <1>13, <1>14

\* The tail of a plan is a plan, and has the end of all its head begins.
LEMMA PlanGoesOn ==
  ASSUME NEW s \in Seq(ArtifactSteps), s # <<>>, Planned(s)
  PROVE  /\ Planned(Tail(s))
         /\ Head(s) \in {"staging", "source"} => WillGo(Head(s), Tail(s))
<1>1. /\ Len(s) \in Nat \ {0} /\ Len(Tail(s)) = Len(s) - 1 /\ Head(s) = s[1]
      /\ \A i \in 1..Len(Tail(s)) : Tail(s)[i] = s[i + 1]
      /\ DOMAIN Tail(s) = 1..Len(Tail(s))
  BY HeadTailProperties, EmptySeq, LenProperties
<1>2. ASSUME NEW i \in 1..Len(s), s[i] \in {"staging", "source"}
      PROVE  \E j \in i..Len(Tail(s)) : Removes(Tail(s)[j]) = s[i]
  <2>1. PICK j \in (i + 1)..Len(s) : Removes(s[j]) = s[i]
    BY <1>2 DEF Planned
  <2>2. j - 1 \in i..Len(Tail(s)) /\ j - 1 \in 1..Len(Tail(s)) /\ (j - 1) + 1 = j
    BY <1>1, <2>1
  <2> QED BY <1>1, <2>1, <2>2
<1>3. Planned(Tail(s))
  <2> SUFFICES ASSUME NEW i \in 1..Len(Tail(s)), Tail(s)[i] \in {"staging", "source"}
               PROVE  \E j \in (i + 1)..Len(Tail(s)) : Removes(Tail(s)[j]) = Tail(s)[i]
    BY DEF Planned
  <2>1. i + 1 \in 1..Len(s) /\ Tail(s)[i] = s[i + 1]
    BY <1>1
  <2> QED BY <1>2, <2>1
<1>4. Head(s) \in {"staging", "source"} => WillGo(Head(s), Tail(s))
  <2> SUFFICES ASSUME Head(s) \in {"staging", "source"}
               PROVE  \E x \in Range(Tail(s)) : Removes(x) = Head(s)
    BY DEF WillGo
  <2>1. PICK j \in 1..Len(Tail(s)) : Removes(Tail(s)[j]) = s[1]
    BY <1>1, <1>2
  <2> QED BY <1>1, <2>1 DEF Range
<1> QED BY <1>3, <1>4

\* A list of artifact steps works on what its head does and on what its tail does.
LEMMA TargetsOfTail ==
  ASSUME NEW s \in Seq(ArtifactSteps), s # <<>>
  PROVE  /\ Targets(s) = {Target(Head(s))} \cup Targets(Tail(s))
         /\ \A file : WillGo(file, s) => Removes(Head(s)) = file \/ WillGo(file, Tail(s))
<1>1. Range(s) = {Head(s)} \cup Range(Tail(s))
  BY RangeOfTail
<1> QED BY <1>1 DEF Targets, WillGo

\* Nothing works on nothing.
LEMMA TargetsOfNothing == Targets(<<>>) = {} /\ \A file : ~WillGo(file, <<>>)
BY RangeOfNothing DEF Targets, WillGo

\* A create builds what its configuration needs, and nothing that stays besides.
LEMMA NextBuilt ==
  ASSUME Typed, Course, OnDisk, Built, Whole, [Next]_vars
  PROVE  Built'
<1>0. Next \/ UNCHANGED vars
  OBVIOUS
<1> USE StoreAssumption
    DEF Typed, TypeOK, Course, OnDisk, Built, Whole, Making, Writing, Steps,
        disk, tree, artifacts, written, origin, process, history
<1>1. ASSUME NEW id \in Ids, BeginEdit(id)
      PROVE  Built'
  BY <1>1 DEF BeginEdit, LockFree
<1>2. ASSUME NEW id \in Ids, NEW request \in Requests, BeginCreate(id, request)
      PROVE  Built'
  <2>1. /\ Planned(Recipe(request))
        /\ Permanent \cap Targets(Recipe(request)) = Permanent \cap Range(Recipe(request))
    BY RecipePlan
  <2> QED BY <1>2, <2>1 DEF BeginCreate
<1>3. CASE BeginDelete
  BY <1>3 DEF BeginDelete, LockFree
<1>4. CASE CheckExists
  BY <1>4 DEF CheckExists
<1>5. ASSUME NEW dir \in Directories, MakeDirectory(dir)
      PROVE  Built'
  <2>1. pc = dir /\ job # None /\ job.kind = "create" /\ UNCHANGED <<job, artifacts, written>>
    BY <1>5 DEF MakeDirectory, Directories
  <2>2. CASE pc' = "erase"
    BY <2>1, <2>2
  <2>3. CASE pc' # "erase"
    <3>1. /\ ~Exists(dir) /\ pc' = NextOf[dir] /\ todo' = todo
          /\ dir = "runtime" => dirs' = dirs /\ runtime' = runtime \cup {job.config.id}
          /\ dir # "runtime" => dirs' = dirs \cup {dir} /\ runtime' = runtime
      BY <1>5, <2>3, DirectoryStep, DirectoryMade
    <3>2. CASE dir = "vm"
      <4>1. pc' = "logs"
        BY <3>1, <3>2 DEF NextOf
      <4> QED BY <2>1, <3>1, <3>2, <4>1 DEF Exists
    <3>3. CASE dir = "logs"
      <4>1. pc' = "runtime"
        BY <3>1, <3>3 DEF NextOf
      <4>2. dirs' = {"vm", "logs"} /\ files' = {} /\ partial' = {} /\ config' = None
        <5>1. "vm" \in dirs /\ dirs \subseteq {"vm", "logs"} /\ dirs' = dirs \cup {"logs"}
          BY <2>1, <3>1, <3>3
        <5>2. dirs' = {"vm", "logs"}
          BY <5>1
        <5>3. files = {} /\ partial = {} /\ config = None
          BY <2>1, <3>3
        <5> QED BY <2>1, <5>2, <5>3
      <4> QED BY <2>1, <3>1, <3>3, <4>1, <4>2
    <3>4. CASE dir = "runtime"
      <4>1. pc' = "artifacts"
        BY <3>1, <3>4 DEF NextOf
      <4> QED BY <2>1, <3>1, <3>4, <4>1
    <3> QED BY <3>2, <3>3, <3>4 DEF Directories
  <2> QED BY <2>2, <2>3
<1>6. CASE Begin
  <2>1. Targets(todo) = {Target(Step)} \cup Targets(Tail(todo))
    BY <1>6, TargetsOfTail DEF Begin, AtStep, Step
  <2> QED BY <1>6, <2>1 DEF Begin, AtStep, Step
<1>7. CASE Finish
  <2>1. /\ pc = "artifacts" /\ todo \in Seq(ArtifactSteps) /\ todo # <<>>
        /\ Planned(todo) /\ Target(Step) \in partial
        /\ partial' = partial \ {Target(Step)} /\ files' = files \cup {Target(Step)}
        /\ todo' = Tail(todo) /\ UNCHANGED <<tree, config, job, pc>>
    BY <1>7 DEF Finish, AtStep
  <2>2. /\ Targets(todo) = {Target(Step)} \cup Targets(Tail(todo))
        /\ \A file : WillGo(file, todo) => Removes(Step) = file \/ WillGo(file, Tail(todo))
    BY <2>1, TargetsOfTail DEF Step
  <2>3. /\ Planned(Tail(todo))
        /\ Step \in {"staging", "source"} => WillGo(Step, Tail(todo))
    BY <2>1, PlanGoesOn DEF Step
  <2>4. Step \notin {"unstage", "unsource"}
    BY <2>1 DEF Target, Files, Permanent, Temporary
  <2>5. Removes(Step) = None /\ None \notin files
    BY <2>4 DEF Removes
  <2>6. Target(Step) \notin Permanent => Target(Step) = Step /\ Step \in {"staging", "source"}
    BY <2>1, <2>4, Ahead DEF Target, AtStep, ArtifactSteps, Files, Permanent
  <2>7. \A file \in files' \ Permanent : WillGo(file, Tail(todo))
    BY <2>1, <2>2, <2>3, <2>5, <2>6
  <2>8. partial' = {}
    BY <2>1 DEF Step
  <2> QED BY <2>1, <2>2, <2>3, <2>7, <2>8
<1>8. CASE RemoveArtifact
  <2>1. /\ pc = "artifacts" /\ todo \in Seq(ArtifactSteps) /\ todo # <<>>
        /\ Planned(todo) /\ Removes(Step) # None /\ files' = files \ {Removes(Step)}
        /\ todo' = Tail(todo) /\ UNCHANGED <<tree, partial, config, job, pc>>
    BY <1>8 DEF RemoveArtifact, AtStep
  <2>2. /\ Targets(todo) = {Target(Step)} \cup Targets(Tail(todo))
        /\ \A file : WillGo(file, todo) => Removes(Step) = file \/ WillGo(file, Tail(todo))
    BY <2>1, TargetsOfTail DEF Step
  <2>3. Planned(Tail(todo))
    BY <2>1, PlanGoesOn
  <2>4. Step \in {"unstage", "unsource"} /\ Removes(Step) \in {"staging", "source"}
    BY <2>1 DEF Removes
  <2>5. Target(Step) \notin Permanent \cup partial /\ Removes(Step) \notin Permanent
    BY <2>4 DEF Target, Files, Permanent, Temporary
  <2>6. partial = {}
    BY <2>1, <2>5 DEF Step
  <2> QED BY <2>1, <2>2, <2>3, <2>5, <2>6
<1>9. CASE StepFails
  BY <1>9 DEF StepFails, AtStep, Step, Failing
<1>10. CASE ArtifactsDone
  <2>1. /\ pc = "artifacts" /\ todo = <<>> /\ pc' = "temp" /\ job # None /\ job.kind = "create"
        /\ UNCHANGED <<disk, job>>
    BY <1>10 DEF ArtifactsDone
  <2>2. files \subseteq Permanent /\ Permanent \cap files = job.config.needs /\ partial = {}
    BY <2>1, TargetsOfNothing
  <2> QED BY <2>1, <2>2
<1>11. CASE LoadForEdit
  BY <1>11 DEF LoadForEdit, Loadable, Decodes, Jobs
<1>12. CASE LoadForDelete
  BY <1>12 DEF LoadForDelete, Loadable, Decodes, Jobs
<1>13. CASE WriteTemporary
  BY <1>13 DEF WriteTemporary
<1>14. CASE SyncTemporary
  BY <1>14 DEF SyncTemporary
<1>15. CASE Rename
  BY <1>15 DEF Rename
<1>16. CASE SyncDirectory
  BY <1>16 DEF SyncDirectory, Release
<1>17. CASE WriteFails
  BY <1>17 DEF WriteFails, Failing
<1>18. CASE EraseEntry
  BY <1>18 DEF EraseEntry, Erasing
<1>19. ASSUME NEW dir \in Directories, EraseDirectory(dir)
      PROVE  Built'
  BY <1>19 DEF EraseDirectory, Erasing, Directories
<1>20. ASSUME NEW dir \in Directories, EraseFails(dir)
      PROVE  Built'
  BY <1>20 DEF EraseFails, Erasing, Directories
<1>21. CASE Erased
  BY <1>21 DEF Erased
<1>22. CASE End
  BY <1>22 DEF End, Release
<1>23. CASE WatchFires
  BY <1>23 DEF WatchFires
<1>24. ASSUME NEW r \in Readers, Load(r)
      PROVE  Built'
  BY <1>24 DEF Load, Loadable, Decodes
<1>25. ASSUME NEW r \in Readers, Probe(r)
      PROVE  Built'
  BY <1>25 DEF Probe
<1>26. CASE Kill
  BY <1>26 DEF Kill, Killed, Release
<1>27. CASE PowerCut
  BY <1>27 DEF PowerCut, Killed, Release
<1>28. CASE UNCHANGED vars
  BY <1>28 DEF vars
<1> QED BY <1>0, <1>1, <1>2, <1>3, <1>4, <1>5, <1>6, <1>7, <1>8, <1>9, <1>10, <1>11,
     <1>12, <1>13, <1>14, <1>15, <1>16, <1>17, <1>18, <1>19, <1>20, <1>21, <1>22, <1>23,
     <1>24, <1>25, <1>26, <1>27, <1>28 DEF Next, Transaction, Download

\* What can be found stays whole until it is taken away.
LEMMA NextWhole ==
  ASSUME Typed, Course, OnDisk, Built, Whole, [Next]_vars
  PROVE  Whole'
<1>0. Next \/ UNCHANGED vars
  OBVIOUS
<1> USE StoreAssumption
    DEF Typed, TypeOK, Course, OnDisk, Built, Whole, Making, Writing, Steps,
        disk, tree, artifacts, written, origin, process, history
<1>1. ASSUME NEW id \in Ids, BeginEdit(id)
      PROVE  Whole'
  BY <1>1 DEF BeginEdit, LockFree
<1>2. ASSUME NEW id \in Ids, NEW request \in Requests, BeginCreate(id, request)
      PROVE  Whole'
  BY <1>2 DEF BeginCreate, LockFree
<1>3. CASE BeginDelete
  BY <1>3 DEF BeginDelete, LockFree
<1>4. CASE CheckExists
  BY <1>4 DEF CheckExists
<1>5. ASSUME NEW dir \in Directories, MakeDirectory(dir)
      PROVE  Whole'
  <2>1. /\ pc = dir /\ job # None /\ job.kind = "create"
        /\ UNCHANGED <<job, artifacts, written>>
    BY <1>5 DEF MakeDirectory, Directories
  <2>2. dir # "vm" => config = None
    BY <2>1 DEF Directories
  <2>3. dirs \subseteq dirs' /\ runtime \subseteq runtime'
    BY <1>5, DirectoryStep
  <2>4. CASE pc' = "erase"
    <3>1. made' = made /\ todo' = Reverse(made) /\ gutted' = gutted \cup {job.config.id}
      BY <1>5, <2>1, <2>4, DirectoryStep DEF NextOf, Directories
    <3>2. dir = "vm" => todo' = <<>>
      BY <2>1, <3>1, NothingMade
    <3>3. dirs' \subseteq {"vm", "logs"}
      BY <1>5, DirectoryStep
    <3>4. UNCHANGED <<job, files, partial, config, afterCut, temp>>
      BY <2>1
    <3>5. "vm" \notin dirs' => files' = {} /\ partial' = {}
      BY <2>3, <3>4
    <3>6. config' # None /\ config'.id \notin gutted' =>
            /\ dirs' = {"vm", "logs"} /\ config'.id \in runtime'
            /\ files' = config'.needs /\ partial' \subseteq {Temporary}
      BY <2>3, <3>1, <3>3, <3>4
    <3>7. todo' # <<>> => config' = None
      BY <2>2, <3>2, <3>4
    <3>8. pc \notin Writing /\ temp = None
      BY <2>1 DEF Directories
    <3> QED BY <2>1, <2>4, <3>1, <3>4, <3>5, <3>6, <3>7, <3>8
  <2>5. CASE pc' # "erase"
    <3>1. /\ ~Exists(dir) /\ Made(dir) /\ pc' = NextOf[dir] /\ gutted' = gutted
      BY <1>5, <2>5, DirectoryStep
    <3>2. config = None
      BY <2>1, <2>2, <3>1 DEF Exists
    <3>3. NextOf[dir] \in {"logs", "runtime", "artifacts"}
      BY DEF NextOf, Directories
    <3>4. "vm" \in dirs'
      BY <2>1, <2>3, <3>1, DirectoryMade DEF Directories
    <3> QED BY <2>1, <3>1, <3>2, <3>3, <3>4 DEF Directories
  <2> QED BY <2>4, <2>5
<1>6. CASE Begin
  BY <1>6 DEF Begin, AtStep, Step
<1>7. CASE Finish
  BY <1>7 DEF Finish, AtStep, Step
<1>8. CASE RemoveArtifact
  BY <1>8 DEF RemoveArtifact, AtStep, Step
<1>9. CASE StepFails
  BY <1>9 DEF StepFails, AtStep, Step, Failing
<1>10. CASE ArtifactsDone
  BY <1>10 DEF ArtifactsDone
<1>11. CASE LoadForEdit
  BY <1>11 DEF LoadForEdit, Loadable, Decodes, Jobs, Configs
<1>12. CASE LoadForDelete
  BY <1>12 DEF LoadForDelete, Loadable, Decodes, Jobs
<1>13. CASE WriteTemporary
  BY <1>13 DEF WriteTemporary
<1>14. CASE SyncTemporary
  BY <1>14 DEF SyncTemporary
<1>15. CASE Rename
  BY <1>15 DEF Rename
<1>16. CASE SyncDirectory
  <2>1. config \in Configs /\ UNCHANGED <<tree, artifacts, config, temp, gutted>>
    BY <1>16 DEF SyncDirectory
  <2>2. afterCut' = {config} /\ job' = None /\ pc' = "idle" /\ pc = "dirsync"
    BY <1>16 DEF SyncDirectory, Release
  <2>3. temp' = None
    BY <2>1, <2>2
  <2> QED BY <2>1, <2>2, <2>3
<1>17. CASE WriteFails
  BY <1>17 DEF WriteFails, Failing
<1>18. CASE EraseEntry
  BY <1>18 DEF EraseEntry, Erasing
<1>19. ASSUME NEW dir \in Directories, EraseDirectory(dir)
      PROVE  Whole'
  BY <1>19 DEF EraseDirectory, Erasing, Directories
<1>20. ASSUME NEW dir \in Directories, EraseFails(dir)
      PROVE  Whole'
  BY <1>20 DEF EraseFails, Erasing, Directories
<1>21. CASE Erased
  BY <1>21 DEF Erased
<1>22. CASE End
  BY <1>22 DEF End, Release
<1>23. CASE WatchFires
  BY <1>23 DEF WatchFires
<1>24. ASSUME NEW r \in Readers, Load(r)
      PROVE  Whole'
  BY <1>24 DEF Load, Loadable, Decodes
<1>25. ASSUME NEW r \in Readers, Probe(r)
      PROVE  Whole'
  BY <1>25 DEF Probe
<1>26. CASE Kill
  BY <1>26 DEF Kill, Killed, Release
<1>27. CASE PowerCut
  BY <1>27 DEF PowerCut, Killed, Release
<1>28. CASE UNCHANGED vars
  BY <1>28 DEF vars
<1> QED BY <1>0, <1>1, <1>2, <1>3, <1>4, <1>5, <1>6, <1>7, <1>8, <1>9, <1>10, <1>11,
     <1>12, <1>13, <1>14, <1>15, <1>16, <1>17, <1>18, <1>19, <1>20, <1>21, <1>22, <1>23,
     <1>24, <1>25, <1>26, <1>27, <1>28 DEF Next, Transaction, Download

-----------------------------------------------------------------------------
(* The theorems. *)

\* Nothing is there at first.
LEMMA InitIInv == Init => IInv
<1> SUFFICES ASSUME Init PROVE IInv
  OBVIOUS
<1> USE StoreAssumption DEF Init
<1>1. Typed
  BY DEF Typed, TypeOK, Making, Steps
<1>2. Course /\ OnDisk /\ Promise /\ Undo
  BY DEF Course, OnDisk, Promise, Undo, Making, Writing
<1>3. Built /\ Whole
  BY DEF Built, Whole, Making, Writing
<1> QED BY <1>1, <1>2, <1>3 DEF IInv

\* The parts are inductive together.
LEMMA InvAlways == Spec => []IInv
<1>1. IInv /\ [Next]_vars => IInv'
  BY NextTyped, NextCourse, NextOnDisk, NextPromise, NextUndo, NextBuilt, NextWhole DEF IInv
<1> QED BY InitIInv, <1>1, PTL DEF Spec

\* Every variable keeps its type, and only a process with a transaction is at work.
THEOREM TypeCorrect == Spec => []TypeOK
<1>1. IInv => TypeOK
  BY DEF IInv, Typed
<1> QED BY InvAlways, <1>1, PTL

\* A config.json that can be read stands for a whole VM, through failures, kills and power
\* cuts: writeConfigAtomic comes last in a create, and a removal is known to have begun.
THEOREM ConfigIsWhole == Spec => []ConfigMeansWhole
<1>1. IInv => ConfigMeansWhole
  BY DEF IInv, OnDisk, Whole, ConfigMeansWhole
<1> QED BY InvAlways, <1>1, PTL

\* A create that fails gives the name back as it found it, but for the directories that
\* could not be removed and one that it made and did not accept (store.go, Create and
\* createOwnedDirectory).
THEOREM FailedCreateIsUndone == Spec => []FailedCreateRestores
<1>1. IInv => FailedCreateRestores
  BY DEF IInv, Undo, FailedCreateRestores
<1> QED BY InvAlways, <1>1, PTL

\* What a create or an edit has reported as saved stays saved until a delete begins, or
\* makes way for what a later command has tried to save.
THEOREM PromiseIsKept == Spec => []PromiseSurvives
<1>1. IInv => PromiseSurvives
  BY DEF IInv, Promise, PromiseSurvives
<1> QED BY InvAlways, <1>1, PTL
=============================================================================

--------------------------- MODULE CreateVerbProofs ---------------------------
(***************************************************************************)
(* Proofs about CreateVerb, with and without interrupts and other          *)
(* commands: what a finished create has recorded and left behind.          *)
(***************************************************************************)
EXTENDS CreateVerb, TLAPS

(* The command is over exactly when it has an outcome. *)
OutcomeAtEnd == pc = "ended" <=> outcome # "none"

(* Where the intermediate container runs.  docker.stop that did nothing    *)
(* (stuck) leaves one more.                                                *)
ContainerAt ==
    /\ pc \in {"build", "building", "container", "again", "permissions", "setup", "rocker"} =>
          args.docker
    /\ ~args.docker => inter = 0
    /\ pc \in {"name", "folder", "clone", "upstream", "existing", "checks", "build",
               "building", "container"} => inter = 0
    /\ pc = "commands" /\ args.docker => inter = 1
    /\ pc \in {"ask", "again"} => inter = 0 \/ (inter = 1 /\ stuck)
    /\ pc \in {"permissions", "setup"} => inter = 1 \/ (inter = 2 /\ stuck)
    /\ pc \in {"rocker", "record up", "record main", "remove"} => inter = 0 \/ stuck

(* The name whose entry the update at hand stores. *)
Stores(w) == w = IF pc = "record up" THEN "up" ELSE "main"

(* When the two entries of the command can be in workspaces.yaml, and in   *)
(* what an update has loaded of it.                                        *)
EntriesAt ==
    /\ config["main"] = "ours" => pc \in {"remove", "ended"}
    /\ config["up"] = "ours" => pc \in {"record main", "remove", "ended"}
    /\ upd # "load" => \/ pc = "existing" /\ args.existing
                       \/ pc = "record up" /\ hasUp
                       \/ pc = "record main"
    /\ pc = "record main" /\ hasUp /\ ~dropped =>
          config["up"] = "ours" /\ (upd # "load" => loaded["up"] = "ours")
    /\ pc = "remove" => args.standalone
    /\ pc = "remove" /\ ~dropped => config["main"] = "ours" /\ (hasUp => config["up"] = "ours")
    /\ BothOrNeither

(* What an update has loaded and backed up: the name it stores was free,   *)
(* and an entry of another command is missing only if it came later.       *)
LoadedAt ==
    /\ loaded["main"] # "ours"
    /\ loaded["up"] = "ours" => pc = "record main"
    /\ \A w \in Ws :
          /\ upd # "load" /\ Stores(w) => loaded[w] = "none"
          /\ upd # "load" /\ config[w] = "theirs" /\ stored[w] = "load" => loaded[w] = "theirs"
          /\ upd = "save" /\ config[w] = "theirs" /\ stored[w] # "save" => backup[w] = "theirs"

(* The folder stays from its creation to the end, and the image that       *)
(* rocker and the entry refer to has been committed.                       *)
HomeAt ==
    /\ pc \notin {"name", "folder", "ended"} => "dir" \in folder["main"]
    /\ pc \in {"rocker", "record up", "record main", "remove"} /\ args.docker =>
          image = "committed"
    /\ EntryHasHome

(* The answer no ends the command. *)
DeclinedAt == (said = "no" => pc = "ended") /\ DeclinedLeavesNothing

(* Nothing in folder w that create is to spare is gone. *)
Kept(w) == Spared(w) \subseteq folder[w]

(* Where the user's files are still all there.  Nothing says whether the   *)
(* upstream folder is ours before the clone has been looked at.            *)
FilesAt ==
    /\ pc # "ended" => Kept("main")
    /\ pc \in {"name", "folder", "clone", "upstream"} => ~hasUp /\ Kept("up")
    /\ pc # "ended" /\ hasUp => Kept("up")
    /\ OwnFilesKept

CreateInv ==
    /\ TypeOK /\ OutcomeAtEnd /\ ContainerAt /\ NoContainerLeft /\ EntriesAt /\ LoadedAt
    /\ HomeAt /\ CertificateRemoved /\ DeclinedAt /\ FilesAt

(* A step goes to a step, and ends with an outcome. *)
LEMMA ControlType ==
    ASSUME TypeOK, [Next]_vars
    PROVE  /\ pc' \in Step /\ endedAt' \in Step
           /\ outcome' \in {"none", "returned", "raised", "exited", "interrupted"}
<1> USE DEF Goto, End, EndEarly, docker, files, input, store
<1>1. pc \in Step /\ endedAt \in Step /\ outcome \in {"none", "returned", "raised",
   "exited", "interrupted"}
  BY DEF TypeOK
<1>2. CASE AddExisting \/ RecordUpstream \/ RecordMain
  BY <1>1, <1>2 DEF Step, Update, AddExisting, RecordUpstream, RecordMain
<1>3. CASE CheckName \/ MakeFolder \/ CloneRepos \/ UpstreamRepos \/ Checks \/
   PrepareBuild \/ PrepareFails \/ BuildSucceeds \/ BuildFails \/ BuildRaises \/
   RunIntermediate \/ RunCommands \/ KeepFailed \/ DeleteFailed \/ FixPermissions \/
   SetupImage \/ RunRocker \/ RemoveLocalFiles \/ Interrupt \/ OtherSaves
  BY <1>1, <1>3 DEF Step, CheckName, MakeFolder, CloneRepos, UpstreamRepos, Checks,
     PrepareBuild, PrepareFails, BuildSucceeds, BuildFails, BuildRaises,
     RunIntermediate, RunCommands, KeepFailed, DeleteFailed, FixPermissions, SetupImage,
     RunRocker, RemoveLocalFiles, Interrupt, OtherSaves
<1>4. CASE UNCHANGED vars
  BY <1>1, <1>4 DEF Step, vars
<1>5. QED
  BY <1>2, <1>3, <1>4 DEF Next, Done

(* docker_stop takes one container away, or is stuck. *)
LEMMA StopCount ==
    ASSUME StopIntermediate
    PROVE  /\ inter = 1 => (inter' = 0 /\ stuck' = stuck) \/ (inter' = 1 /\ stuck' = TRUE)
           /\ inter = 2 => (inter' = 1 /\ stuck' = stuck) \/ (inter' = 2 /\ stuck' = TRUE)
BY DEF StopIntermediate

(* The docker variables have their types, *)
LEMMA DockerTyped ==
    ASSUME TypeOK
    PROVE  /\ inter \in {0, 1, 2} /\ stuck \in BOOLEAN
           /\ image \in {"none", "foreign", "built", "committed"}
           /\ ctr \in {"none", "foreign", "ours"}
<1>1. inter \in 0..2
  BY DEF TypeOK
<1>2. inter \in {0, 1, 2}
  BY <1>1
<1>3. stuck \in BOOLEAN
  BY DEF TypeOK
<1>4. image \in {"none", "foreign", "built", "committed"} /\ ctr \in {"none", "foreign", "ours"}
  BY DEF TypeOK
<1>5. QED
  BY <1>2, <1>3, <1>4

(* and keep them; at most two containers run.                         *)
LEMMA DockerType ==
    ASSUME TypeOK, ContainerAt, [Next]_vars
    PROVE  /\ inter' \in {0, 1, 2} /\ stuck' \in BOOLEAN
           /\ image' \in {"none", "foreign", "built", "committed"}
           /\ ctr' \in {"none", "foreign", "ours"}
<1> USE DEF Goto, End, EndEarly, docker, files, input, store
<1>1. inter \in {0, 1, 2} /\ stuck \in BOOLEAN /\ image \in {"none", "foreign", "built",
   "committed"} /\ ctr \in {"none", "foreign", "ours"}
  BY DockerTyped
<1>2. CASE PrepareFails
  BY <1>1, <1>2 DEF ContainerAt, DeleteDocker, PrepareFails
<1>3. CASE BuildSucceeds
  BY <1>1, <1>3 DEF ContainerAt, BuildSucceeds
<1>4. CASE BuildFails
  BY <1>1, <1>4 DEF ContainerAt, DeleteDocker, BuildFails
<1>5. CASE BuildRaises
  BY <1>1, <1>5 DEF ContainerAt, BuildRaises
<1>6. CASE RunIntermediate
  <2>1. inter = 0 \/ inter = 1
    BY <1>6 DEF ContainerAt, RunIntermediate
  <2>2. inter' \in {0, 1, 2}
    BY <1>6, <2>1 DEF RunIntermediate
  <2>3. QED
    BY <1>1, <1>6, <2>2 DEF RunIntermediate
<1>7. CASE RunCommands
  BY <1>1, <1>7, StopCount DEF ContainerAt, RunCommands
<1>8. CASE DeleteFailed
  BY <1>1, <1>8 DEF ContainerAt, DeleteDocker, DeleteFailed
<1>9. CASE FixPermissions
  BY <1>1, <1>9, StopCount DEF ContainerAt, FixPermissions
<1>10. CASE SetupImage
  BY <1>1, <1>10, StopCount DEF ContainerAt, SetupImage
<1>11. CASE RunRocker
  BY <1>1, <1>11 DEF ContainerAt, RunRocker
<1>12. CASE CheckName \/ MakeFolder \/ CloneRepos \/ UpstreamRepos \/ AddExisting \/
   Checks \/ PrepareBuild \/ KeepFailed \/ RecordUpstream \/ RecordMain \/
   RemoveLocalFiles \/ Interrupt \/ OtherSaves
  BY <1>1, <1>12 DEF ContainerAt, CheckName, MakeFolder, CloneRepos, UpstreamRepos,
     AddExisting, Checks, PrepareBuild, KeepFailed, RecordUpstream, RecordMain,
     RemoveLocalFiles, Interrupt, OtherSaves
<1>13. CASE UNCHANGED vars
  BY <1>1, <1>13 DEF ContainerAt, vars
<1>14. QED
  BY <1>2, <1>3, <1>4, <1>5, <1>6, <1>7, <1>8, <1>9, <1>10, <1>11, <1>12, <1>13 DEF
     Next, Done

(* The removals take folders or things out of folders. *)
LEMMA RemovalType ==
    ASSUME NEW f \in [Ws -> SUBSET Item], DeleteFolders(f) \/ DeleteFoldersFails(f) \/ RmtreeFails(f)
    PROVE  folder' \in [Ws -> SUBSET Item]
<1>1. CASE DeleteFolders(f)
  BY <1>1 DEF DeleteFolders
<1>2. CASE RmtreeFails(f)
  BY <1>2 DEF RmtreeFails, Ws, Item
<1>3. QED
  BY <1>1, <1>2 DEF DeleteFoldersFails

(* The Dockerfile of create replaces at most that of the user. *)
LEMMA DockerfileType ==
    ASSUME folder \in [Ws -> SUBSET Item]
    PROVE  /\ WithDockerfile \in [Ws -> SUBSET Item]
           /\ WithDockerfile["up"] = folder["up"]
           /\ folder["main"] \ {"dockerfile"} \subseteq WithDockerfile["main"]
BY DEF WithDockerfile, Ws, Item

(* A folder is a set of items. *)
LEMMA FolderType ==
    ASSUME TypeOK, [Next]_vars
    PROVE  folder' \in [Ws -> SUBSET Item]
<1> USE DEF Goto, End, EndEarly, docker, files, input, store
<1>1. folder \in [Ws -> SUBSET Item]
  BY DEF TypeOK
<1>2. CASE MakeFolder
  BY <1>1, <1>2 DEF Ws, Item, MakeFolder, Put
<1>3. CASE CloneRepos
  BY <1>1, <1>3 DEF Ws, Item, CloneRepos, Put
<1>4. CASE UpstreamRepos
  BY <1>1, <1>4 DEF Ws, Item, UpstreamRepos, Put, InSrc
<1>5. CASE PrepareBuild
  BY <1>1, <1>5, DockerfileType DEF Ws, Item, PrepareBuild
<1>6. CASE PrepareFails
  <2>1. PICK f \in {folder, WithDockerfile} : DeleteFolders(f) \/ DeleteFoldersFails(f)
    BY <1>6 DEF PrepareFails
  <2>2. QED
    BY <1>1, <2>1, DockerfileType, RemovalType
<1>7. CASE BuildFails
  BY <1>1, <1>7, RemovalType DEF Ws, Item, BuildFails
<1>8. CASE RunCommands
  BY <1>1, <1>8 DEF Ws, Item, RunCommands, Compiled
<1>9. CASE DeleteFailed
  BY <1>1, <1>9, RemovalType DEF Ws, Item, DeleteFailed
<1>10. CASE RemoveLocalFiles
  BY <1>1, <1>10, RemovalType DEF Ws, Item, RemoveLocalFiles
<1>11. CASE CheckName \/ AddExisting \/ Checks \/ BuildSucceeds \/ BuildRaises \/
   RunIntermediate \/ KeepFailed \/ FixPermissions \/ SetupImage \/ RunRocker \/
   RecordUpstream \/ RecordMain \/ Interrupt \/ OtherSaves
  BY <1>1, <1>11 DEF Ws, Item, CheckName, AddExisting, Checks, BuildSucceeds,
     BuildRaises, RunIntermediate, KeepFailed, FixPermissions, SetupImage, RunRocker,
     RecordUpstream, RecordMain, Interrupt, OtherSaves
<1>12. CASE UNCHANGED vars
  BY <1>1, <1>12 DEF Ws, Item, vars
<1>13. QED
  BY <1>2, <1>3, <1>4, <1>5, <1>6, <1>7, <1>8, <1>9, <1>10, <1>11, <1>12 DEF Next, Done

(* The copies of the file keep their types, *)
StoreTyped ==
    /\ upd \in {"load", "back up", "save"} /\ dropped \in BOOLEAN
    /\ config \in [Ws -> {"none", "ours", "theirs"}]
    /\ loaded \in [Ws -> {"none", "ours", "theirs"}]
    /\ backup \in [Ws -> {"none", "ours", "theirs"}]
    /\ stored \in [Ws -> {"load", "back up", "save"}]

(* in each step of an update                                               *)
LEMMA UpdateType ==
    ASSUME StoreTyped, NEW w \in Ws, Load(w) \/ BackUp \/ Save(w) \/ BreakOff
    PROVE  StoreTyped'
<1>1. CASE Load(w)
  BY <1>1 DEF StoreTyped, Load
<1>2. CASE BackUp
  BY <1>2 DEF StoreTyped, BackUp
<1>3. CASE Save(w)
  BY <1>3 DEF StoreTyped, Save, Forget, NoEntries
<1>4. CASE BreakOff
  <2>1. NoEntries \in [Ws -> {"none", "ours", "theirs"}]
    BY DEF NoEntries
  <2>2. config' = config \/ config' = NoEntries
    BY <1>4 DEF BreakOff
  <2>3. /\ upd' = "load" /\ dropped' = dropped /\ loaded' = NoEntries /\ backup' = NoEntries
        /\ stored' = [v \in Ws |-> "load"]
    BY <1>4 DEF BreakOff, Forget
  <2>4. QED
    BY <2>1, <2>2, <2>3 DEF StoreTyped
<1>5. QED
  BY <1>1, <1>2, <1>3, <1>4

(* and of the command.                                                     *)
LEMMA StoreType ==
    ASSUME TypeOK, [Next]_vars
    PROVE  StoreTyped'
<1> USE DEF Goto, End, EndEarly, docker, files, input, store
<1>1. StoreTyped
  BY DEF StoreTyped, TypeOK
<1>2. CASE AddExisting
  BY <1>1, <1>2, UpdateType DEF StoreTyped, Update, Ws, AddExisting
<1>3. CASE RecordUpstream
  BY <1>1, <1>3, UpdateType DEF StoreTyped, Update, Ws, RecordUpstream
<1>4. CASE RecordMain
  BY <1>1, <1>4, UpdateType DEF StoreTyped, Update, Ws, RecordMain
<1>5. CASE Interrupt
  BY <1>1, <1>5, UpdateType DEF Interrupt, Ws
<1>6. CASE OtherSaves
  <2>1. UNCHANGED <<upd, loaded, backup>>
    BY <1>6 DEF OtherSaves
  <2>2. PICK copy \in [Ws -> {"none", "ours", "theirs"}], new \in SUBSET Ws :
           /\ config' = [w \in Ws |-> IF w \in new THEN "theirs" ELSE copy[w]]
           /\ stored' = [w \in Ws |-> IF w \in new THEN upd ELSE stored[w]]
    <3>1. PICK older \in {{}, {"main"}, Ws} :
            LET copy == [w \in Ws |-> IF w \in older /\ config[w] = "ours" THEN "none"
                                      ELSE config[w]]
            IN  \E new \in SUBSET {w \in Ws : copy[w] = "none"} :
                   /\ config' = [w \in Ws |-> IF w \in new THEN "theirs" ELSE copy[w]]
                   /\ stored' = [w \in Ws |-> IF w \in new THEN upd ELSE stored[w]]
      BY <1>6 DEF OtherSaves
    <3> DEFINE copy == [w \in Ws |-> IF w \in older /\ config[w] = "ours" THEN "none"
                                     ELSE config[w]]
    <3>2. copy \in [Ws -> {"none", "ours", "theirs"}]
      BY <1>1 DEF StoreTyped
    <3>3. PICK new \in SUBSET {w \in Ws : copy[w] = "none"} :
            /\ config' = [w \in Ws |-> IF w \in new THEN "theirs" ELSE copy[w]]
            /\ stored' = [w \in Ws |-> IF w \in new THEN upd ELSE stored[w]]
      BY <3>1
    <3> HIDE DEF copy
    <3>4. new \in SUBSET Ws
      OBVIOUS
    <3>5. QED
      BY <3>2, <3>3, <3>4
  <2>3. dropped' \in BOOLEAN
    BY <1>1, <1>6 DEF StoreTyped, OtherSaves
  <2>4. QED
    BY <1>1, <2>1, <2>2, <2>3 DEF StoreTyped
<1>7. CASE CheckName \/ MakeFolder \/ CloneRepos \/ UpstreamRepos \/ Checks \/
   PrepareBuild \/ PrepareFails \/ BuildSucceeds \/ BuildFails \/ BuildRaises \/
   RunIntermediate \/ RunCommands \/ KeepFailed \/ DeleteFailed \/ FixPermissions \/
   SetupImage \/ RunRocker \/ RemoveLocalFiles
  BY <1>1, <1>7 DEF StoreTyped, CheckName, MakeFolder, CloneRepos, UpstreamRepos,
     Checks, PrepareBuild, PrepareFails, BuildSucceeds, BuildFails, BuildRaises,
     RunIntermediate, RunCommands, KeepFailed, DeleteFailed, FixPermissions, SetupImage,
     RunRocker, RemoveLocalFiles
<1>8. CASE UNCHANGED vars
  BY <1>1, <1>8 DEF StoreTyped, vars
<1>9. QED
  BY <1>2, <1>3, <1>4, <1>5, <1>6, <1>7, <1>8 DEF Next, Done

(* The other variables keep their types. *)
LEMMA RestType ==
    ASSUME TypeOK, [Next]_vars
    PROVE  /\ args' \in Flags /\ hasUp' \in BOOLEAN /\ cert' \in BOOLEAN /\ denied' \in BOOLEAN
           /\ before' \in [Ws -> SUBSET Item] /\ said' \in {"nothing", "yes", "no", "cancel"}
<1> USE DEF Goto, End, EndEarly, docker, files, input, store
<1>1. /\ args \in Flags /\ hasUp \in BOOLEAN /\ cert \in BOOLEAN /\ denied \in BOOLEAN
      /\ before \in [Ws -> SUBSET Item] /\ said \in {"nothing", "yes", "no", "cancel"}
      /\ args.cert \in BOOLEAN
  BY DEF TypeOK, Flags
<1>2. CASE UpstreamRepos
  BY <1>1, <1>2 DEF UpstreamRepos
<1>3. CASE PrepareBuild
  BY <1>1, <1>3 DEF PrepareBuild
<1>4. CASE CheckName \/ MakeFolder \/ CloneRepos \/ AddExisting \/ Checks \/
   PrepareFails \/ BuildSucceeds \/ BuildFails \/ BuildRaises \/ RunIntermediate \/
   RunCommands \/ KeepFailed \/ DeleteFailed \/ FixPermissions \/ SetupImage \/
   RunRocker \/ RecordUpstream \/ RecordMain \/ RemoveLocalFiles \/ Interrupt \/
   OtherSaves
  BY <1>1, <1>4 DEF CheckName, MakeFolder, CloneRepos, AddExisting, Checks,
     PrepareFails, BuildSucceeds, BuildFails, BuildRaises, RunIntermediate, RunCommands,
     KeepFailed, DeleteFailed, FixPermissions, SetupImage, RunRocker, RecordUpstream,
     RecordMain, RemoveLocalFiles, Interrupt, OtherSaves
<1>5. CASE UNCHANGED vars
  BY <1>1, <1>5 DEF vars
<1>6. QED
  BY <1>2, <1>3, <1>4, <1>5 DEF Next, Done

(* Every step keeps the types. *)
LEMMA TypeStep ==
    ASSUME TypeOK, ContainerAt, [Next]_vars
    PROVE  TypeOK'
<1>1. inter' \in 0..2
  BY DockerType
<1>2. QED
  BY <1>1, ControlType, DockerType, FolderType, StoreType, RestType DEF StoreTyped, TypeOK

(* An outcome is set by the step that ends the command, and by no other. *)
LEMMA OutcomeStep ==
    ASSUME OutcomeAtEnd, [Next]_vars
    PROVE  OutcomeAtEnd'
<1> USE DEF Goto, End, EndEarly, docker, files, input, store
<1>2. CASE AddExisting \/ RecordUpstream \/ RecordMain
  BY <1>2 DEF OutcomeAtEnd, Update, AddExisting, RecordUpstream, RecordMain
<1>3. CASE CheckName \/ MakeFolder \/ CloneRepos \/ UpstreamRepos \/ Checks \/
   PrepareBuild \/ PrepareFails \/ BuildSucceeds \/ BuildFails \/ BuildRaises \/
   RunIntermediate \/ RunCommands \/ KeepFailed \/ DeleteFailed \/ FixPermissions \/
   SetupImage \/ RunRocker \/ RemoveLocalFiles \/ Interrupt \/ OtherSaves
  BY <1>3 DEF OutcomeAtEnd, CheckName, MakeFolder, CloneRepos, UpstreamRepos, Checks,
     PrepareBuild, PrepareFails, BuildSucceeds, BuildFails, BuildRaises,
     RunIntermediate, RunCommands, KeepFailed, DeleteFailed, FixPermissions, SetupImage,
     RunRocker, RemoveLocalFiles, Interrupt, OtherSaves
<1>4. CASE UNCHANGED vars
  BY <1>4 DEF OutcomeAtEnd, vars
<1>5. QED
  BY <1>2, <1>3, <1>4 DEF Next, Done

(* Containers are started and stopped where ContainerAt says. *)
LEMMA ContainerStep ==
    ASSUME TypeOK, ContainerAt, [Next]_vars
    PROVE  ContainerAt'
<1> USE DEF Goto, End, EndEarly, docker, files, input, store
<1>1. inter \in {0, 1, 2} /\ stuck \in BOOLEAN /\ args.docker \in BOOLEAN
  BY DockerTyped DEF TypeOK, Flags
<1>2. CASE Checks
  BY <1>1, <1>2 DEF ContainerAt, Checks
<1>3. CASE PrepareBuild
  BY <1>1, <1>3 DEF ContainerAt, PrepareBuild
<1>4. CASE PrepareFails
  BY <1>1, <1>4 DEF ContainerAt, DeleteDocker, PrepareFails
<1>5. CASE BuildSucceeds
  BY <1>1, <1>5 DEF ContainerAt, BuildSucceeds
<1>6. CASE BuildFails
  BY <1>1, <1>6 DEF ContainerAt, DeleteDocker, BuildFails
<1>7. CASE RunIntermediate
  <2>1. args.docker /\ UNCHANGED <<args, stuck>>
    BY <1>7 DEF ContainerAt, RunIntermediate
  <2>2. (pc = "container" /\ inter = 0) \/ (pc = "again" /\ (inter = 0 \/ (inter = 1 /\ stuck)))
    BY <1>7 DEF ContainerAt, RunIntermediate
  <2>3. CASE pc' = "ended"
    BY <2>1, <2>3 DEF ContainerAt
  <2>4. CASE pc' # "ended"
    <3>1. (inter = 0 => inter' = 1) /\ (inter = 1 => inter' = 2)
      BY <1>7, <2>4 DEF RunIntermediate
    <3>2. pc' = IF pc = "again" THEN "permissions" ELSE "commands"
      BY <1>7, <2>4 DEF RunIntermediate
    <3>3. QED
      BY <2>1, <2>2, <3>1, <3>2 DEF ContainerAt
  <2>5. QED
    BY <2>3, <2>4
<1>8. CASE RunCommands
  BY <1>1, <1>8, StopCount DEF ContainerAt, RunCommands
<1>9. CASE KeepFailed
  BY <1>1, <1>9 DEF ContainerAt, KeepFailed
<1>10. CASE DeleteFailed
  BY <1>1, <1>10 DEF ContainerAt, DeleteDocker, DeleteFailed
<1>11. CASE FixPermissions
  BY <1>1, <1>11, StopCount DEF ContainerAt, FixPermissions
<1>12. CASE SetupImage
  BY <1>1, <1>12, StopCount DEF ContainerAt, SetupImage
<1>13. CASE RunRocker
  BY <1>1, <1>13 DEF ContainerAt, RunRocker
<1>14. CASE AddExisting \/ RecordUpstream \/ RecordMain
  BY <1>1, <1>14 DEF ContainerAt, Update, AddExisting, RecordUpstream, RecordMain
<1>15. CASE CheckName \/ MakeFolder \/ CloneRepos \/ UpstreamRepos \/ BuildRaises \/
   RemoveLocalFiles \/ Interrupt \/ OtherSaves
  BY <1>1, <1>15 DEF ContainerAt, CheckName, MakeFolder, CloneRepos, UpstreamRepos,
     BuildRaises, RemoveLocalFiles, Interrupt, OtherSaves
<1>16. CASE UNCHANGED vars
  BY <1>1, <1>16 DEF ContainerAt, vars
<1>17. QED
  BY <1>2, <1>3, <1>4, <1>5, <1>6, <1>7, <1>8, <1>9, <1>10, <1>11, <1>12, <1>13, <1>14,
     <1>15, <1>16 DEF Next, Done

(* No way out leaves a container but those that NoContainerLeft names. *)
LEMMA LeftStep ==
    ASSUME TypeOK, ContainerAt, NoContainerLeft, [Next]_vars
    PROVE  NoContainerLeft'
<1> USE DEF Goto, End, EndEarly, docker, files, input, store
<1>1. inter \in {0, 1, 2} /\ stuck \in BOOLEAN
  BY DockerTyped
<1>2. CASE PrepareFails \/ BuildFails
  BY <1>1, <1>2 DEF ContainerAt, NoContainerLeft, DeleteDocker, PrepareFails, BuildFails
<1>3. CASE RunIntermediate
  <2>1. CASE pc' # "ended"
    BY <2>1 DEF NoContainerLeft
  <2>2. CASE pc' = "ended"
    <3>1. inter' = inter /\ stuck' = stuck
      BY <1>3, <2>2 DEF RunIntermediate
    <3>2. inter = 0 \/ stuck
      BY <1>3 DEF ContainerAt, RunIntermediate
    <3>3. QED
      BY <3>1, <3>2 DEF NoContainerLeft
  <2>3. QED
    BY <2>1, <2>2
<1>4. CASE RunCommands
  BY <1>1, <1>4, StopCount DEF ContainerAt, NoContainerLeft, RunCommands
<1>5. CASE DeleteFailed
  BY <1>1, <1>5 DEF ContainerAt, NoContainerLeft, DeleteDocker, DeleteFailed
<1>6. CASE FixPermissions
  BY <1>1, <1>6, StopCount DEF ContainerAt, NoContainerLeft, FixPermissions
<1>7. CASE SetupImage
  BY <1>1, <1>7, StopCount DEF ContainerAt, NoContainerLeft, SetupImage
<1>8. CASE RunRocker
  BY <1>1, <1>8 DEF ContainerAt, NoContainerLeft, RunRocker
<1>9. CASE Interrupt
  BY <1>1, <1>9 DEF ContainerAt, NoContainerLeft, Interrupt
<1>10. CASE AddExisting \/ RecordUpstream \/ RecordMain
  BY <1>1, <1>10 DEF ContainerAt, NoContainerLeft, Update, AddExisting, RecordUpstream,
     RecordMain
<1>11. CASE CheckName \/ MakeFolder \/ CloneRepos \/ UpstreamRepos \/ Checks \/
   PrepareBuild \/ BuildSucceeds \/ BuildRaises \/ KeepFailed \/ RemoveLocalFiles \/
   OtherSaves
  BY <1>1, <1>11 DEF ContainerAt, NoContainerLeft, CheckName, MakeFolder, CloneRepos,
     UpstreamRepos, Checks, PrepareBuild, BuildSucceeds, BuildRaises, KeepFailed,
     RemoveLocalFiles, OtherSaves
<1>12. CASE UNCHANGED vars
  BY <1>1, <1>12 DEF ContainerAt, NoContainerLeft, vars
<1>13. QED
  BY <1>2, <1>3, <1>4, <1>5, <1>6, <1>7, <1>8, <1>9, <1>10, <1>11, <1>12 DEF Next, Done

(* An update of the file, as far as its entries go. *)
LEMMA UpdateEntries ==
    ASSUME TypeOK, NEW w \in Ws, Save(w)
    PROVE  /\ config'[w] = "ours" /\ \A v \in Ws \ {w} : config'[v] = loaded[v]
           /\ upd' = "load" /\ dropped' = dropped
           /\ \A v \in Ws : loaded'[v] = "none"
BY DEF TypeOK, Save, Forget, NoEntries

(* A broken update stores nothing. *)
LEMMA BrokenEntries ==
    ASSUME BreakOff
    PROVE  /\ \A v \in Ws : config'[v] \in {config[v], "none"}
           /\ upd = "load" => config' = config
           /\ upd' = "load" /\ dropped' = dropped
           /\ \A v \in Ws : loaded'[v] = "none"
           /\ config' # config => upd = "save" /\ config' = NoEntries
BY DEF BreakOff, Forget, NoEntries

(* A save of another command stores none of our entries, and is known to   *)
(* have dropped those that it does not keep; theirs it keeps.              *)
LEMMA OthersEntries ==
    ASSUME TypeOK, OtherSaves
    PROVE  /\ \A v \in Ws : config'[v] = "ours" => config[v] = "ours"
           /\ \A v \in Ws : config[v] = "ours" => config'[v] = "ours" \/ dropped'
           /\ dropped => dropped'
           /\ \A v \in Ws : config[v] = "theirs" => config'[v] = "theirs"
           /\ \A v \in Ws : config'[v] = "theirs" => stored'[v] = upd
                            \/ (config[v] = "theirs" /\ stored'[v] = stored[v])
           /\ pc # "ended"
           /\ UNCHANGED <<input, pc, hasUp, files, docker, upd, loaded, backup, outcome, said, endedAt>>
<1>1. /\ config \in [Ws -> {"none", "ours", "theirs"}] /\ dropped \in BOOLEAN
      /\ stored \in [Ws -> {"load", "back up", "save"}]
  BY DEF TypeOK
<1>2. PICK older \in {{}, {"main"}, Ws} :
         LET copy == [w \in Ws |-> IF w \in older /\ config[w] = "ours" THEN "none"
                                   ELSE config[w]]
         IN /\ \E new \in SUBSET {w \in Ws : copy[w] = "none"} :
                  /\ config' = [w \in Ws |-> IF w \in new THEN "theirs" ELSE copy[w]]
                  /\ stored' = [w \in Ws |-> IF w \in new THEN upd ELSE stored[w]]
            /\ dropped' = (dropped \/ copy # config)
  BY DEF OtherSaves
<1> DEFINE copy == [w \in Ws |-> IF w \in older /\ config[w] = "ours" THEN "none"
                                 ELSE config[w]]
<1>3. PICK new \in SUBSET {w \in Ws : copy[w] = "none"} :
         /\ config' = [w \in Ws |-> IF w \in new THEN "theirs" ELSE copy[w]]
         /\ stored' = [w \in Ws |-> IF w \in new THEN upd ELSE stored[w]]
  BY <1>2
<1>4. dropped' = (dropped \/ copy # config)
  BY <1>2
<1>5. \A v \in Ws : copy[v] = IF v \in older /\ config[v] = "ours" THEN "none" ELSE config[v]
  OBVIOUS
<1> HIDE DEF copy
<1>6. \A v \in Ws : copy[v] # config[v] => dropped'
  BY <1>4
<1>7. \A v \in Ws : v \in new => config'[v] = "theirs" /\ stored'[v] = upd /\ copy[v] = "none"
  BY <1>3
<1>8. \A v \in Ws : v \notin new => config'[v] = copy[v] /\ stored'[v] = stored[v]
  BY <1>3
<1>9. UNCHANGED <<input, pc, hasUp, files, docker, upd, loaded, backup, outcome, said, endedAt>>
   /\ pc # "ended"
  BY DEF OtherSaves
<1>10. dropped => dropped'
  BY <1>1, <1>4
<1>11. \A v \in Ws : config'[v] = "ours" => config[v] = "ours"
  BY <1>5, <1>7, <1>8
<1>12. \A v \in Ws : config[v] = "theirs" => config'[v] = "theirs"
  BY <1>5, <1>7, <1>8
<1>13. \A v \in Ws : config[v] = "ours" => config'[v] = "ours" \/ dropped'
  BY <1>5, <1>6, <1>7, <1>8
<1>14. \A v \in Ws : config'[v] = "theirs" => stored'[v] = upd
                     \/ (config[v] = "theirs" /\ stored'[v] = stored[v])
  BY <1>5, <1>7, <1>8
<1>15. QED
  BY <1>9, <1>10, <1>11, <1>12, <1>13, <1>14

(* Entries are recorded by the last steps only. *)
LEMMA EntriesStep ==
    ASSUME TypeOK, OutcomeAtEnd, EntriesAt, LoadedAt, [Next]_vars
    PROVE  EntriesAt'
<1> USE DEF Goto, End, EndEarly, docker, files, input, store
<1>1. config \in [Ws -> {"none", "ours", "theirs"}] /\ dropped \in BOOLEAN
  BY DEF TypeOK
<1>2. CASE AddExisting
  <2>1. CASE ~args.existing
    <3>1. pc = "existing" /\ pc' = "checks" /\ UNCHANGED <<store, args, hasUp>>
      BY <1>2, <2>1 DEF AddExisting, Update
    <3>2. QED
      BY <2>1, <3>1 DEF EntriesAt, BothOrNeither
  <2>2. CASE args.existing /\ ((Load("main") \/ BackUp) /\ UNCHANGED <<pc, outcome, endedAt>>)
    BY <1>2, <2>2 DEF EntriesAt, BothOrNeither, Ws, AddExisting, Load, BackUp
  <2>3. CASE args.existing /\ Save("main") /\ End("returned")
    BY <1>2, <2>3, UpdateEntries DEF EntriesAt, LoadedAt, BothOrNeither, Ws, AddExisting
  <2>4. CASE args.existing /\ BreakOff /\ End("raised")
    BY <1>2, <2>4, BrokenEntries DEF EntriesAt, BothOrNeither, Ws, AddExisting
  <2>5. QED
    BY <1>2, <2>1, <2>2, <2>3, <2>4 DEF AddExisting, Update
<1>3. CASE RecordUpstream
  <2>1. CASE ~hasUp
    BY <1>3, <2>1 DEF EntriesAt, BothOrNeither, Ws, RecordUpstream
  <2>2. CASE hasUp /\ ((Load("up") \/ BackUp) /\ UNCHANGED <<pc, outcome, endedAt>>)
    BY <1>3, <2>2 DEF EntriesAt, BothOrNeither, Ws, RecordUpstream, Load, BackUp
  <2>3. CASE hasUp /\ Save("up") /\ Goto("record main")
    BY <1>3, <2>3, UpdateEntries DEF EntriesAt, LoadedAt, BothOrNeither, Ws, RecordUpstream
  <2>4. CASE hasUp /\ BreakOff /\ End("raised")
    BY <1>3, <2>4, BrokenEntries DEF EntriesAt, BothOrNeither, Ws, RecordUpstream
  <2>5. QED
    BY <1>3, <2>1, <2>2, <2>3, <2>4 DEF RecordUpstream, Update
<1>4. CASE RecordMain
  <2>1. CASE (Load("main") \/ BackUp) /\ UNCHANGED <<pc, outcome, endedAt>>
    BY <1>4, <2>1 DEF EntriesAt, BothOrNeither, Ws, RecordMain, Load, BackUp
  <2>2. CASE Save("main") /\ IF args.standalone THEN Goto("remove") ELSE End("returned")
    BY <1>4, <2>2, UpdateEntries DEF EntriesAt, LoadedAt, BothOrNeither, Ws, RecordMain, Save
  <2>3. CASE BreakOff /\ End("raised")
    BY <1>4, <2>3, BrokenEntries DEF EntriesAt, BothOrNeither, Ws, RecordMain
  <2>4. QED
    BY <1>4, <2>1, <2>2, <2>3 DEF RecordMain, Update
<1>5. CASE RemoveLocalFiles
  BY <1>1, <1>5 DEF EntriesAt, BothOrNeither, Ws, RemoveLocalFiles
<1>6. CASE Interrupt
  <2>1. BreakOff /\ pc' = "ended" /\ endedAt' = pc /\ outcome' = "interrupted"
        /\ UNCHANGED <<args, hasUp>> /\ pc # "ended"
    BY <1>6 DEF Interrupt
  <2>2. QED
    BY <2>1, BrokenEntries DEF EntriesAt, BothOrNeither, Ws
<1>7. CASE OtherSaves
  BY <1>1, <1>7, OthersEntries DEF EntriesAt, BothOrNeither, Ws, OtherSaves
<1>8. CASE CheckName \/ MakeFolder \/ CloneRepos \/ UpstreamRepos \/ Checks \/
   PrepareBuild \/ PrepareFails \/ BuildSucceeds \/ BuildFails \/ BuildRaises \/
   RunIntermediate \/ RunCommands \/ KeepFailed \/ DeleteFailed \/ FixPermissions \/
   SetupImage \/ RunRocker
  BY <1>1, <1>8 DEF EntriesAt, BothOrNeither, Ws, CheckName, MakeFolder, CloneRepos,
     UpstreamRepos, Checks, PrepareBuild, PrepareFails, BuildSucceeds, BuildFails,
     BuildRaises, RunIntermediate, RunCommands, KeepFailed, DeleteFailed,
     FixPermissions, SetupImage, RunRocker
<1>9. CASE UNCHANGED vars
  BY <1>1, <1>9 DEF EntriesAt, BothOrNeither, Ws, vars
<1>10. QED
  BY <1>2, <1>3, <1>4, <1>5, <1>6, <1>7, <1>8, <1>9 DEF Next, Done

(* What an update has loaded stays what it was. *)
LEMMA LoadedStep ==
    ASSUME TypeOK, EntriesAt, LoadedAt, [Next]_vars
    PROVE  LoadedAt'
<1> USE DEF Goto, End, EndEarly, docker, files, input, store
<1>1. /\ upd \in {"load", "back up", "save"}
      /\ stored \in [Ws -> {"load", "back up", "save"}]
  BY DEF TypeOK
<1>2. ASSUME NEW w \in Ws, Stores(w), (Load(w) \/ BackUp) /\ UNCHANGED <<pc, outcome, endedAt>>,
             pc \in {"existing", "record up", "record main"}
      PROVE  LoadedAt'
  BY <1>1, <1>2 DEF EntriesAt, LoadedAt, Stores, Ws, Load, BackUp
<1>3. ASSUME NEW w \in Ws, Save(w) \/ BreakOff
      PROVE  LoadedAt'
  BY <1>1, <1>3 DEF LoadedAt, Ws, Save, BreakOff, Forget, NoEntries
<1>4. CASE AddExisting
  <2>1. CASE ~args.existing
    <3>1. upd = "load" /\ pc' = "checks" /\ UNCHANGED store /\ pc = "existing"
      BY <1>4, <2>1 DEF AddExisting, Update, EntriesAt
    <3>2. QED
      BY <3>1 DEF LoadedAt, Stores
  <2>2. CASE args.existing
    BY <1>2, <1>3, <1>4, <2>2 DEF Stores, Ws, AddExisting, Update
  <2>3. QED
    BY <2>1, <2>2
<1>5. CASE RecordUpstream
  <2>1. CASE ~hasUp
    <3>1. pc = "record up" /\ pc' = "record main" /\ UNCHANGED store
      BY <1>5, <2>1 DEF RecordUpstream, Update
    <3>2. upd = "load"
      BY <2>1, <3>1 DEF EntriesAt
    <3>3. QED
      BY <3>1, <3>2 DEF LoadedAt, Stores
  <2>2. CASE hasUp
    BY <1>2, <1>3, <1>5, <2>2 DEF Stores, Ws, RecordUpstream, Update
  <2>3. QED
    BY <2>1, <2>2
<1>6. CASE RecordMain
  BY <1>2, <1>3, <1>6 DEF Stores, Ws, RecordMain, Update
<1>7. CASE Interrupt
  BY <1>3, <1>7 DEF Ws, Interrupt
<1>8. CASE OtherSaves
  BY <1>1, <1>8, OthersEntries DEF EntriesAt, LoadedAt, Stores, Ws, OtherSaves
<1>9. CASE CheckName \/ MakeFolder \/ CloneRepos \/ UpstreamRepos \/ Checks \/
   PrepareBuild \/ PrepareFails \/ BuildSucceeds \/ BuildFails \/ BuildRaises \/
   RunIntermediate \/ RunCommands \/ KeepFailed \/ DeleteFailed \/ FixPermissions \/
   SetupImage \/ RunRocker \/ RemoveLocalFiles
  BY <1>1, <1>9 DEF EntriesAt, LoadedAt, Stores, Ws, CheckName, MakeFolder, CloneRepos,
     UpstreamRepos, Checks, PrepareBuild, PrepareFails, BuildSucceeds, BuildFails,
     BuildRaises, RunIntermediate, RunCommands, KeepFailed, DeleteFailed,
     FixPermissions, SetupImage, RunRocker, RemoveLocalFiles
<1>10. CASE UNCHANGED vars
  BY <1>1, <1>10 DEF EntriesAt, LoadedAt, Stores, Ws, vars
<1>11. QED
  BY <1>4, <1>5, <1>6, <1>7, <1>8, <1>9, <1>10 DEF Next, Done

(* Nothing removes a folder or replaces an image the entry needs. *)
LEMMA HomeStep ==
    ASSUME TypeOK, ContainerAt, EntriesAt, LoadedAt, HomeAt, [Next]_vars
    PROVE  HomeAt'
<1> USE DEF Goto, End, EndEarly, docker, files, input, store
<1>1. folder \in [Ws -> SUBSET Item] /\ config \in [Ws -> {"none", "ours", "theirs"}]
  BY DEF TypeOK
<1>2. CASE MakeFolder
  BY <1>1, <1>2 DEF ContainerAt, EntriesAt, HomeAt, EntryHasHome, Ws, MakeFolder, Put
<1>3. CASE CloneRepos
  BY <1>1, <1>3 DEF ContainerAt, EntriesAt, HomeAt, EntryHasHome, Ws, CloneRepos, Put
<1>4. CASE UpstreamRepos
  BY <1>1, <1>4 DEF ContainerAt, EntriesAt, HomeAt, EntryHasHome, Ws, UpstreamRepos,
     Put, InSrc
<1>5. CASE AddExisting
  BY <1>1, <1>5, UpdateEntries, BrokenEntries DEF ContainerAt, EntriesAt, HomeAt,
     EntryHasHome, Ws, Update, Load, BackUp, AddExisting
<1>6. CASE PrepareBuild
  BY <1>1, <1>6 DEF ContainerAt, EntriesAt, HomeAt, EntryHasHome, Ws, PrepareBuild,
     WithDockerfile
<1>7. CASE PrepareFails
  <2>1. pc' = "ended" /\ config'["main"] # "ours"
    BY <1>7 DEF PrepareFails, EntriesAt
  <2>2. QED
    BY <2>1 DEF HomeAt, EntryHasHome
<1>8. CASE BuildSucceeds
  BY <1>1, <1>8 DEF ContainerAt, EntriesAt, HomeAt, EntryHasHome, Ws, BuildSucceeds
<1>9. CASE BuildFails
  BY <1>1, <1>9 DEF ContainerAt, EntriesAt, HomeAt, EntryHasHome, Ws, BuildFails,
     DeleteDocker, DeleteFolders, DeleteFoldersFails, RmtreeFails
<1>10. CASE RunCommands
  BY <1>1, <1>10 DEF ContainerAt, EntriesAt, HomeAt, EntryHasHome, Ws, RunCommands,
     Compiled
<1>11. CASE DeleteFailed
  BY <1>1, <1>11 DEF ContainerAt, EntriesAt, HomeAt, EntryHasHome, Ws, DeleteFailed,
     DeleteDocker, DeleteFolders, DeleteFoldersFails, RmtreeFails
<1>12. CASE SetupImage
  BY <1>1, <1>12 DEF ContainerAt, EntriesAt, HomeAt, EntryHasHome, Ws, SetupImage
<1>13. CASE RunRocker
  BY <1>1, <1>13 DEF ContainerAt, EntriesAt, HomeAt, EntryHasHome, Ws, RunRocker
<1>14. CASE RecordUpstream
  BY <1>1, <1>14, UpdateEntries, BrokenEntries DEF ContainerAt, EntriesAt, HomeAt,
     EntryHasHome, Ws, Update, Load, BackUp, RecordUpstream
<1>15. CASE RecordMain
  BY <1>1, <1>15, UpdateEntries, BrokenEntries DEF ContainerAt, EntriesAt, HomeAt,
     EntryHasHome, Ws, Update, Load, BackUp, RecordMain
<1>16. CASE RemoveLocalFiles
  BY <1>1, <1>16 DEF ContainerAt, EntriesAt, HomeAt, EntryHasHome, Ws, RemoveLocalFiles,
     RmtreeFails
<1>17. CASE Interrupt
  BY <1>1, <1>17, BrokenEntries DEF ContainerAt, EntriesAt, HomeAt, EntryHasHome, Ws,
     Interrupt
<1>18. CASE OtherSaves
  BY <1>1, <1>18, OthersEntries DEF ContainerAt, EntriesAt, HomeAt, EntryHasHome, Ws,
     OtherSaves
<1>19. CASE CheckName \/ Checks \/ BuildRaises \/ RunIntermediate \/ KeepFailed \/
   FixPermissions
  BY <1>1, <1>19 DEF ContainerAt, EntriesAt, HomeAt, EntryHasHome, Ws, CheckName,
     Checks, BuildRaises, RunIntermediate, KeepFailed, FixPermissions
<1>20. CASE UNCHANGED vars
  BY <1>1, <1>20 DEF ContainerAt, EntriesAt, HomeAt, EntryHasHome, Ws, vars
<1>21. QED
  BY <1>2, <1>3, <1>4, <1>5, <1>6, <1>7, <1>8, <1>9, <1>10, <1>11, <1>12, <1>13, <1>14,
     <1>15, <1>16, <1>17, <1>18, <1>19, <1>20 DEF Next, Done

(* The certificate is in the build context during the build only, or when  *)
(* the system refused a step around it.                                    *)
LEMMA CertificateStep ==
    ASSUME OutcomeAtEnd, CertificateRemoved, [Next]_vars
    PROVE  CertificateRemoved'
<1> USE DEF Goto, End, EndEarly, docker, files, input, store
<1>2. CASE PrepareBuild
  BY <1>2 DEF OutcomeAtEnd, CertificateRemoved, PrepareBuild
<1>3. CASE PrepareFails
  BY <1>3 DEF OutcomeAtEnd, CertificateRemoved, PrepareFails
<1>4. CASE BuildSucceeds
  BY <1>4 DEF OutcomeAtEnd, CertificateRemoved, BuildSucceeds
<1>5. CASE BuildFails
  BY <1>5 DEF OutcomeAtEnd, CertificateRemoved, BuildFails
<1>6. CASE BuildRaises
  BY <1>6 DEF OutcomeAtEnd, CertificateRemoved, BuildRaises
<1>7. CASE Interrupt
  BY <1>7 DEF OutcomeAtEnd, CertificateRemoved, Interrupt
<1>8. CASE AddExisting \/ RecordUpstream \/ RecordMain
  BY <1>8 DEF OutcomeAtEnd, CertificateRemoved, Update, AddExisting, RecordUpstream,
     RecordMain
<1>9. CASE CheckName \/ MakeFolder \/ CloneRepos \/ UpstreamRepos \/ Checks \/
   RunIntermediate \/ RunCommands \/ KeepFailed \/ DeleteFailed \/ FixPermissions \/
   SetupImage \/ RunRocker \/ RemoveLocalFiles \/ OtherSaves
  BY <1>9 DEF OutcomeAtEnd, CertificateRemoved, CheckName, MakeFolder, CloneRepos,
     UpstreamRepos, Checks, RunIntermediate, RunCommands, KeepFailed, DeleteFailed,
     FixPermissions, SetupImage, RunRocker, RemoveLocalFiles, OtherSaves
<1>10. CASE UNCHANGED vars
  BY <1>10 DEF OutcomeAtEnd, CertificateRemoved, vars
<1>11. QED
  BY <1>2, <1>3, <1>4, <1>5, <1>6, <1>7, <1>8, <1>9, <1>10 DEF Next, Done

(* The answer no removes what docker agrees to remove. *)
LEMMA DeclinedStep ==
    ASSUME TypeOK, ContainerAt, EntriesAt, DeclinedAt, [Next]_vars
    PROVE  DeclinedAt'
<1> USE DEF Goto, End, EndEarly, docker, files, input, store
<1>1. folder \in [Ws -> SUBSET Item] /\ config \in [Ws -> {"none", "ours", "theirs"}] /\
   stuck \in BOOLEAN
  BY DEF TypeOK
<1>2. CASE KeepFailed
  BY <1>1, <1>2 DEF ContainerAt, EntriesAt, DeclinedAt, DeclinedLeavesNothing, Ws,
     KeepFailed
<1>3. CASE DeleteFailed
  BY <1>1, <1>3 DEF ContainerAt, EntriesAt, DeclinedAt, DeclinedLeavesNothing, Ws,
     DeleteFailed, DeleteDocker, DeleteFolders, DeleteFoldersFails, RmtreeFails
<1>4. CASE PrepareFails
  BY <1>4 DEF PrepareFails, DeclinedAt, DeclinedLeavesNothing
<1>5. CASE AddExisting \/ RecordUpstream \/ RecordMain
  BY <1>5 DEF AddExisting, RecordUpstream, RecordMain, Update, DeclinedAt, DeclinedLeavesNothing
<1>6. CASE OtherSaves
  BY <1>1, <1>6 DEF ContainerAt, EntriesAt, DeclinedAt, DeclinedLeavesNothing, Ws,
     OtherSaves
<1>7. CASE CheckName \/ MakeFolder \/ CloneRepos \/ UpstreamRepos \/ Checks \/
   PrepareBuild \/ BuildSucceeds \/ BuildFails \/ BuildRaises \/ RunIntermediate \/
   RunCommands \/ FixPermissions \/ SetupImage \/ RunRocker \/ RemoveLocalFiles \/
   Interrupt
  BY <1>1, <1>7 DEF ContainerAt, EntriesAt, DeclinedAt, DeclinedLeavesNothing, Ws,
     CheckName, MakeFolder, CloneRepos, UpstreamRepos, Checks, PrepareBuild,
     BuildSucceeds, BuildFails, BuildRaises, RunIntermediate, RunCommands,
     FixPermissions, SetupImage, RunRocker, RemoveLocalFiles, Interrupt, DeleteDocker,
     DeleteFolders, DeleteFoldersFails, RmtreeFails
<1>8. CASE UNCHANGED vars
  BY <1>1, <1>8 DEF ContainerAt, EntriesAt, DeclinedAt, DeclinedLeavesNothing, Ws, vars
<1>9. QED
  BY <1>2, <1>3, <1>4, <1>5, <1>6, <1>7, <1>8 DEF Next, Done

(* The steps but the removals leave in the folders what create is to       *)
(* spare.                                                                  *)
LEMMA SparedStays ==
    ASSUME TypeOK, ContainerAt, [Next]_vars,
           ~UpstreamRepos, ~PrepareFails, ~BuildFails, ~DeleteFailed, ~RemoveLocalFiles
    PROVE  (\A w \in Ws : Kept(w) => Kept(w)') /\ UNCHANGED <<before, hasUp>>
<1> USE DEF Goto, End, EndEarly, docker, files, input, store
<1>1. folder \in [Ws -> SUBSET Item]
  BY DEF TypeOK
<1>2. CASE UpstreamRepos \/ PrepareFails \/ BuildFails \/ DeleteFailed \/
   RemoveLocalFiles
  BY <1>2
<1>3. CASE MakeFolder
  BY <1>1, <1>3 DEF Kept, Spared, MakeFolder, Put
<1>4. CASE CloneRepos
  BY <1>1, <1>4 DEF Kept, Spared, CloneRepos, Put
<1>5. CASE PrepareBuild
  <2>1. args.docker /\ folder' = WithDockerfile /\ UNCHANGED <<args, before, hasUp>>
    BY <1>5 DEF PrepareBuild, ContainerAt
  <2>2. \A w \in Ws : Spared(w)' = Spared(w)
    BY <2>1 DEF Spared
  <2>3. "dockerfile" \notin Spared("main")
    BY <2>1 DEF Spared
  <2>4. QED
    BY <1>1, <2>1, <2>2, <2>3, DockerfileType DEF Kept, Ws
<1>6. CASE RunCommands
  BY <1>1, <1>6 DEF Kept, Spared, RunCommands, Compiled
<1>7. CASE AddExisting \/ RecordUpstream \/ RecordMain
  BY <1>1, <1>7 DEF Kept, Spared, Update, AddExisting, RecordUpstream, RecordMain
<1>8. CASE CheckName \/ Checks \/ BuildSucceeds \/ BuildRaises \/ RunIntermediate \/
   KeepFailed \/ FixPermissions \/ SetupImage \/ RunRocker \/ Interrupt \/ OtherSaves
  BY <1>1, <1>8 DEF Kept, Spared, CheckName, Checks, BuildSucceeds, BuildRaises,
     RunIntermediate, KeepFailed, FixPermissions, SetupImage, RunRocker, Interrupt,
     OtherSaves
<1>9. CASE UNCHANGED vars
  BY <1>1, <1>9 DEF Kept, Spared, vars
<1>10. QED
  BY <1>2, <1>3, <1>4, <1>5, <1>6, <1>7, <1>8, <1>9 DEF Next, Done

(* No removal touches an upstream folder that is not ours. *)
LEMMA UpstreamSpared ==
    ASSUME NEW f \in [Ws -> SUBSET Item], ~hasUp,
           DeleteFolders(f) \/ DeleteFoldersFails(f) \/ RmtreeFails(f)
    PROVE  folder'["up"] = f["up"]
BY DEF Ws, DeleteFolders, DeleteFoldersFails, RmtreeFails

(* A failed preparation deletes nothing of a standalone workspace, and     *)
(* nothing of an upstream folder that is not ours.                         *)
LEMMA PreparationSpares ==
    ASSUME TypeOK, ContainerAt, PrepareFails
    PROVE  /\ args.standalone => \A w \in Ws : Kept(w) => Kept(w)'
           /\ ~hasUp => folder'["up"] = folder["up"]
<1> USE DEF Goto, End, EndEarly, docker, files, input, store
<1>1. folder \in [Ws -> SUBSET Item] /\ args.docker /\ UNCHANGED <<args, before>>
  BY DEF TypeOK, ContainerAt, PrepareFails
<1>2. PICK f \in {folder, WithDockerfile} : DeleteFolders(f) \/ DeleteFoldersFails(f)
  BY DEF PrepareFails
<1>3. /\ f \in [Ws -> SUBSET Item] /\ f["up"] = folder["up"]
      /\ folder["main"] \ {"dockerfile"} \subseteq f["main"]
  BY <1>1, <1>2, DockerfileType
<1>4. ~hasUp => folder'["up"] = folder["up"]
  BY <1>2, <1>3, UpstreamSpared
<1>5. args.standalone => folder' = f
  BY <1>2 DEF DeleteFolders, DeleteFoldersFails
<1>6. (\A w \in Ws : Spared(w)' = Spared(w)) /\ "dockerfile" \notin Spared("main")
  BY <1>1 DEF Spared
<1>7. args.standalone => \A w \in Ws : Kept(w) => Kept(w)'
  BY <1>3, <1>5, <1>6 DEF Kept, Ws
<1>8. QED
  BY <1>4, <1>7

(* What OwnFilesKept asks for after a step. *)
Explained(w) ==
    \/ /\ w = "main" \/ hasUp
       /\ pc = "ended"
       /\ IF args.standalone THEN endedAt = "remove"
          ELSE endedAt \in {"build", "building"} \/ said = "no"
    \/ /\ w = "up" /\ "sources" \notin before["up"]
       /\ ~hasUp \/ endedAt = "upstream"

(* The removals of a workspace end the command, and name their reason. *)
LEMMA RemovalReasons ==
    ASSUME TypeOK, ContainerAt, EntriesAt, FilesAt,
           PrepareFails \/ BuildFails \/ DeleteFailed \/ RemoveLocalFiles
    PROVE  FilesAt'
<1> USE DEF Goto, End, EndEarly, docker, files, input, store
<1>1. /\ pc' = "ended" /\ endedAt' = pc /\ pc # "ended"
      /\ UNCHANGED <<args, before, hasUp>> /\ folder \in [Ws -> SUBSET Item]
  BY DEF TypeOK, PrepareFails, BuildFails, DeleteFailed, RemoveLocalFiles
<1>2. ASSUME NEW w \in Ws, Kept(w), ~Kept(w)'
      PROVE  IF args.standalone THEN endedAt' = "remove"
             ELSE endedAt' \in {"build", "building"} \/ said' = "no"
  <2>1. CASE PrepareFails
    BY <1>1, <1>2, <2>1, PreparationSpares DEF PrepareFails
  <2>2. folder' # folder
    BY <1>1, <1>2 DEF Kept, Spared
  <2>3. CASE BuildFails
    BY <1>1, <2>2, <2>3 DEF BuildFails, DeleteFolders, DeleteFoldersFails
  <2>4. CASE DeleteFailed
    BY <1>1, <2>2, <2>4 DEF DeleteFailed, DeleteFolders, DeleteFoldersFails
  <2>5. CASE RemoveLocalFiles
    BY <1>1, <2>5 DEF RemoveLocalFiles, EntriesAt
  <2>6. QED
    BY <2>1, <2>3, <2>4, <2>5
<1>3. ~hasUp => folder'["up"] = folder["up"]
  <2>1. CASE DeleteFolders(folder) \/ DeleteFoldersFails(folder) \/ RmtreeFails(folder)
    BY <1>1, <2>1, UpstreamSpared
  <2>2. CASE folder' = folder
    BY <2>2
  <2>3. CASE folder' = [w \in Ws |-> IF w = "main" \/ hasUp THEN {} ELSE folder[w]]
    BY <2>3 DEF Ws
  <2>4. QED
    BY <2>1, <2>2, <2>3, PreparationSpares DEF BuildFails, DeleteFailed, RemoveLocalFiles
<1>4. ASSUME NEW w \in Ws, ~Kept(w)'
      PROVE  Explained(w)'
  <2>1. CASE w = "main" \/ hasUp
    <3>1. Kept(w)
      BY <1>1, <2>1 DEF FilesAt, Ws
    <3>2. QED
      BY <1>1, <1>2, <1>4, <2>1, <3>1 DEF Explained
  <2>2. CASE w = "up" /\ ~hasUp
    <3>1. ~Kept("up")
      BY <1>1, <1>3, <1>4, <2>2 DEF Kept, Spared
    <3>2. "sources" \notin before["up"]
      BY <1>1, <2>2, <3>1 DEF FilesAt, OwnFilesKept, Kept, Ws
    <3>3. QED
      BY <1>1, <2>2, <3>2 DEF Explained
  <2>3. QED
    BY <2>1, <2>2 DEF Ws
<1>5. OwnFilesKept'
  BY <1>4 DEF OwnFilesKept, Kept, Explained
<1>6. QED
  BY <1>1, <1>5 DEF FilesAt

(* An upstream folder is removed here only when its src is empty. *)
LEMMA UpstreamFiles ==
    ASSUME TypeOK, FilesAt, UpstreamRepos
    PROVE  FilesAt'
<1> USE DEF Goto, End, EndEarly, docker, files, input, store
<1>1. folder \in [Ws -> SUBSET Item]
  BY DEF TypeOK
<1>2. pc = "upstream" /\ ~hasUp /\ Kept("main") /\ Kept("up")
  BY DEF UpstreamRepos, FilesAt
<1>3. /\ UNCHANGED <<args, before, said>> /\ pc' \in {"existing", "ended"}
      /\ folder'["main"] = folder["main"]
  BY <1>1 DEF UpstreamRepos, Put, Ws
<1>4. Spared("main")' = Spared("main") /\ Spared("up")' = Spared("up")
  BY <1>3 DEF Spared
<1>5. Kept("main")'
  BY <1>2, <1>3, <1>4 DEF Kept
<1>6. CASE folder["up"] \subseteq folder'["up"]
  <2>1. Kept("up")'
    BY <1>2, <1>4, <1>6 DEF Kept
  <2>2. QED
    BY <1>3, <1>5, <2>1 DEF FilesAt, OwnFilesKept, Kept, Ws
<1>7. CASE ~InSrc("up") /\ (UNCHANGED hasUp \/ (pc' = "ended" /\ endedAt' = pc))
  <2>1. "sources" \notin before["up"]
    BY <1>2, <1>7 DEF InSrc, Kept, Spared, Own
  <2>2. /\ "sources" \notin before'["up"] /\ (~hasUp' \/ endedAt' = "upstream")
        /\ pc' # "ended" => ~hasUp'
    BY <1>2, <1>3, <1>7, <2>1
  <2>3. QED
    BY <1>3, <1>5, <2>2 DEF FilesAt, OwnFilesKept, Kept, Ws
<1>8. QED
  BY <1>1, <1>6, <1>7 DEF UpstreamRepos, Put, Ws

(* The user's files stay until a removal that OwnFilesKept names. *)
LEMMA FilesStep ==
    ASSUME TypeOK, ContainerAt, EntriesAt, FilesAt, [Next]_vars
    PROVE  FilesAt'
<1>1. CASE UpstreamRepos
  BY <1>1, UpstreamFiles
<1>2. CASE PrepareFails \/ BuildFails \/ DeleteFailed \/ RemoveLocalFiles
  BY <1>2, RemovalReasons
<1>3. CASE ~(UpstreamRepos \/ PrepareFails \/ BuildFails \/ DeleteFailed \/ RemoveLocalFiles)
  <2>1. (\A w \in Ws : Kept(w) => Kept(w)') /\ UNCHANGED <<before, hasUp>>
    BY <1>3, SparedStays
  <2>2. /\ pc' # "ended" => pc # "ended"
        /\ pc' \in {"name", "folder", "clone", "upstream"} =>
              pc \in {"name", "folder", "clone", "upstream"}
    BY <1>3 DEF Next, vars, Goto, End, Update, CheckName, MakeFolder, CloneRepos,
       AddExisting, Checks, PrepareBuild, BuildSucceeds, BuildRaises, RunIntermediate,
       RunCommands, KeepFailed, FixPermissions, SetupImage, RunRocker, RecordUpstream,
       RecordMain, Interrupt, OtherSaves, Done
  <2>3. pc = "ended" => UNCHANGED <<pc, args, endedAt, said>>
    BY <1>3 DEF Next, vars, input, Goto, End, CheckName, MakeFolder, CloneRepos,
       AddExisting, Checks, PrepareBuild, BuildSucceeds, BuildRaises, RunIntermediate,
       RunCommands, KeepFailed, FixPermissions, SetupImage, RunRocker, RecordUpstream,
       RecordMain, Interrupt, OtherSaves, Done
  <2>4. ASSUME NEW w \in Ws, ~Kept(w)'
        PROVE  Explained(w)'
    <3>1. ~Kept(w)
      BY <2>1, <2>4
    <3>2. Explained(w)
      BY <3>1 DEF FilesAt, OwnFilesKept, Kept, Explained
    <3>3. CASE pc = "ended"
      BY <2>1, <2>3, <3>2, <3>3 DEF Explained
    <3>4. CASE pc # "ended"
      <4>1. w = "up" /\ "sources" \notin before["up"] /\ ~hasUp
        BY <3>1, <3>2, <3>4 DEF FilesAt, Explained
      <4>2. QED
        BY <2>1, <4>1 DEF Explained
    <3>5. QED
      BY <3>3, <3>4
  <2>5. OwnFilesKept'
    BY <2>4 DEF OwnFilesKept, Kept, Explained
  <2>6. QED
    BY <2>1, <2>2, <2>5 DEF FilesAt, Ws
<1>4. QED
  BY <1>1, <1>2, <1>3

(* The invariant holds at the start. *)
LEMMA CreateInit == Init => CreateInv
<1> SUFFICES ASSUME Init PROVE CreateInv
  OBVIOUS
<1>1. folder \in [Ws -> SUBSET Item] /\ before \in [Ws -> SUBSET Item]
  <2>1. \A items \in {{}} \cup {{"dir"} \cup s : s \in SUBSET Own} : items \in SUBSET Item
    BY DEF Own, Item
  <2>2. QED
    BY <2>1 DEF Init
<1>2. config \in [Ws -> {"none", "ours", "theirs"}] /\ \A w \in Ws : config[w] # "ours"
  BY DEF Init
<1>3. TypeOK
  <2>1. inter \in 0..2 /\ pc \in Step /\ endedAt \in Step
    BY DEF Init, Step
  <2>2. args \in Flags
    BY DEF Init
  <2>3. image \in {"none", "foreign", "built", "committed"} /\ ctr \in {"none", "foreign", "ours"}
    BY DEF Init
  <2>4. /\ loaded \in [Ws -> {"none", "ours", "theirs"}] /\ backup \in [Ws -> {"none", "ours", "theirs"}]
        /\ stored \in [Ws -> {"load", "back up", "save"}]
    BY DEF Init, NoEntries
  <2>5. QED
    BY <1>1, <1>2, <2>1, <2>2, <2>3, <2>4 DEF Init, TypeOK
<1>4. OutcomeAtEnd /\ ContainerAt /\ NoContainerLeft /\ CertificateRemoved /\ DeclinedAt
  BY DEF Init, OutcomeAtEnd, ContainerAt, NoContainerLeft, CertificateRemoved, DeclinedAt,
     DeclinedLeavesNothing
<1>5. EntriesAt /\ LoadedAt /\ HomeAt
  BY <1>2 DEF Init, EntriesAt, LoadedAt, BothOrNeither, HomeAt, EntryHasHome, NoEntries, Ws
<1>6. FilesAt
  BY DEF Init, FilesAt, OwnFilesKept, Kept, Spared, Ws
<1>7. QED
  BY <1>3, <1>4, <1>5, <1>6 DEF CreateInv

(* The inductive invariant of create. *)
LEMMA CreateInvHolds == Spec => []CreateInv
<1>1. CreateInv /\ [Next]_vars => CreateInv'
  BY TypeStep, OutcomeStep, ContainerStep, LeftStep, EntriesStep, LoadedStep, HomeStep,
     CertificateStep, DeclinedStep, FilesStep DEF CreateInv
<1>2. QED
  BY CreateInit, <1>1, PTL DEF Spec

(* Type correctness of create. *)
THEOREM CreateTypeCorrect == Spec => []TypeOK
<1>1. CreateInv => TypeOK
  BY DEF CreateInv
<1>2. QED
  BY CreateInvHolds, <1>1, PTL

(* No intermediate container outlives the command but on the ways out that *)
(* NoContainerLeft names.                                                  *)
THEOREM ContainersStopped == Spec => []NoContainerLeft
<1>1. CreateInv => NoContainerLeft
  BY DEF CreateInv
<1>2. QED
  BY CreateInvHolds, <1>1, PTL

(* Both entries or none: an upstream entry is alone only after a failed   *)
(* second update, a main one only when others wrote an older file.         *)
THEOREM EntriesTogether == Spec => []BothOrNeither
<1>1. CreateInv => BothOrNeither
  BY DEF CreateInv, EntriesAt
<1>2. QED
  BY CreateInvHolds, <1>1, PTL

(* A recorded workspace has its folder, or the image that holds it. *)
THEOREM EntriesUsable == Spec => []EntryHasHome
<1>1. CreateInv => EntryHasHome
  BY DEF CreateInv, HomeAt
<1>2. QED
  BY CreateInvHolds, <1>1, PTL

(* The certificate leaves the build context on success and on failure;     *)
(* it stays only after an interrupt, or when the system refuses to copy    *)
(* it, to start the build or to remove it.                                 *)
THEOREM CertificateLeaves == Spec => []CertificateRemoved
<1>1. CreateInv => CertificateRemoved
  BY DEF CreateInv
<1>2. QED
  BY CreateInvHolds, <1>1, PTL

(* After the answer no, nothing is left that docker agreed to remove. *)
THEOREM DeclinedCleans == Spec => []DeclinedLeavesNothing
<1>1. CreateInv => DeclinedLeavesNothing
  BY DEF CreateInv, DeclinedAt
<1>2. QED
  BY CreateInvHolds, <1>1, PTL

(* The user's own files go only with a folder that create removes as a     *)
(* whole, for one of the reasons that OwnFilesKept names.                  *)
THEOREM FilesOfTheUserKept == Spec => []OwnFilesKept
<1>1. CreateInv => OwnFilesKept
  BY DEF CreateInv, FilesAt
<1>2. QED
  BY CreateInvHolds, <1>1, PTL

(* An entry of another command goes only in a save of create that it       *)
(* overtook, or that broke off on an emptied file; the backup has it,      *)
(* unless it came after the backup.                                        *)
THEOREM TheirsLostOnlyWhenOvertaken == Spec => TheirsKept
<1>1. ASSUME CreateInv, [Next]_vars, NEW w \in Ws, config[w] = "theirs", config'[w] # "theirs"
      PROVE  /\ stored[w] # "load" \/ (config' = NoEntries /\ outcome' \notin {"none", "returned"})
             /\ backup[w] = "theirs" \/ stored[w] = "save"
  <2> USE DEF Goto, End, EndEarly, docker, files, input, store
  <2>1. TypeOK /\ LoadedAt /\ EntriesAt /\ stored[w] \in {"load", "back up", "save"}
    BY <1>1 DEF CreateInv, TypeOK
  <2>2. ASSUME upd = "save"
        PROVE  /\ stored[w] = "load" => loaded[w] = "theirs"
               /\ backup[w] = "theirs" \/ stored[w] = "save"
    BY <1>1, <2>1, <2>2 DEF LoadedAt
  <2>3. ASSUME NEW v \in Ws, Stores(v), Save(v)
        PROVE  stored[w] # "load" /\ (backup[w] = "theirs" \/ stored[w] = "save")
    <3>1. upd = "save" /\ loaded[v] = "none"
      BY <2>1, <2>3 DEF Save, LoadedAt
    <3>2. w # v => config'[w] = loaded[w]
      BY <2>1, <2>3, UpdateEntries
    <3>3. QED
      BY <1>1, <2>2, <3>1, <3>2
  <2>4. ASSUME BreakOff, outcome' \notin {"none", "returned"}
        PROVE  /\ config' = NoEntries /\ outcome' \notin {"none", "returned"}
               /\ backup[w] = "theirs" \/ stored[w] = "save"
    BY <1>1, <2>2, <2>4, BrokenEntries
  <2>5. CASE AddExisting
    BY <1>1, <2>3, <2>4, <2>5 DEF Stores, Ws, AddExisting, Update, Load, BackUp
  <2>6. CASE RecordUpstream
    BY <1>1, <2>3, <2>4, <2>6 DEF Stores, Ws, RecordUpstream, Update, Load, BackUp
  <2>7. CASE RecordMain
    BY <1>1, <2>3, <2>4, <2>7 DEF Stores, Ws, RecordMain, Update, Load, BackUp
  <2>8. CASE Interrupt
    BY <2>4, <2>8 DEF Interrupt
  <2>9. CASE OtherSaves
    BY <1>1, <2>1, <2>9, OthersEntries
  <2>10. CASE UNCHANGED store
    BY <1>1, <2>10
  <2>11. QED
    <3>1. [Next]_vars
      BY <1>1
    <3>2. QED
      BY <3>1, <2>5, <2>6, <2>7, <2>8, <2>9, <2>10 DEF Next, Done, vars, CheckName,
         MakeFolder, CloneRepos, UpstreamRepos, Checks, PrepareBuild, PrepareFails,
         BuildSucceeds, BuildFails, BuildRaises, RunIntermediate, RunCommands,
         KeepFailed, DeleteFailed, FixPermissions, SetupImage, RunRocker,
         RemoveLocalFiles
<1>2. CreateInv /\ [Next]_vars =>
         \A w \in Ws : config[w] = "theirs" /\ config'[w] # "theirs" =>
            /\ stored[w] # "load" \/ (config' = NoEntries /\ outcome' \notin {"none", "returned"})
            /\ backup[w] = "theirs" \/ stored[w] = "save"
  BY <1>1
<1>3. QED
  BY CreateInvHolds, <1>2, PTL DEF Spec, TheirsKept
=============================================================================

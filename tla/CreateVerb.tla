------------------------------ MODULE CreateVerb ------------------------------
(***************************************************************************)
(* One run of `rtw workspace create', from the name check to the standalone *)
(* clean-up, with every external call that can fail: git, vcs, docker,     *)
(* rosdep, colcon, rocker, the user's answers, and other rtw commands that *)
(* write to workspaces.yaml while the build is running.                    *)
(*                                                                         *)
(* Data abstraction: a folder is the set of kinds of things in it, a       *)
(* docker object is where it came from.  workspaces.yaml is read, backed   *)
(* up and written in three steps; the instants in which a write of another *)
(* command leaves it empty are in ConfigStore.                             *)
(***************************************************************************)
EXTENDS Naturals

CONSTANTS
    Interrupts,  \* may the user interrupt or kill the command?
    Others       \* may other commands write workspaces.yaml meanwhile?

ASSUME CreateFlags == Interrupts \in BOOLEAN /\ Others \in BOOLEAN

VARIABLES
    args,      \* the flags of the command line
    pc,        \* the next step of CreateVerb.main
    hasUp,     \* create_args.has_upstream_ws
    folder,    \* the main and the upstream workspace folder
    cert,      \* is the CA certificate in the docker build context?
    image,     \* what the tag final_image_name names
    ctr,       \* what container_name names
    inter,     \* running intermediate containers
    config,    \* whose entry of workspaces.yaml, for both names
    upd,       \* the next step of update_workspaces_config
    loaded,    \* the entries it has loaded
    backup,    \* the entries in the backup it has made
    outcome,   \* how the command ended
    (* history variables *)
    before,    \* the folders as the command found them
    said,      \* the answer to "keep the workspace files?"
    endedAt,   \* the step the command ended in
    stuck,     \* has docker refused to stop or to remove something?
    denied,    \* has the system refused a step around docker build?
    stored,    \* the step of the update in which others stored an entry
    dropped    \* did another command write an older file over our entries?

docker == <<image, ctr, inter, stuck>>
files == <<folder, cert, denied>>
input == <<args, before>>
store == <<config, upd, loaded, backup, stored, dropped>>
vars == <<input, pc, hasUp, files, docker, store, outcome, said, endedAt>>

Ws == {"main", "up"}
(* A folder that exists contains "dir"; "notes" and "sources" are the      *)
(* user's own files outside and inside src, "dockerfile" is a Dockerfile   *)
(* of the user in {ws}/docker.                                             *)
Item == {"dir", "notes", "sources", "dockerfile", "repos", "build"}
Own == {"notes", "sources", "dockerfile"}
(* The steps of CreateVerb.main, in their order. *)
Step == {"name", "folder", "clone", "upstream", "existing", "checks", "build", "building",
         "container", "commands", "ask", "again", "permissions", "setup", "rocker",
         "record up", "record main", "remove", "ended"}
Flags == [docker : BOOLEAN, standalone : BOOLEAN, repos : BOOLEAN, ignore : BOOLEAN,
          existing : BOOLEAN, cert : BOOLEAN]
NoEntries == [w \in Ws |-> "none"]

Init ==
    /\ args \in {f \in Flags : f.cert => f.docker}
    /\ pc = "name"
    /\ hasUp = FALSE
    /\ folder \in [Ws -> {{}} \cup {{"dir"} \cup s : s \in SUBSET Own}]
    /\ "dockerfile" \notin folder["up"]
    /\ cert = FALSE
    /\ image \in {"none", "foreign"}
    /\ ctr \in {"none", "foreign"}
    /\ inter = 0
    /\ config \in [Ws -> {"none", "theirs"}]
    /\ upd = "load" /\ loaded = NoEntries /\ backup = NoEntries
    /\ outcome = "none"
    /\ before = folder
    /\ said = "nothing"
    /\ endedAt = "name"
    /\ stuck = FALSE /\ denied = FALSE /\ dropped = FALSE
    /\ stored = [w \in Ws |-> "load"]

-----------------------------------------------------------------------------
Goto(step) == pc' = step /\ UNCHANGED <<outcome, endedAt>>

(* "returned", "raised" (a traceback or exit code 1) or "exited". *)
End(how) == pc' = "ended" /\ outcome' = how /\ endedAt' = pc

(* An exception, or the user's Ctrl-C, in the middle of a removal. *)
EndEarly == End("raised") \/ (Interrupts /\ End("interrupted"))

InSrc(w) == folder[w] \cap {"sources", "repos"} # {}
Put(w, items) == folder' = [folder EXCEPT ![w] = @ \cup items]

(* The upstream name is not checked here. *)
CheckName ==
    /\ pc = "name"
    /\ IF config["main"] # "none" THEN End("raised") ELSE Goto("folder")
    /\ UNCHANGED <<input, hasUp, files, docker, store, said>>

(* __post_init__ creates src, and asks when something is in it. *)
MakeFolder ==
    /\ pc = "folder"
    /\ \/ Put("main", {"dir"}) /\ Goto(IF args.repos THEN "clone" ELSE "existing")
       \/ Put("main", {"dir"}) /\ InSrc("main") /\ End("exited")
       \/ (Put("main", {"dir"}) \/ UNCHANGED folder) /\ End("raised")
    /\ UNCHANGED <<input, hasUp, cert, denied, docker, store, said>>

(* git clone, then vcs import of the main .repos file, if there is one. *)
CloneRepos ==
    /\ pc = "clone"
    /\ \/ Put("main", {"repos"}) /\ Goto("upstream")
       \/ folder' \in {folder, [folder EXCEPT !["main"] = @ \cup {"repos"}]} /\ End("raised")
    /\ UNCHANGED <<input, hasUp, cert, denied, docker, store, said>>

(* Faulty variant: the upstream src is not looked at before the removal. *)
UpstreamReposUnasked ==
    /\ pc = "upstream"
    /\ folder' = [folder EXCEPT !["up"] = {}]
    /\ Goto("existing")
    /\ UNCHANGED <<input, hasUp, cert, denied, docker, store, said>>

(* The upstream .repos file, if the clone contains one. *)
UpstreamRepos ==
    /\ pc = "upstream"
    /\ \/ Goto("existing") /\ UNCHANGED <<hasUp, folder>>
       \/ Put("up", {"dir"}) /\ InSrc("up") /\ End("exited") /\ UNCHANGED hasUp
       \/ (* no folder, or an import that stops at one of the repositories *)
          /\ \E items \in {{}, {"dir"}, {"dir", "repos"}} : Put("up", items)
          /\ End("raised")
          /\ UNCHANGED hasUp
       \/ Put("up", {"dir", "repos"}) /\ Goto("existing") /\ hasUp' = TRUE
       \/ ~InSrc("up") /\ Put("up", {"dir"}) /\ Goto("existing") /\ hasUp' = TRUE
       \/ (* nothing imported: the user lets the folder be removed *)
          /\ ~InSrc("up")
          /\ folder' = [folder EXCEPT !["up"] = {}]
          /\ Goto("existing")
          /\ UNCHANGED hasUp
       \/ (* a removal that stops half-way *)
          /\ ~InSrc("up")
          /\ \E items \in SUBSET folder["up"] :
                folder' = [folder EXCEPT !["up"] = {"dir"} \cup items]
          /\ EndEarly
          /\ hasUp' = TRUE
    /\ UNCHANGED <<input, cert, denied, docker, store, said>>

Forget ==
    /\ upd' = "load" /\ loaded' = NoEntries /\ backup' = NoEntries
    /\ stored' = [w \in Ws |-> "load"]

(* Faulty variant: the name is not looked up. *)
LoadUnchecked(w) ==
    /\ upd = "load" /\ upd' = "back up"
    /\ loaded' = config
    /\ stored' = [v \in Ws |-> "load"]
    /\ UNCHANGED <<config, backup, dropped>>

(* update_workspaces_config loads the file and refuses a name that is in   *)
(* it,                                                                     *)
Load(w) ==
    /\ upd = "load" /\ upd' = "back up"
    /\ config[w] = "none"
    /\ loaded' = config
    /\ stored' = [v \in Ws |-> "load"]
    /\ UNCHANGED <<config, backup, dropped>>

(* copies the file as it is now,                                           *)
BackUp ==
    /\ upd = "back up" /\ upd' = "save"
    /\ backup' = config
    /\ UNCHANGED <<config, loaded, stored, dropped>>

(* and writes all entries it loaded, with the new one.                     *)
Save(w) ==
    /\ upd = "save"
    /\ config' = [loaded EXCEPT ![w] = "ours"]
    /\ Forget
    /\ UNCHANGED dropped

(* Each step may fail or be cut short, the write when the file is already  *)
(* emptied.                                                                *)
BreakOff ==
    /\ UNCHANGED config \/ (upd = "save" /\ config' = NoEntries)
    /\ Forget
    /\ UNCHANGED dropped

(* A step of the update that stores the entry for w; then the command does *)
(* what after says.                                                        *)
Update(w, after) ==
    \/ (Load(w) \/ BackUp) /\ UNCHANGED <<pc, outcome, endedAt>>
    \/ Save(w) /\ after
    \/ BreakOff /\ End("raised")

(* --add-existing-workspace: the folder test cannot fail after makedirs.   *)
AddExisting ==
    /\ pc = "existing"
    /\ IF args.existing THEN Update("main", End("returned"))
                        ELSE Goto("checks") /\ UNCHANGED store
    /\ UNCHANGED <<input, hasUp, files, docker, said>>

(* The environment file may be missing, the container there already;       *)
(* docker_container_exists is FALSE too when docker answers with an error, *)
(* and raises when there is no daemon.                                     *)
Checks ==
    /\ pc = "checks"
    /\ \/ End("raised")
       \/ Goto(IF args.docker THEN "build" ELSE "commands")
    /\ UNCHANGED <<input, hasUp, files, docker, store, said>>

(* delete_workspace_resources: removals that docker refuses are only       *)
(* logged; the folders go with all they contain.                           *)
DeleteDocker(img) ==
    /\ IF args.docker
         THEN /\ ctr' \in {"none", ctr}
              /\ image' \in {"none", img}
              /\ stuck' = (stuck \/ ctr' # "none" \/ image' # "none")
         ELSE UNCHANGED <<ctr, image, stuck>>
    /\ UNCHANGED inter

(* Faulty variant: the upstream folder is forgotten. *)
DeleteMainFolder(f) ==
    folder' = IF args.standalone THEN f ELSE [f EXCEPT !["main"] = {}]

DeleteFolders(f) ==
    folder' = IF args.standalone THEN f
              ELSE [w \in Ws |-> IF w = "main" \/ hasUp THEN {} ELSE f[w]]

(* rmtree raises on the first file it may not remove. *)
RmtreeFails(f) ==
    \/ \E items \in SUBSET f["main"] : folder' = [f EXCEPT !["main"] = {"dir"} \cup items]
    \/ /\ hasUp
       /\ \E items \in SUBSET f["up"] :
             folder' = [w \in Ws |-> IF w = "main" THEN {} ELSE {"dir"} \cup items]

DeleteFoldersFails(f) == ~args.standalone /\ RmtreeFails(f)

(* The Dockerfile of create takes the place of one of the user. *)
WithDockerfile == [folder EXCEPT !["main"] = (@ \ {"dockerfile"}) \cup {"build"}]

(* build_intermediate_docker_image: the Dockerfile goes into {ws}/docker,  *)
(* the certificate into the parent of the workspace, the build context.    *)
(* main does not catch what the copy raises, for instance for a            *)
(* certificate that lies there already.                                    *)
PrepareBuild ==
    /\ pc = "build"
    /\ folder' = WithDockerfile
    /\ \/ cert' = args.cert /\ Goto("building") /\ UNCHANGED denied
       \/ args.cert /\ cert' \in BOOLEAN /\ denied' = TRUE /\ End("raised")
    /\ UNCHANGED <<input, hasUp, docker, store, said>>

(* No Dockerfile or no certificate: everything is deleted, unasked. *)
PrepareFails ==
    /\ pc = "build"
    /\ DeleteDocker(image)
    /\ \E f \in {folder, WithDockerfile} : DeleteFolders(f) \/ DeleteFoldersFails(f)
    /\ EndEarly
    /\ UNCHANGED <<input, hasUp, cert, denied, store, said>>

(* The certificate leaves the context; only a daemon lost after the build  *)
(* raises past the clean-up.                                               *)
BuildSucceeds ==
    /\ pc = "building"
    /\ image' = "built"
    /\ cert' = FALSE
    /\ Goto("container") \/ End("raised")
    /\ UNCHANGED <<input, hasUp, folder, denied, ctr, inter, stuck, store, said>>

(* Faulty variant: the certificate is removed only after a success. *)
BuildFailsCertKept ==
    /\ pc = "building"
    /\ UNCHANGED cert
    /\ DeleteDocker(image)
    /\ DeleteFolders(folder) \/ DeleteFoldersFails(folder)
    /\ EndEarly
    /\ UNCHANGED <<input, hasUp, denied, store, said>>

(* A failed build or tag test: the certificate leaves the context, and     *)
(* everything is deleted, unasked.                                         *)
BuildFails ==
    /\ pc = "building"
    /\ cert' = FALSE
    /\ DeleteDocker(image) \/ DeleteDocker("built")
    /\ DeleteFolders(folder) \/ DeleteFoldersFails(folder)
    /\ EndEarly
    /\ UNCHANGED <<input, hasUp, denied, store, said>>

(* docker build cannot be started, or the certificate cannot be removed    *)
(* after it: main does not catch this either.                              *)
BuildRaises ==
    /\ pc = "building"
    /\ denied' = TRUE
    /\ image' \in {image, "built"}
    /\ End("raised")
    /\ UNCHANGED <<input, hasUp, folder, cert, ctr, inter, stuck, store, said>>

(* Faulty variant: after a kept failure the commands are run once more.    *)
RunIntermediateRetries ==
    /\ pc \in {"container", "again"}
    /\ \/ inter' = inter + 1 /\ Goto("commands")
       \/ inter' = inter /\ End("raised")
    /\ UNCHANGED <<input, hasUp, files, image, ctr, stuck, store, said>>

(* run_intermediate_container, first and (after a kept failure) again. *)
RunIntermediate ==
    /\ pc \in {"container", "again"}
    /\ \/ inter' = inter + 1 /\ Goto(IF pc = "again" THEN "permissions" ELSE "commands")
       \/ inter' = inter /\ End("raised")
    /\ UNCHANGED <<input, hasUp, files, image, ctr, stuck, store, said>>

(* docker_stop of the current intermediate container (run with --rm): its  *)
(* result is never looked at.                                              *)
StopIntermediate ==
    \/ inter' = inter - 1 /\ UNCHANGED stuck
    \/ inter' = inter /\ stuck' = TRUE

(* What colcon leaves in the folders; a standalone image has no volumes. *)
Compiled ==
    IF args.docker /\ args.standalone THEN folder
    ELSE [w \in Ws |-> IF w = "main" \/ hasUp THEN folder[w] \cup {"build"} ELSE folder[w]]

(* get_ws_cmds and execute_ws_cmds. *)
RunCommands ==
    /\ pc = "commands"
    /\ folder' \in {folder, Compiled}
    /\ \/ /\ folder' = Compiled \/ args.ignore
          /\ Goto(IF args.docker THEN "permissions" ELSE "record up")
          /\ UNCHANGED <<inter, stuck>>
       \/ /\ ~args.ignore
          /\ Goto("ask")
          /\ IF args.docker THEN StopIntermediate ELSE UNCHANGED <<inter, stuck>>
    /\ UNCHANGED <<input, hasUp, cert, denied, image, ctr, store, said>>

(* handle_failed_workspace_creation, the answers yes and Ctrl-C (None):    *)
(* both return True, and main goes on in the same way.                     *)
KeepFailed ==
    /\ pc = "ask"
    /\ said' \in {"yes", "cancel"}
    /\ Goto(IF args.docker THEN "again" ELSE "record up")
    /\ UNCHANGED <<input, hasUp, files, docker, store>>

(* The answer no. *)
DeleteFailed ==
    /\ pc = "ask"
    /\ said' = "no"
    /\ DeleteDocker(image)
    /\ \/ DeleteFolders(folder) /\ End("returned")
       \/ DeleteFoldersFails(folder) /\ EndEarly
       \/ args.docker /\ UNCHANGED folder /\ EndEarly
    /\ UNCHANGED <<input, hasUp, cert, denied, store>>

(* Faulty variant: raises without stopping the container. *)
FixPermissionsNoStop ==
    /\ pc = "permissions"
    /\ Goto("setup") \/ End("raised")
    /\ UNCHANGED <<input, hasUp, files, docker, store, said>>

(* change_ws_folder_permissions. *)
FixPermissions ==
    /\ pc = "permissions"
    /\ \/ Goto("setup") /\ UNCHANGED <<inter, stuck>>
       \/ StopIntermediate /\ End("raised")
    /\ UNCHANGED <<input, hasUp, files, image, ctr, store, said>>

(* setup_rtw_in_intermediate_image: every failure stops the container,     *)
(* except a missing /etc/skel/.bashrc, a failed chown of the home, and a   *)
(* daemon lost before the commit.                                          *)
SetupImage ==
    /\ pc = "setup"
    /\ \/ image' = "committed" /\ StopIntermediate /\ Goto("rocker")
       \/ UNCHANGED image /\ StopIntermediate /\ End("raised")
       \/ UNCHANGED <<image, inter, stuck>> /\ End("raised")
    /\ UNCHANGED <<input, hasUp, files, ctr, store, said>>

(* generate_rocker_flags raises for an unknown group; rocker may leave a   *)
(* container behind even if it reports an error.                           *)
RunRocker ==
    /\ pc = "rocker"
    /\ \/ End("raised") /\ UNCHANGED ctr
       \/ ctr' = "ours" /\ Goto("record up")
       \/ ctr' \in {ctr, "ours"} /\ (Goto("record up") \/ End("exited"))
    /\ UNCHANGED <<input, hasUp, files, image, inter, stuck, store, said>>

(* Faulty variant: main ends after the upstream entry. *)
RecordUpstreamOnly ==
    /\ pc = "record up"
    /\ IF hasUp THEN Update("up", End("returned"))
                ELSE Goto("record main") /\ UNCHANGED store
    /\ UNCHANGED <<input, hasUp, files, docker, said>>

(* First the upstream entry, then the main one: two updates of the file. *)
RecordUpstream ==
    /\ pc = "record up"
    /\ IF hasUp THEN Update("up", Goto("record main"))
                ELSE Goto("record main") /\ UNCHANGED store
    /\ UNCHANGED <<input, hasUp, files, docker, said>>

(* Faulty variant: the local files of every workspace are removed. *)
RecordMainRemoves ==
    /\ pc = "record main"
    /\ Update("main", Goto("remove"))
    /\ UNCHANGED <<input, hasUp, files, docker, said>>

RecordMain ==
    /\ pc = "record main"
    /\ Update("main", IF args.standalone THEN Goto("remove") ELSE End("returned"))
    /\ UNCHANGED <<input, hasUp, files, docker, said>>

(* The local files of a standalone workspace, docker or not. *)
RemoveLocalFiles ==
    /\ pc = "remove"
    /\ \/ folder' = [w \in Ws |-> IF w = "main" \/ hasUp THEN {} ELSE folder[w]] /\ End("returned")
       \/ RmtreeFails(folder) /\ EndEarly
    /\ UNCHANGED <<input, hasUp, cert, denied, docker, store, said>>

(* Ctrl-C or a kill: no handler of create cleans anything up. *)
Interrupt ==
    /\ Interrupts
    /\ pc # "ended"
    /\ BreakOff
    /\ End("interrupted")
    /\ UNCHANGED <<input, hasUp, files, docker, said>>

(* Another rtw command writes the file: it has added entries, perhaps of   *)
(* our names, to what it loaded before our last update, or before both.    *)
OtherSaves ==
    /\ Others
    /\ pc # "ended"
    /\ \E older \in {{}, {"main"}, Ws} :
         LET copy == [w \in Ws |-> IF w \in older /\ config[w] = "ours" THEN "none"
                                   ELSE config[w]]
         IN /\ \E new \in SUBSET {w \in Ws : copy[w] = "none"} :
                  /\ config' = [w \in Ws |-> IF w \in new THEN "theirs" ELSE copy[w]]
                  /\ stored' = [w \in Ws |-> IF w \in new THEN upd ELSE stored[w]]
            /\ dropped' = (dropped \/ copy # config)
    /\ UNCHANGED <<input, pc, hasUp, files, docker, upd, loaded, backup, outcome, said, endedAt>>

Done == pc = "ended" /\ UNCHANGED vars

Next ==
    \/ CheckName \/ MakeFolder \/ CloneRepos \/ UpstreamRepos \/ AddExisting \/ Checks
    \/ PrepareBuild \/ PrepareFails \/ BuildSucceeds \/ BuildFails \/ BuildRaises
    \/ RunIntermediate \/ RunCommands \/ KeepFailed \/ DeleteFailed
    \/ FixPermissions \/ SetupImage \/ RunRocker
    \/ RecordUpstream \/ RecordMain \/ RemoveLocalFiles \/ Interrupt \/ OtherSaves \/ Done

Spec == Init /\ [][Next]_vars

-----------------------------------------------------------------------------
(* The type of every variable; at most two containers run at a time. *)
TypeOK ==
    /\ args \in Flags
    /\ pc \in Step
    /\ hasUp \in BOOLEAN
    /\ folder \in [Ws -> SUBSET Item]
    /\ cert \in BOOLEAN
    /\ image \in {"none", "foreign", "built", "committed"}
    /\ ctr \in {"none", "foreign", "ours"}
    /\ inter \in 0..2
    /\ upd \in {"load", "back up", "save"}
    /\ config \in [Ws -> {"none", "ours", "theirs"}]
    /\ loaded \in [Ws -> {"none", "ours", "theirs"}]
    /\ backup \in [Ws -> {"none", "ours", "theirs"}]
    /\ outcome \in {"none", "returned", "raised", "exited", "interrupted"}
    /\ before \in [Ws -> SUBSET Item]
    /\ said \in {"nothing", "yes", "no", "cancel"}
    /\ endedAt \in Step
    /\ stuck \in BOOLEAN /\ denied \in BOOLEAN /\ dropped \in BOOLEAN
    /\ stored \in [Ws -> {"load", "back up", "save"}]

(* An entry of another command, perhaps one that took the name during the  *)
(* build, goes only in a save of create that was overtaken: it was stored  *)
(* after create had loaded the file, or the save broke off and left the    *)
(* file empty.  The backup of this update then has the entry, unless it    *)
(* was stored after the backup.                                            *)
TheirsKept ==
    [][\A w \in Ws : config[w] = "theirs" /\ config'[w] # "theirs" =>
          /\ stored[w] # "load" \/ (config' = NoEntries /\ outcome' \notin {"none", "returned"})
          /\ backup[w] = "theirs" \/ stored[w] = "save"]_vars

(* A recorded workspace can be used: its folder is there, or the image     *)
(* that holds it.  A standalone workspace without docker has neither.      *)
EntryHasHome ==
    config["main"] = "ours" /\ pc = "ended" =>
        \/ folder["main"] # {}
        \/ args.docker /\ image = "committed"
        \/ args.standalone /\ ~args.docker

(* Both entries or none: an upstream entry stays alone only when the       *)
(* second of the two updates fails or is cut short, and the main one names *)
(* an upstream workspace that is there; unless another command wrote an    *)
(* older file over them.                                                   *)
BothOrNeither ==
    pc = "ended" /\ ~dropped =>
        /\ config["up"] = "ours" /\ config["main"] # "ours" =>
              endedAt = "record main" /\ outcome # "returned"
        /\ config["main"] = "ours" /\ hasUp /\ ~args.existing => config["up"] = "ours"

(* An intermediate container outlives the command only when docker would   *)
(* not stop it, after an interrupt, or on the two ways out of              *)
(* setup_rtw_in_intermediate_image that do not stop it.                    *)
NoContainerLeft ==
    inter # 0 /\ pc = "ended" =>
        stuck \/ outcome = "interrupted" \/ (endedAt = "setup" /\ outcome = "raised")

(* The certificate is removed once the build is over (index.rst:246),      *)
(* whether it went well or not and whatever docker refuses meanwhile: it   *)
(* stays only after an interrupt, or when the system refused to copy it,   *)
(* to start the build or to remove it.                                     *)
CertificateRemoved ==
    cert => pc = "building" \/ outcome = "interrupted"
            \/ (denied /\ outcome = "raised" /\ endedAt \in {"build", "building"})

(* After "no", nothing of the workspace is left that docker agreed to      *)
(* remove, and nothing was recorded.                                       *)
DeclinedLeavesNothing ==
    said = "no" /\ outcome = "returned" =>
        /\ \A w \in Ws : config[w] # "ours"
        /\ args.standalone \/ folder["main"] = {}
        /\ hasUp /\ ~args.standalone => folder["up"] = {}
        /\ args.docker /\ ~stuck => image = "none" /\ ctr = "none" /\ inter = 0

(* "User cancelled. Workspace will be kept but not added to config."       *)
(* (create_verb.py:1222)                                                   *)
CancelNotRecorded == said = "cancel" => config["main"] # "ours"

(* The Dockerfile of the user is overwritten by every build of an image.   *)
Spared(w) == (before[w] \cap Own) \ (IF w = "main" /\ args.docker THEN {"dockerfile"} ELSE {})

(* What else the user had in the two folders goes only where create        *)
(* removes a whole folder: after a failed build of the image (unasked) or  *)
(* the answer no, unless the workspace is standalone; with the local files *)
(* of a standalone one; and with an upstream folder whose src is empty.    *)
(* The upstream folder is safe when nothing was imported into it.          *)
OwnFilesKept ==
    \A w \in Ws : ~(Spared(w) \subseteq folder[w]) =>
        \/ /\ w = "main" \/ hasUp
           /\ pc = "ended"
           /\ IF args.standalone THEN endedAt = "remove"
              ELSE endedAt \in {"build", "building"} \/ said = "no"
        \/ /\ w = "up" /\ "sources" \notin before["up"]
           /\ ~hasUp \/ endedAt = "upstream"

(* "If you choose 'no', all created files will be deleted"                 *)
(* (create_verb.py:1216): created, not found.                              *)
OnlyCreatedDeleted ==
    said = "no" => Spared("main") \subseteq folder["main"]
=============================================================================

------------------------------ MODULE DeleteVerb ------------------------------
(***************************************************************************)
(* `rtw workspace delete', run again and again: for each chosen workspace  *)
(* its docker container, its docker image, its folder and its entry in     *)
(* workspaces.yaml are removed in this order, and the first failure ends   *)
(* the run.                                                                *)
(*                                                                         *)
(* A box is a docker image with the container made from it: create gives   *)
(* both the same tag, and gives one box to a workspace and its upstream.   *)
(***************************************************************************)
EXTENDS Naturals, FiniteSets, Sequences, SequencesExt

CONSTANTS
    Name,       \* workspace names
    Box,        \* docker images with their containers
    NoBox,      \* no tag and no container name, in an entry without docker
    Item,       \* things in a workspace folder
    Entries,    \* the attributes an entry may have
    MaxFaults   \* bound: failures of docker, disk and user over all runs

ASSUME DeleteAssumption ==
    /\ NoBox \notin Box /\ MaxFaults \in Nat /\ IsFiniteSet(Name)
    /\ Entries \subseteq [docker : BOOLEAN, standalone : BOOLEAN, box : Box \cup {NoBox}]
    /\ \A e \in Entries : e.docker => e.box # NoBox

VARIABLES
    attr,     \* the attributes of each entry
    file,     \* the names in workspaces.yaml
    ctr,      \* the container of each box
    image,    \* the boxes whose image exists
    folder,   \* the items of each workspace folder; {} is no folder
    pc,       \* the next step of the running delete, "idle" if none runs
    config,   \* the names in the WorkspacesConfig in memory
    todo,     \* the names still to delete, the current one first
    status,   \* removal_stats
    shown,    \* the items the user chooses from
    chosen,   \* the items the user has chosen
    faults,   \* failures so far
    (* history variables *)
    misread,  \* a query that docker refused was read as "does not exist"
    kept,     \* the user left something, or the folder was empty
    spoilt,   \* a failed save emptied workspaces.yaml
    late      \* items added to the current folder since it was listed

docker == <<ctr, image>>
run == <<config, todo, status, shown, chosen>>
ghosts == <<misread, kept, spoilt, late>>
vars == <<attr, file, docker, folder, pc, run, faults, ghosts>>

(* A folder that exists contains at least "dir". *)
Folders == {{}} \cup {{"dir"} \cup s : s \in SUBSET Item}
Cur == Head(todo)
MyBox == attr[Cur].box

Init ==
    /\ attr \in [Name -> Entries]
    /\ file \in SUBSET Name
    /\ image \in SUBSET Box
    /\ ctr \in [Box -> {"none", "running"}]
    /\ \A b \in Box : ctr[b] # "none" => b \in image
    /\ folder \in [Name -> {{}, {"dir"} \cup Item}]
    /\ pc = "idle"
    /\ config = {} /\ todo = <<>> /\ shown = {} /\ chosen = {}
    /\ status = [n \in Name |-> "none"]
    /\ faults = 0
    /\ misread = {} /\ kept = {} /\ spoilt = FALSE /\ late = {}

-----------------------------------------------------------------------------
Fault == faults < MaxFaults /\ faults' = faults + 1

(* Faulty: the loop goes on after the last workspace. *)
NextWithoutEnd == todo' = Tail(todo) /\ pc' = "next"
NextWorkspace ==
    /\ todo' = Tail(todo)
    /\ pc' = IF Len(todo) = 1 THEN "idle" ELSE "next"

(* Faulty: the next workspace is tried. *)
TryNext(how) ==
    /\ status' = [status EXCEPT ![Cur] = how]
    /\ NextWorkspace
    /\ shown' = {} /\ chosen' = {}

(* RemovalStep.execute and remove_workspaces: the first step that fails    *)
(* ends the run; the workspaces after it are not started.                  *)
EndRun(how) ==
    /\ status' = [status EXCEPT ![Cur] = how]
    /\ pc' = "idle"
    /\ todo' = <<>>
    /\ shown' = {} /\ chosen' = {}

StepFails == EndRun("failed") /\ UNCHANGED config
StepRaises == EndRun("exception") /\ UNCHANGED config
Goto(step) == pc' = step /\ UNCHANGED run

(* REMOVAL_STEPS: should_run skips what does not apply. *)
FolderStep(n) == IF attr[n].standalone THEN "config" ELSE "folder"

(* Names from the command line (one, of any workspace) or from the list.   *)
(* Without workspaces the verb returns at once.                            *)
Start(names) ==
    /\ pc = "idle"
    /\ file # {}
    /\ config' = file
    /\ todo' = names
    /\ status' = [n \in Name |-> IF n \in ToSet(names) THEN "not started" ELSE "none"]
    /\ pc' = "next"
    /\ UNCHANGED <<attr, file, docker, folder, shown, chosen, faults, ghosts>>

Selections == {<<n>> : n \in Name} \cup {s \in SetToAllKPermutations(file) : s # <<>>}

(* A name that is not in the configuration does not end the run. *)
NotFound ==
    /\ pc = "next"
    /\ Cur \notin config
    /\ status' = [status EXCEPT ![Cur] = "not found"]
    /\ NextWorkspace
    /\ UNCHANGED <<attr, file, docker, folder, config, shown, chosen, faults, ghosts>>

Begin ==
    /\ pc = "next"
    /\ Cur \in config
    /\ Goto(IF attr[Cur].docker THEN "container" ELSE FolderStep(Cur))
    /\ misread' = misread \ {Cur} /\ kept' = kept \ {Cur}
    /\ UNCHANGED <<attr, file, docker, folder, faults, spoilt, late>>

(* Faulty: a container that is not there is a failure. *)
MissingContainerFails ==
    /\ pc = "container"
    /\ ctr[MyBox] = "none" /\ StepFails
    /\ UNCHANGED <<attr, file, docker, folder, faults, ghosts>>

ContainerMissing ==
    /\ pc = "container"
    /\ ctr[MyBox] = "none" /\ Goto("image")
    /\ UNCHANGED <<attr, file, docker, folder, faults, ghosts>>

StopContainer ==
    /\ pc = "container"
    /\ ctr[MyBox] # "none"
    /\ \/ ctr' = [ctr EXCEPT ![MyBox] = "stopped"] /\ Goto("remove") /\ UNCHANGED faults
       \/ Fault /\ StepFails /\ UNCHANGED ctr
    /\ UNCHANGED <<attr, file, image, folder, ghosts>>

(* Without force, a container that runs again is not removed. *)
RemoveContainer ==
    /\ pc = "remove"
    /\ \/ ctr[MyBox] = "stopped" /\ ctr' = [ctr EXCEPT ![MyBox] = "none"]
          /\ Goto("image") /\ UNCHANGED faults
       \/ ctr[MyBox] # "stopped" /\ StepFails /\ UNCHANGED <<ctr, faults>>
       \/ Fault /\ StepFails /\ UNCHANGED ctr
    /\ UNCHANGED <<attr, file, image, folder, ghosts>>

(* Faulty: the image step passes over an image docker will not remove. *)
RemoveImageOrNot ==
    /\ pc = "image"
    /\ \/ image' = image \ {MyBox} /\ ctr[MyBox] = "none"
       \/ UNCHANGED image
    /\ Goto(FolderStep(Cur))
    /\ UNCHANGED <<attr, file, ctr, folder, faults, ghosts>>

(* An image with a container is not removed, for it is in use. *)
RemoveImage ==
    /\ pc = "image"
    /\ \/ (MyBox \notin image \/ ctr[MyBox] = "none") /\ image' = image \ {MyBox}
          /\ Goto(FolderStep(Cur)) /\ UNCHANGED faults
       \/ MyBox \in image /\ ctr[MyBox] # "none" /\ StepFails /\ UNCHANGED <<image, faults>>
       \/ MyBox \in image /\ Fault /\ StepFails /\ UNCHANGED image
    /\ UNCHANGED <<attr, file, ctr, folder, ghosts>>

(* An APIError of the query counts as "does not exist"; any other error    *)
(* ends the run.                                                           *)
DockerQueryFails ==
    /\ pc \in {"container", "image"}
    /\ Fault
    /\ \/ Goto(IF pc = "container" THEN "image" ELSE FolderStep(Cur))
          /\ misread' = misread \cup {Cur}
       \/ StepRaises /\ UNCHANGED misread
    /\ UNCHANGED <<attr, file, docker, folder, kept, spoilt, late>>

ListFolder ==
    /\ pc = "folder"
    /\ IF folder[Cur] \subseteq {"dir"}
         THEN Goto("config") /\ kept' = kept \cup {Cur}
         ELSE /\ shown' = folder[Cur] \ {"dir"}
              /\ pc' = "ask"
              /\ UNCHANGED <<config, todo, status, chosen, kept>>
    /\ late' = {}
    /\ UNCHANGED <<attr, file, docker, folder, faults, misread, spoilt>>

(* The user ticks some of the items; a prompt that is cancelled fails.     *)
Select(items) ==
    /\ pc = "ask"
    /\ chosen' = items
    /\ pc' = "erase"
    /\ UNCHANGED <<attr, file, docker, folder, config, todo, status, shown, faults, ghosts>>

SelectCancelled ==
    /\ pc = "ask"
    /\ Fault
    /\ StepFails
    /\ UNCHANGED <<attr, file, docker, folder, ghosts>>

(* Faulty: any selection is taken for that of the whole folder. *)
NothingRemains == IF chosen = {} THEN folder[Cur] ELSE {}
(* If all the items that were shown are chosen, the folder goes as it is   *)
(* by now.                                                                 *)
Remaining == IF chosen = shown THEN {} ELSE folder[Cur] \ chosen

Erase ==
    /\ pc = "erase"
    /\ folder' = [folder EXCEPT ![Cur] = Remaining]
    /\ kept' = IF chosen = shown THEN kept ELSE kept \cup {Cur}
    /\ pc' = "config"
    /\ shown' = {} /\ chosen' = {}
    /\ UNCHANGED <<attr, file, docker, config, todo, status, faults, misread, spoilt, late>>

(* unlink or rmtree raises, or is interrupted, half-way. *)
EraseFails ==
    /\ pc = "erase"
    /\ Fault
    /\ EndRun("exception") \/ EndRun("interrupted")
    /\ \E gone \in SUBSET (folder[Cur] \ (Remaining \cup {"dir"})) :
          folder' = [folder EXCEPT ![Cur] = @ \ gone]
    /\ UNCHANGED <<attr, file, docker, config, ghosts>>

(* The entry is taken out of the configuration in memory, which is saved.  *)
RemoveFromConfig ==
    /\ pc = "config"
    /\ config' = config \ {Cur}
    /\ file' = config'
    /\ status' = [status EXCEPT ![Cur] = "completed"]
    /\ NextWorkspace
    /\ UNCHANGED <<attr, docker, folder, shown, chosen, faults, ghosts>>

(* The file cannot be opened, or is empty when the write fails. *)
SaveFails ==
    /\ pc = "config"
    /\ Fault
    /\ config' = config \ {Cur}
    /\ EndRun("failed")
    /\ \/ UNCHANGED <<file, spoilt>>
       \/ file' = {} /\ spoilt' = TRUE
    /\ UNCHANGED <<attr, docker, folder, misread, kept, late>>

(* Ctrl-C outside a prompt, or a kill: the step has had no effect yet, or  *)
(* has had it, which is Interrupt after the step.                          *)
Interrupt ==
    /\ pc # "idle"
    /\ Fault
    /\ EndRun("interrupted")
    /\ UNCHANGED <<attr, file, docker, folder, config, ghosts>>

(* Another terminal: `rtw docker enter' starts the container, a build or   *)
(* an editor adds to the folder.                                           *)
OthersStart ==
    /\ Fault
    /\ \E b \in Box : ctr[b] = "stopped" /\ ctr' = [ctr EXCEPT ![b] = "running"]
    /\ UNCHANGED <<attr, file, image, folder, pc, run, ghosts>>

OthersAdd ==
    /\ Fault
    /\ \E n \in Name, i \in Item :
          /\ folder[n] # {} /\ i \notin folder[n]
          /\ folder' = [folder EXCEPT ![n] = @ \cup {i}]
          /\ late' = IF pc \in {"ask", "erase"} /\ n = Cur THEN late \cup {i} ELSE late
    /\ UNCHANGED <<attr, file, docker, pc, run, misread, kept, spoilt>>

Steps ==
    \/ NotFound \/ Begin \/ ContainerMissing \/ StopContainer
    \/ RemoveContainer \/ RemoveImage \/ ListFolder \/ Erase \/ RemoveFromConfig
Faults ==
    \/ DockerQueryFails \/ SelectCancelled \/ EraseFails \/ SaveFails \/ Interrupt
    \/ OthersStart \/ OthersAdd
Done == pc = "idle" /\ file = {} /\ UNCHANGED vars

Next ==
    \/ \E names \in Selections : Start(names)
    \/ Steps
    \/ \E items \in SUBSET shown : Select(items)
    \/ Faults
    \/ Done

Spec == Init /\ [][Next]_vars

Asked(n) == todo # <<>> /\ Cur = n

(* The user runs delete again until every workspace is gone, and selects   *)
(* everything; the process runs to the end of each step.                   *)
LiveSpec ==
    /\ Spec
    /\ WF_vars(Steps)
    /\ \A n \in Name : SF_vars(Start(<<n>>)) /\ SF_vars(Asked(n) /\ Select(shown))

-----------------------------------------------------------------------------
(* The type of every variable of the deletes and their surroundings. *)
TypeOK ==
    /\ attr \in [Name -> Entries]
    /\ file \subseteq Name
    /\ ctr \in [Box -> {"none", "stopped", "running"}]
    /\ image \subseteq Box
    /\ folder \in [Name -> Folders]
    /\ pc \in {"idle", "next", "container", "remove", "image", "folder", "ask", "erase",
              "config"}
    /\ config \subseteq Name
    /\ todo \in Seq(Name) /\ (pc # "idle" => todo # <<>>)
    /\ status \in [Name -> {"none", "not started", "not found", "completed", "failed",
                            "exception", "interrupted"}]
    /\ shown \subseteq Item /\ chosen \subseteq Item /\ late \subseteq Item
    /\ faults \in 0..MaxFaults
    /\ misread \subseteq Name /\ kept \subseteq Name /\ spoilt \in BOOLEAN

(* A workspace whose removal failed keeps its entry, whatever the same run *)
(* did after or before: delete can be run again for it.                    *)
FailedStaysListed ==
    \A n \in Name : status[n] \in {"failed", "exception"} => n \in file \/ spoilt

(* An entry leaves workspaces.yaml only when nothing is left that it alone *)
(* names: no container, no image, no folder, unless docker did not answer  *)
(* a query or the user kept something.                                     *)
NothingLeftBehind ==
    [][\A n \in file \ file' : ~spoilt' =>
          /\ attr[n].docker /\ n \notin misread =>
                ctr[attr[n].box] = "none" /\ attr[n].box \notin image
          /\ ~attr[n].standalone /\ n \notin kept => folder[n] = {}]_vars

(* A delete takes from a folder nothing but what the user has chosen from  *)
(* the list of that folder.  Who chose all that was listed also loses the  *)
(* folder itself and what was put there since, but nothing that was there  *)
(* and not listed; and whatever is chosen, other folders stay as they are. *)
OnlyChosenGoes ==
    [][\A n \in Name : \A i \in folder[n] \ folder'[n] :
          /\ n = Cur /\ pc = "erase"
          /\ i \in chosen \/ (chosen = shown /\ i \in late \cup {"dir"})]_vars

(* However a run stops half-way, running delete again removes the          *)
(* workspace in the end: what is already gone is no failure.               *)
DeletedInTheEnd == \A n \in Name : n \in file ~> n \notin file
=============================================================================

--------------------------- MODULE DeleteVerbProofs ---------------------------
(***************************************************************************)
(* Proofs about DeleteVerb, for every finite set of workspaces, any        *)
(* attributes of their entries and any number of failures.                 *)
(***************************************************************************)
EXTENDS DeleteVerb, FiniteSetTheorems, SequenceTheorems, TLAPS

(* The types the invariants need. *)
RunType ==
    /\ attr \in [Name -> Entries]
    /\ file \subseteq Name
    /\ ctr \in [Box -> {"none", "stopped", "running"}]
    /\ image \subseteq Box
    /\ todo \in Seq(Name) /\ (pc # "idle" => todo # <<>>)
    /\ status \in [Name -> {"none", "not started", "not found", "completed", "failed",
                            "exception", "interrupted"}]
    /\ DOMAIN folder = Name

(* While a run goes on, its configuration is the file, and the workspace   *)
(* that it works on is in it.                                              *)
InStep ==
    /\ pc # "idle" => config = file
    /\ pc \notin {"idle", "next"} => Cur \in config

(* What is gone by each step of the run. *)
GoneAt ==
    /\ pc \in {"container", "remove", "image"} => attr[Cur].docker
    /\ pc = "image" /\ Cur \notin misread => ctr[MyBox] = "none"
    /\ pc \in {"folder", "ask", "erase", "config"} /\ attr[Cur].docker /\ Cur \notin misread =>
          ctr[MyBox] = "none" /\ MyBox \notin image
    /\ pc = "config" /\ ~attr[Cur].standalone /\ Cur \notin kept => folder[Cur] = {}

DeleteInv == RunType /\ InStep /\ GoneAt /\ FailedStaysListed

(* A selection is a list of names. *)
LEMMA SelectionType ==
    ASSUME NEW names \in Selections, file \subseteq Name
    PROVE  names \in Seq(Name) /\ names # <<>>
<1>1. CASE \E n \in Name : names = <<n>>
  BY <1>1
<1>2. CASE names \in SetToAllKPermutations(file) /\ names # <<>>
  <2>1. PICK s \in SUBSET file : names \in SetToSeqs(s)
    BY <1>2 DEF SetToAllKPermutations
  <2>2. IsFiniteSet(s)
    BY DeleteAssumption, FS_Subset
  <2>3. Cardinality(s) \in Nat
    BY <2>2, FS_CardinalityType
  <2>4. names \in [1..Cardinality(s) -> Name]
    BY <2>1 DEF SetToSeqs
  <2>5. QED
    BY <1>2, <2>3, <2>4
<1>3. QED
  BY <1>1, <1>2 DEF Selections

(* What the current workspace of a running delete is, and its box. *)
LEMMA CurType ==
    ASSUME RunType
    PROVE  /\ pc # "idle" => Cur \in Name /\ Tail(todo) \in Seq(Name)
           /\ pc # "idle" /\ Len(todo) # 1 => Tail(todo) # <<>>
           /\ pc # "idle" /\ attr[Cur].docker => MyBox \in Box
<1>1. ASSUME pc # "idle"
      PROVE  /\ Cur \in Name /\ Tail(todo) \in Seq(Name)
             /\ Len(todo) # 1 => Tail(todo) # <<>>
  <2>1. todo \in Seq(Name) /\ todo # <<>>
    BY <1>1 DEF RunType
  <2>2. Head(todo) \in Name /\ Tail(todo) \in Seq(Name)
    BY <2>1
  <2>3. Len(Tail(todo)) = Len(todo) - 1 /\ Len(todo) \in Nat /\ Len(<<>>) = 0
    BY <2>1
  <2>4. ASSUME Tail(todo) = <<>> PROVE Len(todo) = 1
    <3>1. Len(Tail(todo)) = 0
      BY <2>3, <2>4
    <3>2. QED
      BY <2>3, <3>1
  <2>5. QED
    BY <2>2, <2>4 DEF Cur
<1>2. \A n \in Name : attr[n].docker => attr[n].box \in Box
  <2>1. \A e \in Entries : e.docker => e.box # NoBox
    BY DeleteAssumption
  <2>2. \A e \in Entries : e.box \in Box \cup {NoBox}
    BY DeleteAssumption
  <2>3. \A n \in Name : attr[n] \in Entries
    BY DEF RunType
  <2>4. QED
    BY <2>1, <2>2, <2>3
<1>3. QED
  BY <1>1, <1>2 DEF MyBox

(* An end of the run keeps the types, and so does the next workspace. *)
LEMMA RunEnds ==
    ASSUME RunType, pc # "idle",
           (\E how \in {"failed", "exception", "interrupted"} : EndRun(how))
             \/ /\ NextWorkspace
                /\ \E how \in {"not found", "completed"} : status' = [status EXCEPT ![Cur] = how]
    PROVE  /\ todo' \in Seq(Name) /\ (pc' # "idle" => todo' # <<>>)
           /\ status' \in [Name -> {"none", "not started", "not found", "completed", "failed",
                                    "exception", "interrupted"}]
<1>1. Cur \in Name /\ Tail(todo) \in Seq(Name) /\ (Len(todo) # 1 => Tail(todo) # <<>>)
  BY CurType
<1>2. CASE \E how \in {"failed", "exception", "interrupted"} : EndRun(how)
  <2>1. todo' = <<>> /\ pc' = "idle"
    BY <1>2 DEF EndRun
  <2>2. <<>> \in Seq(Name)
    BY EmptySeq
  <2>3. QED
    BY <1>1, <1>2, <2>1, <2>2 DEF RunType, EndRun
<1>3. CASE /\ NextWorkspace
           /\ \E how \in {"not found", "completed"} : status' = [status EXCEPT ![Cur] = how]
  <2>1. todo' \in Seq(Name) /\ (pc' # "idle" => todo' # <<>>)
    BY <1>1, <1>3 DEF NextWorkspace
  <2>2. QED
    BY <1>1, <1>3, <2>1 DEF RunType
<1>4. QED
  BY <1>2, <1>3

(* Every step keeps the types of the run. *)
LEMMA RunStep ==
    ASSUME RunType, InStep, [Next]_vars
    PROVE  RunType'
<1> USE DEF docker, run, ghosts
<1>1. ASSUME NEW names \in Selections, Start(names) PROVE RunType'
  BY <1>1, SelectionType DEF RunType, Start
<1>2. ASSUME NEW items \in SUBSET shown, Select(items) PROVE RunType'
  BY <1>2, CurType DEF RunType, Select
<1>3. CASE NotFound
  BY RunEnds, CurType, <1>3 DEF RunType, NotFound
<1>4. CASE Begin
  BY RunEnds, CurType, <1>4 DEF RunType, Begin, FolderStep, Goto
<1>5. CASE ContainerMissing
  BY RunEnds, CurType, <1>5 DEF RunType, ContainerMissing, Goto
<1>6. CASE StopContainer
  BY RunEnds, CurType, <1>6 DEF RunType, StopContainer, Goto, StepFails
<1>7. CASE RemoveContainer
  BY RunEnds, CurType, <1>7 DEF RunType, RemoveContainer, Goto, StepFails
<1>8. CASE RemoveImage
  BY RunEnds, CurType, <1>8 DEF RunType, RemoveImage, FolderStep, Goto, StepFails
<1>9. CASE DockerQueryFails
  BY RunEnds, CurType, <1>9 DEF RunType, DockerQueryFails, FolderStep, Goto, StepRaises
<1>10. CASE ListFolder
  BY RunEnds, CurType, <1>10 DEF RunType, ListFolder, Goto
<1>11. CASE SelectCancelled
  BY RunEnds, CurType, <1>11 DEF RunType, SelectCancelled, StepFails
<1>12. CASE Erase
  BY CurType, <1>12 DEF RunType, Erase
<1>13. CASE EraseFails
  <2>1. \E how \in {"failed", "exception", "interrupted"} : EndRun(how)
    BY <1>13 DEF EraseFails
  <2>2. pc # "idle"
    BY <1>13 DEF EraseFails
  <2> QED
    BY RunEnds, <1>13, <2>1, <2>2 DEF RunType, EraseFails
<1>14. CASE RemoveFromConfig
  <2>1. todo' \in Seq(Name) /\ (pc' # "idle" => todo' # <<>>)
    BY RunEnds, <1>14 DEF RemoveFromConfig
  <2>2. status' \in [Name -> {"none", "not started", "not found", "completed", "failed",
                             "exception", "interrupted"}]
    BY RunEnds, <1>14 DEF RemoveFromConfig
  <2>3. file' \subseteq Name
    BY <1>14 DEF RunType, InStep, RemoveFromConfig
  <2>4. QED
    BY <1>14, <2>1, <2>2, <2>3 DEF RunType, RemoveFromConfig
<1>15. CASE SaveFails
  BY RunEnds, CurType, <1>15 DEF RunType, SaveFails
<1>16. CASE Interrupt
  BY RunEnds, CurType, <1>16 DEF RunType, Interrupt
<1>17. CASE OthersStart
  BY RunEnds, CurType, <1>17 DEF RunType, OthersStart
<1>18. CASE OthersAdd
  BY RunEnds, CurType, <1>18 DEF RunType, OthersAdd
<1>19. CASE UNCHANGED vars
  BY <1>19 DEF RunType, vars
<1>20. QED
  BY <1>1, <1>2, <1>3, <1>4, <1>5, <1>6, <1>7, <1>8, <1>9, <1>10, <1>11, <1>12,
     <1>13, <1>14, <1>15, <1>16, <1>17, <1>18, <1>19 DEF Next, Steps, Faults, Done

(* Only the run itself changes the file, and its configuration with it. *)
LEMMA InStepStep ==
    ASSUME RunType, InStep, [Next]_vars
    PROVE  InStep'
<1> USE DEF docker, run, ghosts
<1>1. ASSUME NEW names \in Selections, Start(names) PROVE InStep'
  BY <1>1 DEF InStep, Cur, Start
<1>2. ASSUME NEW items \in SUBSET shown, Select(items) PROVE InStep'
  BY <1>2 DEF InStep, Cur, Select
<1>3. CASE NotFound
  BY <1>3 DEF InStep, Cur, NotFound, NextWorkspace
<1>4. CASE Begin
  BY <1>4 DEF InStep, Cur, Begin, FolderStep, Goto
<1>5. CASE ContainerMissing
  BY <1>5 DEF InStep, Cur, ContainerMissing, Goto
<1>6. CASE StopContainer
  BY <1>6 DEF InStep, Cur, StopContainer, Goto, StepFails, EndRun
<1>7. CASE RemoveContainer
  BY <1>7 DEF InStep, Cur, RemoveContainer, Goto, StepFails, EndRun
<1>8. CASE RemoveImage
  BY <1>8 DEF InStep, Cur, RemoveImage, FolderStep, Goto, StepFails, EndRun
<1>9. CASE DockerQueryFails
  BY <1>9 DEF InStep, Cur, DockerQueryFails, FolderStep, Goto, StepRaises, EndRun
<1>10. CASE ListFolder
  BY <1>10 DEF InStep, Cur, ListFolder, Goto
<1>11. CASE SelectCancelled
  BY <1>11 DEF InStep, Cur, SelectCancelled, StepFails, EndRun
<1>12. CASE Erase
  BY <1>12 DEF InStep, Cur, Erase
<1>13. CASE EraseFails
  BY <1>13 DEF InStep, Cur, EraseFails, EndRun
<1>14. CASE RemoveFromConfig
  BY <1>14 DEF InStep, Cur, RemoveFromConfig, NextWorkspace
<1>15. CASE SaveFails
  BY <1>15 DEF InStep, Cur, SaveFails, EndRun
<1>16. CASE Interrupt
  BY <1>16 DEF InStep, Cur, Interrupt, EndRun
<1>17. CASE OthersStart
  BY <1>17 DEF InStep, Cur, OthersStart
<1>18. CASE OthersAdd
  BY <1>18 DEF InStep, Cur, OthersAdd
<1>19. CASE UNCHANGED vars
  BY <1>19 DEF InStep, Cur, vars
<1>20. QED
  BY <1>1, <1>2, <1>3, <1>4, <1>5, <1>6, <1>7, <1>8, <1>9, <1>10, <1>11, <1>12,
     <1>13, <1>14, <1>15, <1>16, <1>17, <1>18, <1>19 DEF Next, Steps, Faults, Done

(* What the run has removed does not come back. *)
LEMMA GoneStep ==
    ASSUME RunType, GoneAt, [Next]_vars
    PROVE  GoneAt'
<1> USE DEF docker, run, ghosts
<1>1. ASSUME NEW names \in Selections, Start(names) PROVE GoneAt'
  BY <1>1 DEF GoneAt, Cur, MyBox, Start
<1>2. ASSUME NEW items \in SUBSET shown, Select(items) PROVE GoneAt'
  BY CurType, <1>2 DEF RunType, GoneAt, Cur, MyBox, Select
<1>3. CASE NotFound
  BY CurType, <1>3 DEF RunType, GoneAt, Cur, MyBox, NotFound, NextWorkspace
<1>4. CASE Begin
  BY CurType, <1>4 DEF RunType, GoneAt, Cur, MyBox, Begin, FolderStep, Goto
<1>5. CASE ContainerMissing
  BY CurType, <1>5 DEF RunType, GoneAt, Cur, MyBox, ContainerMissing, Goto
<1>6. CASE StopContainer
  BY CurType, <1>6 DEF RunType, GoneAt, Cur, MyBox, StopContainer, Goto, StepFails, EndRun
<1>7. CASE RemoveContainer
  BY CurType, <1>7 DEF RunType, GoneAt, Cur, MyBox, RemoveContainer, Goto, StepFails, EndRun
<1>8. CASE RemoveImage
  BY CurType, <1>8 DEF RunType, GoneAt, Cur, MyBox, RemoveImage, FolderStep, Goto,
     StepFails, EndRun
<1>9. CASE DockerQueryFails
  BY CurType, <1>9 DEF RunType, GoneAt, Cur, MyBox, DockerQueryFails, FolderStep, Goto,
     StepRaises, EndRun
<1>10. CASE ListFolder
  BY CurType, <1>10 DEF RunType, GoneAt, Cur, MyBox, ListFolder, Goto
<1>11. CASE SelectCancelled
  BY CurType, <1>11 DEF RunType, GoneAt, Cur, MyBox, SelectCancelled, StepFails, EndRun
<1>12. CASE Erase
  BY CurType, <1>12 DEF RunType, GoneAt, Cur, MyBox, Erase, Remaining
<1>13. CASE EraseFails
  BY CurType, <1>13 DEF RunType, GoneAt, Cur, MyBox, EraseFails, EndRun
<1>14. CASE RemoveFromConfig
  BY CurType, <1>14 DEF RunType, GoneAt, Cur, MyBox, RemoveFromConfig, NextWorkspace
<1>15. CASE SaveFails
  BY CurType, <1>15 DEF RunType, GoneAt, Cur, MyBox, SaveFails, EndRun
<1>16. CASE Interrupt
  BY CurType, <1>16 DEF RunType, GoneAt, Cur, MyBox, Interrupt, EndRun
<1>17. CASE OthersStart
  BY CurType, <1>17 DEF RunType, GoneAt, Cur, MyBox, OthersStart
<1>18. CASE OthersAdd
  BY CurType, <1>18 DEF RunType, GoneAt, Cur, MyBox, OthersAdd
<1>19. CASE UNCHANGED vars
  BY <1>19 DEF GoneAt, Cur, MyBox, vars
<1>20. QED
  BY <1>1, <1>2, <1>3, <1>4, <1>5, <1>6, <1>7, <1>8, <1>9, <1>10, <1>11, <1>12,
     <1>13, <1>14, <1>15, <1>16, <1>17, <1>18, <1>19 DEF Next, Steps, Faults, Done

(* A run that fails leaves the entry it worked on. *)
LEMMA FailedStep ==
    ASSUME RunType, InStep, FailedStaysListed, [Next]_vars
    PROVE  FailedStaysListed'
<1> USE DEF docker, run, ghosts
<1>1. ASSUME NEW names \in Selections, Start(names) PROVE FailedStaysListed'
  BY <1>1 DEF FailedStaysListed, Start
<1>2. ASSUME NEW items \in SUBSET shown, Select(items) PROVE FailedStaysListed'
  BY <1>2 DEF FailedStaysListed, Select
<1>3. CASE NotFound
  BY CurType, <1>3 DEF RunType, InStep, FailedStaysListed, NotFound, NextWorkspace
<1>4. CASE Begin
  BY CurType, <1>4 DEF RunType, InStep, FailedStaysListed, Begin, FolderStep, Goto
<1>5. CASE ContainerMissing
  BY CurType, <1>5 DEF RunType, InStep, FailedStaysListed, ContainerMissing, Goto
<1>6. CASE StopContainer
  BY CurType, <1>6 DEF RunType, InStep, FailedStaysListed, StopContainer, Goto, StepFails,
     EndRun
<1>7. CASE RemoveContainer
  BY CurType, <1>7 DEF RunType, InStep, FailedStaysListed, RemoveContainer, Goto,
     StepFails, EndRun
<1>8. CASE RemoveImage
  BY CurType, <1>8 DEF RunType, InStep, FailedStaysListed, RemoveImage, FolderStep, Goto,
     StepFails, EndRun
<1>9. CASE DockerQueryFails
  BY CurType, <1>9 DEF RunType, InStep, FailedStaysListed, DockerQueryFails, FolderStep,
     Goto, StepRaises, EndRun
<1>10. CASE ListFolder
  BY CurType, <1>10 DEF RunType, InStep, FailedStaysListed, ListFolder, Goto
<1>11. CASE SelectCancelled
  BY CurType, <1>11 DEF RunType, InStep, FailedStaysListed, SelectCancelled, StepFails, EndRun
<1>12. CASE Erase
  BY CurType, <1>12 DEF RunType, InStep, FailedStaysListed, Erase
<1>13. CASE EraseFails
  BY CurType, <1>13 DEF RunType, InStep, FailedStaysListed, EraseFails, EndRun
<1>14. CASE RemoveFromConfig
  BY CurType, <1>14 DEF RunType, InStep, FailedStaysListed, RemoveFromConfig, NextWorkspace
<1>15. CASE SaveFails
  <2>1. Cur \in Name /\ Cur \in file
    BY CurType, <1>15 DEF InStep, SaveFails
  <2>2. CASE UNCHANGED <<file, spoilt>>
    BY <1>15, <2>1, <2>2 DEF RunType, FailedStaysListed, SaveFails, EndRun
  <2>3. CASE spoilt'
    BY <2>3 DEF FailedStaysListed
  <2>4. QED
    BY <1>15, <2>2, <2>3 DEF SaveFails
<1>16. CASE Interrupt
  BY CurType, <1>16 DEF RunType, InStep, FailedStaysListed, Interrupt, EndRun
<1>17. CASE OthersStart
  BY CurType, <1>17 DEF RunType, InStep, FailedStaysListed, OthersStart
<1>18. CASE OthersAdd
  BY CurType, <1>18 DEF RunType, InStep, FailedStaysListed, OthersAdd
<1>19. CASE UNCHANGED vars
  BY <1>19 DEF FailedStaysListed, vars
<1>20. QED
  BY <1>1, <1>2, <1>3, <1>4, <1>5, <1>6, <1>7, <1>8, <1>9, <1>10, <1>11, <1>12,
     <1>13, <1>14, <1>15, <1>16, <1>17, <1>18, <1>19 DEF Next, Steps, Faults, Done

(* The invariant holds at the start. *)
LEMMA DeleteInit == Init => DeleteInv
BY DEF Init, DeleteInv, RunType, InStep, GoneAt, FailedStaysListed

(* The inductive invariant of delete. *)
LEMMA DeleteInvHolds == Spec => []DeleteInv
<1>1. DeleteInv /\ [Next]_vars => DeleteInv'
  BY RunStep, InStepStep, GoneStep, FailedStep DEF DeleteInv
<1>2. QED
  BY DeleteInit, <1>1, PTL DEF Spec

(* A workspace whose removal failed keeps its entry. *)
THEOREM FailedRemovalsListed == Spec => []FailedStaysListed
<1>1. DeleteInv => FailedStaysListed
  BY DEF DeleteInv
<1>2. QED
  BY DeleteInvHolds, <1>1, PTL

(* An entry leaves the file after everything that only it names. *)
THEOREM EntriesLeaveLast == Spec => NothingLeftBehind
<1> DEFINE Gone ==
      \A n \in file \ file' : ~spoilt' =>
          /\ attr[n].docker /\ n \notin misread =>
                ctr[attr[n].box] = "none" /\ attr[n].box \notin image
          /\ ~attr[n].standalone /\ n \notin kept => folder[n] = {}
<1>1. ASSUME DeleteInv, [Next]_vars PROVE Gone
  <2>1. CASE RemoveFromConfig
    BY <1>1, <2>1, CurType DEF DeleteInv, InStep, GoneAt, RemoveFromConfig, MyBox
  <2>2. CASE SaveFails
    BY <2>2 DEF SaveFails
  <2>3. CASE UNCHANGED file
    BY <2>3
  <2>4. QED
    BY <1>1, <2>1, <2>2, <2>3 DEF Next, Steps, Faults, Done, vars, Start, Select, NotFound,
       Begin, ContainerMissing, StopContainer, RemoveContainer, RemoveImage, DockerQueryFails,
       ListFolder, SelectCancelled, Erase, EraseFails, Interrupt, OthersStart, OthersAdd
<1>2. QED
  BY DeleteInvHolds, <1>1, PTL DEF Spec, NothingLeftBehind

-----------------------------------------------------------------------------
(* The rest of the types: a folder that exists keeps its "dir", which the  *)
(* user is never shown.                                                    *)
PathsType ==
    /\ folder \in [Name -> SUBSET ({"dir"} \cup Item)]
    /\ \A n \in Name : folder[n] = {} \/ "dir" \in folder[n]
    /\ shown \subseteq Item /\ chosen \subseteq Item /\ "dir" \notin shown \cup chosen

RestType ==
    /\ pc \in {"idle", "next", "container", "remove", "image", "folder", "ask", "erase",
              "config"}
    /\ config \subseteq Name
    /\ faults \in 0..MaxFaults
    /\ misread \subseteq Name /\ kept \subseteq Name /\ spoilt \in BOOLEAN /\ late \subseteq Item

(* Folders are what Folders says. *)
LEMMA FoldersAre ==
    PathsType <=> /\ folder \in [Name -> Folders]
                  /\ shown \subseteq Item /\ chosen \subseteq Item /\ "dir" \notin shown \cup chosen
<1>1. ASSUME NEW f \in SUBSET ({"dir"} \cup Item), f = {} \/ "dir" \in f PROVE f \in Folders
  <2>1. CASE f = {}
    BY <2>1 DEF Folders
  <2>2. CASE "dir" \in f
    <3>1. f = {"dir"} \cup (f \cap Item)
      BY <2>2
    <3>2. f \cap Item \in SUBSET Item
      OBVIOUS
    <3> QED
      BY <3>1, <3>2 DEF Folders
  <2> QED
    BY <1>1, <2>1, <2>2
<1>2. \A f \in Folders : f \in SUBSET ({"dir"} \cup Item) /\ (f = {} \/ "dir" \in f)
  BY DEF Folders
<1> QED
  BY <1>1, <1>2 DEF PathsType

(* Every step keeps the folders. *)
LEMMA PathsStep ==
    ASSUME PathsType, RunType, [Next]_vars
    PROVE  PathsType'
<1> USE DEF docker, run, ghosts, Goto, StepFails, StepRaises
<1>1. ASSUME UNCHANGED folder,
             UNCHANGED <<shown, chosen>> \/ (shown' = {} /\ chosen' = {})
      PROVE  PathsType'
  BY <1>1 DEF PathsType
<1>2. ASSUME NEW items \in SUBSET shown, Select(items) PROVE PathsType'
  BY <1>2 DEF Select, PathsType
<1>3. CASE ListFolder
  <2>1. UNCHANGED <<folder, chosen>> /\ Cur \in Name
    BY <1>3, CurType DEF ListFolder
  <2>2. UNCHANGED shown \/ shown' = folder[Cur] \ {"dir"}
    BY <1>3 DEF ListFolder
  <2> QED
    BY <2>1, <2>2 DEF PathsType
<1>4. CASE Erase \/ EraseFails
  <2>1. Cur \in Name /\ shown' = {} /\ chosen' = {}
    BY <1>4, CurType DEF Erase, EraseFails, EndRun
  <2>2. /\ Remaining \in SUBSET folder[Cur]
        /\ Remaining = {} \/ "dir" \notin folder[Cur] \/ "dir" \in Remaining
    BY DEF Remaining, PathsType
  <2>3. PICK f \in SUBSET folder[Cur] :
            /\ folder' = [folder EXCEPT ![Cur] = f]
            /\ f = {} \/ "dir" \notin folder[Cur] \/ "dir" \in f
    <3>1. CASE Erase
      BY <2>2, <3>1 DEF Erase
    <3>2. CASE EraseFails
      <4>1. PICK gone \in SUBSET (folder[Cur] \ (Remaining \cup {"dir"})) :
                folder' = [folder EXCEPT ![Cur] = folder[Cur] \ gone]
        BY <3>2 DEF EraseFails
      <4> QED
        BY <4>1
    <3> QED
      BY <1>4, <3>1, <3>2
  <2>4. \A n \in Name : folder'[n] = IF n = Cur THEN f ELSE folder[n]
    BY <2>1, <2>3 DEF PathsType
  <2>5. folder[Cur] = {} => f = {}
    BY <2>3
  <2>6. folder' = [n \in Name |-> folder'[n]]
    BY <2>3 DEF PathsType
  <2> QED
    BY <2>1, <2>3, <2>4, <2>5, <2>6 DEF PathsType
<1>5. CASE OthersAdd
  <2>1. shown' = shown /\ chosen' = chosen
    BY <1>5 DEF OthersAdd
  <2> QED
    BY <1>5, <2>1 DEF OthersAdd, PathsType
<1>6. ASSUME NEW names \in Selections, Start(names) PROVE PathsType'
  BY <1>1, <1>6 DEF Start
<1>7. CASE \/ NotFound \/ Begin \/ ContainerMissing \/ SelectCancelled \/ RemoveFromConfig
           \/ SaveFails \/ Interrupt
  BY <1>1, <1>7
  DEF NotFound, Begin, ContainerMissing, SelectCancelled, RemoveFromConfig, SaveFails, Interrupt, EndRun
<1>8. CASE StopContainer \/ RemoveContainer \/ RemoveImage \/ DockerQueryFails \/ OthersStart
  BY <1>1, <1>8
  DEF StopContainer, RemoveContainer, RemoveImage, DockerQueryFails, OthersStart, EndRun
<1>9. CASE UNCHANGED vars
  BY <1>1, <1>9 DEF vars
<1> QED
  BY <1>2, <1>3, <1>4, <1>5, <1>6, <1>7, <1>8, <1>9 DEF Next, Steps, Faults, Done

(* Every step keeps the rest. *)
LEMMA RestStep ==
    ASSUME RestType, RunType, [Next]_vars
    PROVE  RestType'
<1> USE DeleteAssumption DEF docker, run, ghosts, Goto, StepFails, StepRaises, EndRun, NextWorkspace
<1>f. ASSUME Fault PROVE faults' \in 0..MaxFaults
  BY <1>f DEF Fault, RestType
<1>1. ASSUME NEW names \in Selections, Start(names) PROVE RestType'
  BY <1>1 DEF Start, RestType, RunType
<1>2. ASSUME NEW items \in SUBSET shown, Select(items) PROVE RestType'
  BY <1>2, CurType DEF Select, RestType
<1>3. CASE NotFound \/ ContainerMissing \/ RemoveFromConfig
  BY <1>3 DEF NotFound, ContainerMissing, RemoveFromConfig, RestType
<1>4. CASE Begin
  BY <1>4 DEF Begin, FolderStep, RestType
<1>5. CASE StopContainer \/ RemoveContainer
  BY <1>5, <1>f DEF StopContainer, RemoveContainer, RestType
<1>6. CASE RemoveImage
  BY <1>6, <1>f DEF RemoveImage, FolderStep, RestType
<1>7. CASE DockerQueryFails
  BY <1>7, <1>f, CurType DEF DockerQueryFails, FolderStep, RestType
<1>8. CASE ListFolder
  BY <1>8, CurType DEF ListFolder, RestType
<1>9. CASE SelectCancelled \/ EraseFails
  BY <1>9, <1>f DEF SelectCancelled, EraseFails, RestType
<1>10. CASE Erase
  BY <1>10, CurType DEF Erase, RestType
<1>11. CASE SaveFails
  BY <1>11, <1>f DEF SaveFails, RestType
<1>12. CASE Interrupt
  BY <1>12, <1>f DEF Interrupt, RestType
<1>13. CASE OthersStart \/ OthersAdd
  BY <1>13, <1>f DEF OthersStart, OthersAdd, RestType
<1>14. CASE UNCHANGED vars
  BY <1>14 DEF vars, RestType
<1> QED
  BY <1>1, <1>2, <1>3, <1>4, <1>5, <1>6, <1>7, <1>8, <1>9, <1>10, <1>11, <1>12, <1>13, <1>14
  DEF Next, Steps, Faults, Done

(* The types are kept. *)
THEOREM TypeCorrect == Spec => []TypeOK
<1>1. Init => PathsType /\ RestType
  <2>1. ASSUME Init PROVE folder \in [Name -> Folders]
    <3>1. {"dir"} \cup Item \in Folders /\ {} \in Folders
      BY DEF Folders
    <3> QED
      BY <2>1, <3>1 DEF Init
  <2>2. ASSUME Init PROVE PathsType
    <3>1. shown = {} /\ chosen = {}
      BY <2>2 DEF Init
    <3> QED
      BY <2>1, <2>2, <3>1, FoldersAre
  <2>3. ASSUME Init PROVE RestType
    <3>1. pc = "idle" /\ config = {} /\ faults = 0 /\ misread = {} /\ kept = {} /\ spoilt = FALSE
          /\ late = {}
      BY <2>3 DEF Init
    <3>2. MaxFaults \in Nat
      BY DeleteAssumption
    <3>3. late \subseteq Item /\ spoilt \in BOOLEAN /\ config \subseteq Name /\ misread \subseteq Name /\ kept \subseteq Name
      BY <3>1
    <3>4. faults \in 0..MaxFaults
      BY <3>1, <3>2
    <3> QED
      BY <3>1, <3>3, <3>4 DEF RestType
  <2> QED
    BY <2>2, <2>3
<1>2. DeleteInv /\ PathsType /\ RestType /\ [Next]_vars => (PathsType /\ RestType)'
  BY PathsStep, RestStep DEF DeleteInv
<1>3. DeleteInv /\ PathsType /\ RestType => TypeOK
  BY FoldersAre DEF DeleteInv, RunType, RestType, TypeOK
<1> QED
  BY DeleteInvHolds, <1>1, <1>2, <1>3, PTL DEF Spec

-----------------------------------------------------------------------------
(* What is in a folder while its list is before the user, or is being      *)
(* worked off: what was listed, what came since, and the folder itself.    *)
ListInv == pc \in {"ask", "erase"} => folder[Cur] \subseteq shown \cup late \cup {"dir"}

LEMMA ListStep ==
    ASSUME RunType, ListInv, [Next]_vars
    PROVE  ListInv'
<1> USE DEF docker, run, ghosts
<1>1. ASSUME NEW items \in SUBSET shown, Select(items) PROVE ListInv'
  BY <1>1 DEF ListInv, Select, Cur
<1>2. CASE ListFolder
  BY <1>2 DEF ListInv, ListFolder, Goto, Cur
<1>3. CASE OthersAdd
  <2>1. UNCHANGED <<pc, todo, shown>>
    BY <1>3 DEF OthersAdd
  <2>2. ASSUME pc \in {"ask", "erase"} PROVE folder'[Cur] \subseteq shown \cup late' \cup {"dir"}
    <3>1. PICK n \in Name, i \in Item :
              /\ folder' = [folder EXCEPT ![n] = @ \cup {i}]
              /\ late' = IF n = Cur THEN late \cup {i} ELSE late
      BY <1>3, <2>2 DEF OthersAdd
    <3>2. folder[Cur] \subseteq shown \cup late \cup {"dir"}
      BY <2>2 DEF ListInv
    <3>3. Cur \in Name
      BY <2>2, CurType
    <3>4. CASE n = Cur
      BY <3>1, <3>2, <3>3, <3>4 DEF RunType
    <3>5. CASE n # Cur
      BY <3>1, <3>2, <3>3, <3>5 DEF RunType
    <3> QED
      BY <3>4, <3>5
  <2> QED
    BY <2>1, <2>2 DEF ListInv, Cur
<1>4. CASE OthersStart \/ UNCHANGED vars
  BY <1>4 DEF ListInv, OthersStart, vars, Cur
<1>5. CASE pc' \notin {"ask", "erase"}
  BY <1>5 DEF ListInv
<1>6. ASSUME NEW names \in Selections, Start(names) PROVE ListInv'
  BY <1>5, <1>6 DEF Start
<1>7. CASE NotFound \/ RemoveFromConfig \/ Begin \/ ContainerMissing
  BY <1>5, <1>7 DEF NotFound, RemoveFromConfig, NextWorkspace, Begin, FolderStep, Goto, ContainerMissing
<1>8. CASE StopContainer \/ RemoveContainer \/ RemoveImage \/ DockerQueryFails
  BY <1>5, <1>8 DEF StopContainer, RemoveContainer, RemoveImage, DockerQueryFails, FolderStep,
     Goto, StepFails, StepRaises, EndRun
<1>9. CASE SelectCancelled \/ Erase \/ EraseFails \/ SaveFails \/ Interrupt
  BY <1>5, <1>9 DEF SelectCancelled, Erase, EraseFails, SaveFails, Interrupt, StepFails, EndRun
<1> QED
  BY <1>1, <1>2, <1>3, <1>4, <1>6, <1>7, <1>8, <1>9 DEF Next, Steps, Faults, Done

(* A delete takes from a folder what was chosen from its list, or all, but *)
(* nothing that was there and not listed.                                  *)
THEOREM ChosenItemsGo == Spec => OnlyChosenGoes
<1> DEFINE Taken ==
      \A n \in Name : \A i \in folder[n] \ folder'[n] :
          /\ n = Cur /\ pc = "erase"
          /\ i \in chosen \/ (chosen = shown /\ i \in late \cup {"dir"})
<1>1. Init => ListInv
  BY DEF Init, ListInv
<1>2. DeleteInv /\ ListInv /\ [Next]_vars => ListInv'
  BY ListStep DEF DeleteInv
<1>3. ASSUME DeleteInv, ListInv, [Next]_vars PROVE Taken
  <2>t. RunType
    BY <1>3 DEF DeleteInv
  <2>1. CASE UNCHANGED folder
    BY <2>1
  <2>2. CASE OthersAdd
    BY <2>2, <2>t DEF OthersAdd, RunType
  <2>3. CASE Erase \/ EraseFails
    <3>1. pc = "erase" /\ Cur \in Name
      BY <2>3, <2>t, CurType DEF Erase, EraseFails
    <3>2. \A n \in Name : n # Cur => folder'[n] = folder[n]
      BY <2>3, <2>t DEF Erase, EraseFails, RunType
    <3>3. Remaining \cap folder[Cur] \subseteq folder'[Cur]
      BY <2>3, <2>t, <3>1 DEF Erase, EraseFails, RunType
    <3>4. ASSUME NEW i \in folder[Cur] \ folder'[Cur]
          PROVE  i \in chosen \/ (chosen = shown /\ i \in late \cup {"dir"})
      <4>1. i \in shown \cup late \cup {"dir"}
        BY <1>3, <3>1 DEF ListInv
      <4>2. i \notin Remaining
        BY <3>3
      <4> QED
        BY <4>1, <4>2 DEF Remaining
    <3> QED
      BY <3>1, <3>2, <3>4
  <2> QED
    BY <1>3, <2>1, <2>2, <2>3 DEF Next, Steps, Faults, Done, vars, Start, Select, NotFound,
       Begin, ContainerMissing, StopContainer, RemoveContainer, RemoveImage, DockerQueryFails,
       ListFolder, SelectCancelled, RemoveFromConfig, SaveFails, Interrupt, OthersStart
<1> QED
  BY DeleteInvHolds, <1>1, <1>2, <1>3, PTL DEF Spec, OnlyChosenGoes
=============================================================================

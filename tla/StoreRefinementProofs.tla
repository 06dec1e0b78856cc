------------------------ MODULE StoreRefinementProofs ------------------------
(***************************************************************************)
(* Runs that do not overlap and are not stopped half way implement the     *)
(* atomic map of Registry, for every set of runs, names and values.        *)
(***************************************************************************)
EXTENDS ConfigStoreRefinement, ConfigStoreProofs

(* What a run holds, and what the file holds, at each of its steps. *)
RunAt(p) ==
    /\ pc[p] = "idle" <=> req[p] = NoRequest
    /\ pc[p] # "ended" => answer[p] = "none"
    /\ pc[p] \in {"next", "backup", "open"} => file.body = base[p]
    /\ pc[p] \in {"open", "write", "backup"} =>
          \/ /\ req[p].verb = "add" /\ target[p] = req[p].names
             /\ ~HasEntry(base[p], req[p].names)
          \/ /\ req[p].verb = "edit" /\ target[p] = req[p].names
             /\ HasEntry(base[p], req[p].names)
          \/ /\ req[p].verb = "delete"
             /\ \E n \in req[p].names : target[p] = {n} /\ base[p][n] # NoEntry
    /\ pc[p] \in {"next", "open", "write"} /\ req[p].verb = "delete" =>
          /\ todo[p] \subseteq req[p].names
          /\ \A n \in req[p].names \ todo[p] : cfg[p][n] = NoEntry

Whole == \A p \in Proc : RunAt(p)

(* The invariant of a store whose runs neither overlap nor fail. *)
AtomicInv ==
    /\ TypeOK /\ CopiesAgree /\ OneActive /\ FileAlone /\ Whole
    /\ file.state # "garbled"

(* No request asks for nothing. *)
LEMMA RequestsAsk == NoRequest \notin Request
BY VerbsAssumption DEF NoRequest, Request

(* The map a writing run has loaded. *)
LEMMA MapInWrite ==
    ASSUME OneActive, NEW p \in Proc, pc[p] = "write"
    PROVE  StoredMap = base[p]
<1>1. \A q \in Proc : pc[q] = "write" => q = p
  BY DEF OneActive, Active, Working
<1>2. (CHOOSE q \in Proc : pc[q] = "write") = p
  BY <1>1
<1>3. QED
  BY <1>2 DEF StoredMap

LEMMA MapInWriteNext ==
    ASSUME OneActive', NEW p \in Proc, pc'[p] = "write"
    PROVE  StoredMap' = base'[p]
<1>1. \A q \in Proc : pc'[q] = "write" => q = p
  BY DEF OneActive, Active, Working
<1>2. (CHOOSE q \in Proc : pc'[q] = "write") = p
  BY <1>1
<1>3. QED
  BY <1>2 DEF StoredMap

(* Otherwise the map is in the file. *)
LEMMA MapAtRest ==
    ASSUME \A q \in Proc : pc[q] # "write"
    PROVE  StoredMap = file.body
BY DEF StoredMap

LEMMA MapAtRestNext ==
    ASSUME \A q \in Proc : pc'[q] # "write"
    PROVE  StoredMap' = file'.body
BY DEF StoredMap

(* The other runs stand still, and none of them is at work. *)
LEMMA OthersRest ==
    ASSUME ~Concurrent, AtomicInv, NEW p \in Proc, Step(p)
    PROVE  \A q \in Proc \ {p} :
              /\ ~Active(q)
              /\ UNCHANGED <<pc[q], req[q], base[q], answer[q], cfg[q], todo[q], target[q]>>
<1> USE DEF AtomicInv
<1>1. \A q \in Proc \ {p} : ~Active(q)
  BY StepFrame DEF OneActive, Start, Quiet
<1>2. \A q \in Proc \ {p} :
        UNCHANGED <<pc[q], req[q], base[q], answer[q], cfg[q], todo[q], target[q]>>
  BY DEF TypeOK, Step, Start, Probe, Create, LoadForAdd, LoadForEdit, LoadForDelete,
     LoadForRead, LoadRaises, Backup, DeleteNext, Open, Save, FailEarly, FailLate, Kill,
     Finish, Load, Prepare, store, history, run
<1>3. QED
  BY <1>1, <1>2

(* The steps of a store without faults. *)
LEMMA FaultlessSteps ==
    ASSUME ~Faults, AtomicInv, NEW p \in Proc, Step(p)
    PROVE  \/ Start(p) \/ Probe(p) \/ Create(p)
           \/ LoadForAdd(p) \/ LoadForEdit(p) \/ LoadForDelete(p) \/ LoadForRead(p)
           \/ Backup(p) \/ DeleteNext(p) \/ Open(p) \/ Save(p)
BY DEF AtomicInv, Step, LoadRaises, FailEarly, FailLate, Kill

-----------------------------------------------------------------------------
(* The invariant *)

(* The run that steps holds what it should at its next step. *)
LEMMA OwnStep ==
    ASSUME ~Concurrent, ~Faults, AtomicInv, NEW p \in Proc, Step(p)
    PROVE  RunAt(p)'
<1> USE DEF store, history, run
<1>1. RunAt(p) /\ TypeOK
  BY DEF AtomicInv, Whole
<1>2. CASE Start(p)
  <2>1. PICK r \in Request : /\ req' = [req EXCEPT ![p] = r]
                             /\ pc' = [pc EXCEPT ![p] = IF r.verb = "add" THEN "probe" ELSE "load"]
    BY <1>2 DEF Start
  <2>2. req'[p] # NoRequest /\ pc'[p] \in {"probe", "load"}
    BY <1>1, <2>1, RequestsAsk DEF TypeOK
  <2>3. answer'[p] = "none"
    BY <1>1, <1>2 DEF RunAt, Start
  <2>4. QED
    BY <2>2, <2>3 DEF RunAt
<1>3. CASE Probe(p)
  BY <1>1, <1>3 DEF RunAt, TypeOK, Probe
<1>4. CASE Create(p)
  BY <1>1, <1>4 DEF RunAt, TypeOK, Create
<1>5. CASE pc'[p] = "ended" /\ pc[p] \in Working /\ req' = req
  BY <1>1, <1>5 DEF RunAt, Working
<1>6. CASE (LoadForAdd(p) \/ LoadForEdit(p)) /\ Prepare(p)
  <2>1. /\ pc[p] = "load" /\ pc'[p] = "backup" /\ base'[p] = file.body /\ file' = file
        /\ req' = req /\ answer' = answer /\ target'[p] = req[p].names
    BY <1>1, <1>6 DEF TypeOK, LoadForAdd, LoadForEdit, Load, Prepare
  <2>2. \/ req[p].verb = "add" /\ ~HasEntry(file.body, req[p].names)
        \/ req[p].verb = "edit" /\ HasEntry(file.body, req[p].names)
    BY <1>1, <1>6, <2>1 DEF TypeOK, LoadForAdd, LoadForEdit, Finish
  <2>3. QED
    BY <1>1, <2>1, <2>2 DEF RunAt
<1>7. CASE LoadForAdd(p) \/ LoadForEdit(p)
  <2>1. Prepare(p) \/ (pc'[p] = "ended" /\ pc[p] \in Working /\ req' = req)
    BY <1>1, <1>7 DEF TypeOK, LoadForAdd, LoadForEdit, Load, Finish, Working
  <2>2. QED
    BY <1>5, <1>6, <1>7, <2>1
<1>8. CASE LoadForRead(p)
  BY <1>1, <1>5, <1>8 DEF TypeOK, LoadForRead, Load, Finish, Working
<1>9. CASE LoadForDelete(p)
  <2>1. CASE file.body = NoEntries
    BY <1>1, <1>5, <1>9, <2>1 DEF TypeOK, LoadForDelete, Load, Finish, Working
  <2>2. CASE file.body # NoEntries
    <3>1. /\ pc[p] = "load" /\ pc'[p] = "next" /\ base'[p] = file.body /\ file' = file
          /\ req' = req /\ answer' = answer /\ todo'[p] = req[p].names
      BY <1>1, <1>9, <2>2 DEF TypeOK, LoadForDelete, Load
    <3>2. QED
      BY <1>1, <3>1 DEF RunAt
  <2>3. QED
    BY <2>1, <2>2
<1>10. CASE Backup(p)
  <2>1. req[p].verb # "delete"
    BY <1>10 DEF AtomicInv, FileAlone, Backup
  <2>2. QED
    BY <1>1, <1>10, <2>1 DEF RunAt, TypeOK, Backup
<1>11. CASE DeleteNext(p)
  <2>1. /\ req[p].verb = "delete" /\ cfg[p] = base[p] /\ pc[p] = "next"
        /\ UNCHANGED <<file, req, base>>
    BY <1>11 DEF AtomicInv, FileAlone, CopiesAgree, DeleteNext
  <2>2. CASE pc'[p] = "ended"
    BY <1>5, <2>1, <2>2 DEF Working
  <2>3. CASE \E n \in todo[p] : /\ todo' = [todo EXCEPT ![p] = @ \ {n}]
                                /\ cfg[p][n] = NoEntry
                                /\ UNCHANGED <<pc, cfg, target, answer>>
    BY <1>1, <2>1, <2>3 DEF RunAt, TypeOK
  <2>4. CASE \E n \in todo[p] : /\ todo' = [todo EXCEPT ![p] = @ \ {n}]
                                /\ cfg[p][n] # NoEntry
                                /\ cfg' = [cfg EXCEPT ![p][n] = NoEntry]
                                /\ target' = [target EXCEPT ![p] = {n}]
                                /\ pc' = [pc EXCEPT ![p] = "open"]
                                /\ UNCHANGED answer
    <3>1. PICK n \in todo[p] : /\ todo' = [todo EXCEPT ![p] = @ \ {n}]
                              /\ cfg[p][n] # NoEntry
                              /\ cfg' = [cfg EXCEPT ![p][n] = NoEntry]
                              /\ target' = [target EXCEPT ![p] = {n}]
                              /\ pc' = [pc EXCEPT ![p] = "open"]
                              /\ UNCHANGED answer
      BY <2>4
    <3>2. n \in req[p].names /\ todo[p] \subseteq req[p].names
      BY <1>1, <2>1 DEF RunAt
    <3>3. /\ pc'[p] = "open" /\ target'[p] = {n} /\ todo'[p] = todo[p] \ {n}
          /\ answer'[p] = "none"
      BY <1>1, <2>1, <3>1 DEF TypeOK, RunAt
    <3>4. req[p].names \subseteq Name
      BY <1>1, RequestTypes DEF TypeOK
    <3>5. \A m \in Name : cfg'[p][m] = IF m = n THEN NoEntry ELSE cfg[p][m]
      BY <1>1, <3>1 DEF TypeOK, Config
    <3>6. \A m \in req[p].names \ todo'[p] : cfg'[p][m] = NoEntry
      BY <1>1, <2>1, <3>3, <3>4, <3>5 DEF RunAt
    <3>7. file'.body = base'[p] /\ base'[p][n] # NoEntry
      BY <1>1, <2>1, <3>1 DEF RunAt
    <3>8. QED
      BY <1>1, <2>1, <3>2, <3>3, <3>6, <3>7 DEF RunAt
  <2>5. QED
    BY <1>1, <1>11, <2>2, <2>3, <2>4 DEF DeleteNext, Finish, TypeOK
<1>12. CASE Open(p)
  BY <1>1, <1>12 DEF RunAt, TypeOK, Open
<1>13. CASE Save(p)
  <2>1. CASE req[p].verb = "delete"
    <3>1. file = Yaml(NoEntries)
      BY <1>13 DEF AtomicInv, FileAlone, Save
    <3>2. file'.body = cfg[p]
      BY <1>13, <3>1 DEF Save, Yaml
    <3>3. /\ pc[p] = "write" /\ pc'[p] = "next" /\ base'[p] = cfg[p]
          /\ UNCHANGED <<req, cfg, todo, answer>>
      BY <1>1, <1>13, <2>1 DEF Save, TypeOK
    <3>4. QED
      BY <1>1, <2>1, <3>2, <3>3 DEF RunAt
  <2>2. CASE req[p].verb # "delete"
    BY <1>1, <1>5, <1>13, <2>2 DEF Save, Finish, TypeOK, Working
  <2>3. QED
    BY <2>1, <2>2
<1>14. QED
  BY <1>2, <1>3, <1>4, <1>7, <1>8, <1>9, <1>10, <1>11, <1>12, <1>13, FaultlessSteps

(* A file that one run fills at a time is never garbled. *)
LEMMA NeverGarbled ==
    ASSUME ~Faults, AtomicInv, NEW p \in Proc, Step(p)
    PROVE  file'.state # "garbled"
<1>1. CASE Save(p)
  <2>1. file = Yaml(NoEntries)
    BY <1>1 DEF AtomicInv, FileAlone, Save
  <2>2. QED
    BY <1>1, <2>1 DEF Save, Yaml
<1>2. CASE ~Save(p)
  BY <1>2, FaultlessSteps DEF AtomicInv, Start, Probe, Create, LoadForAdd, LoadForEdit,
     LoadForDelete, LoadForRead, Backup, DeleteNext, Open, Load, Yaml, store
<1>3. QED
  BY <1>1, <1>2

LEMMA AtomicStep ==
    ASSUME ~Concurrent, ~Faults, AtomicInv, [Next]_vars
    PROVE  AtomicInv'
<1>1. TypeOK' /\ CopiesAgree' /\ OneActive' /\ FileAlone'
  BY TypeStep, CopiesStep, OneActiveStep, FileAloneStep DEF AtomicInv
<1>2. ASSUME NEW p \in Proc, Step(p) PROVE AtomicInv'
  <2>1. ASSUME NEW q \in Proc \ {p} PROVE RunAt(q)'
    <3>1. /\ ~Active(q)
          /\ UNCHANGED <<pc[q], req[q], base[q], answer[q], cfg[q], todo[q], target[q]>>
      BY <1>2, OthersRest
    <3>2. RunAt(q)
      BY DEF AtomicInv, Whole
    <3>3. QED
      BY <3>1, <3>2 DEF RunAt, Active, Working
  <2>2. Whole'
    BY <1>2, <2>1, OwnStep DEF Whole
  <2>3. QED
    BY <1>1, <1>2, <2>2, NeverGarbled DEF AtomicInv
<1>3. CASE UNCHANGED vars
  BY <1>1, <1>3 DEF vars, AtomicInv, Whole, RunAt
<1>4. QED
  BY <1>2, <1>3 DEF Next, Done

LEMMA AtomicInit == Init => AtomicInv
<1> SUFFICES ASSUME Init PROVE AtomicInv
  OBVIOUS
<1>1. TypeOK /\ OneActive /\ FileAlone
  BY TypeInit, SerialInit DEF SerialInv
<1>2. CopiesAgree /\ Whole
  BY DEF Init, CopiesAgree, Whole, RunAt
<1>3. file.state # "garbled"
  BY DEF Init, Missing, Yaml
<1>4. QED
  BY <1>1, <1>2, <1>3 DEF AtomicInv

-----------------------------------------------------------------------------
(* The simulation *)

(* Where the map is before and after a step of p. *)
LEMMA MapOfStep ==
    ASSUME ~Concurrent, ~Faults, AtomicInv, NEW p \in Proc, Step(p)
    PROVE  /\ StoredMap = IF pc[p] = "write" THEN base[p] ELSE file.body
           /\ StoredMap' = IF pc'[p] = "write" THEN base'[p] ELSE file'.body
<1>1. \A q \in Proc \ {p} : pc[q] # "write" /\ pc'[q] # "write"
  BY OthersRest DEF Active, Working
<1>2. OneActive /\ OneActive'
  BY OneActiveStep DEF AtomicInv, Next
<1>3. StoredMap = IF pc[p] = "write" THEN base[p] ELSE file.body
  BY <1>1, <1>2, MapInWrite, MapAtRest
<1>4. StoredMap' = IF pc'[p] = "write" THEN base'[p] ELSE file'.body
  BY <1>1, <1>2, MapInWriteNext, MapAtRestNext
<1>5. QED
  BY <1>3, <1>4

(* The steps before a save that the map does not see. *)
LEMMA SilentStep ==
    ASSUME ~Concurrent, ~Faults, AtomicInv, NEW p \in Proc, Step(p),
           \/ Probe(p) \/ Create(p) \/ Backup(p) \/ Open(p)
           \/ Load(p) /\ Prepare(p)
    PROVE  UNCHANGED <<StoredMap, req, answer>>
<1> USE DEF store, history, run
<1>1. RunAt(p) /\ TypeOK /\ FileAlone
  BY DEF AtomicInv, Whole
<1>2. UNCHANGED <<req, answer>> /\ pc[p] # "write"
  BY DEF Probe, Create, Backup, Open, Prepare, Load
<1>3. CASE Open(p)
  BY <1>1, <1>2, <1>3, MapOfStep DEF Open, TypeOK, RunAt
<1>4. CASE Create(p)
  BY <1>1, <1>2, <1>4, MapOfStep DEF Create, TypeOK, FileAlone, Yaml
<1>5. CASE Probe(p) \/ Backup(p) \/ (Load(p) /\ Prepare(p))
  BY <1>1, <1>2, <1>5, MapOfStep DEF Probe, Backup, Load, Prepare, TypeOK
<1>6. QED
  BY <1>2, <1>3, <1>4, <1>5

(* The user who types a command begins it. *)
LEMMA StartBegins ==
    ASSUME ~Concurrent, ~Faults, AtomicInv, NEW p \in Proc, Start(p)
    PROVE  R!Begin(p)
<1>1. RunAt(p) /\ TypeOK /\ Step(p)
  BY DEF AtomicInv, Whole, Step
<1>2. pc[p] = "idle" /\ pc'[p] # "write"
  BY <1>1 DEF Start, TypeOK
<1>3. UNCHANGED <<StoredMap, answer>>
  BY <1>1, <1>2, MapOfStep DEF Start, store
<1>4. req[p] = R!NoRequest
  BY <1>1, <1>2 DEF RunAt, NoRequest, R!NoRequest
<1>5. \E r \in R!Request : req' = [req EXCEPT ![p] = r]
  BY DEF Start, Request, R!Request
<1>6. QED
  BY <1>3, <1>4, <1>5 DEF R!Begin

(* The map at a load, and what a run that answers there has to show. *)
LEMMA AnswerAtLoad ==
    ASSUME ~Concurrent, ~Faults, AtomicInv, NEW p \in Proc, Step(p), Load(p),
           NEW a, Finish(p, a)
    PROVE  /\ R!Waiting(p) /\ R!Answer(p, a) /\ UNCHANGED <<StoredMap, req>>
           /\ R!Known(p) <=> HasEntry(file.body, req[p].names)
<1>1. RunAt(p) /\ TypeOK
  BY DEF AtomicInv, Whole
<1>2. pc[p] = "load" /\ pc'[p] = "ended" /\ UNCHANGED <<file, req>>
  BY <1>1 DEF Load, Finish, TypeOK, store
<1>3. StoredMap = file.body /\ StoredMap' = file.body
  BY <1>2, MapOfStep
<1>4. req[p] # R!NoRequest /\ answer[p] = "none"
  BY <1>1, <1>2 DEF RunAt, NoRequest, R!NoRequest
<1>5. QED
  BY <1>2, <1>3, <1>4 DEF R!Waiting, R!Answer, R!Known, HasEntry, Finish

(* A load refuses, answers or gives up as the map allows, or is silent. *)
LEMMA LoadSteps ==
    ASSUME ~Concurrent, ~Faults, AtomicInv, NEW p \in Proc,
           LoadForAdd(p) \/ LoadForEdit(p) \/ LoadForDelete(p) \/ LoadForRead(p)
    PROVE  \/ R!RefuseAdd(p) \/ R!RefuseEdit(p) \/ R!Cancel(p)
           \/ R!EndDelete(p) \/ R!Read(p)
           \/ UNCHANGED <<StoredMap, req, answer>>
<1>1. Step(p)
  BY DEF Step
<1>2. RunAt(p) /\ TypeOK
  BY DEF AtomicInv, Whole
<1>3. CASE LoadForAdd(p)
  <2>1. CASE Prepare(p)
    BY <1>1, <1>3, <2>1, SilentStep DEF LoadForAdd
  <2>2. CASE HasEntry(file.body, req[p].names) /\ Finish(p, "refused")
    BY <1>1, <1>3, <2>2, AnswerAtLoad DEF LoadForAdd, R!RefuseAdd
  <2>3. QED
    BY <1>3, <2>1, <2>2 DEF LoadForAdd
<1>4. CASE LoadForEdit(p)
  <2>1. CASE Prepare(p)
    BY <1>1, <1>4, <2>1, SilentStep DEF LoadForEdit
  <2>2. CASE ~HasEntry(file.body, req[p].names) /\ Finish(p, "refused")
    BY <1>1, <1>4, <2>2, AnswerAtLoad DEF LoadForEdit, R!RefuseEdit
  <2>3. CASE HasEntry(file.body, req[p].names) /\ Finish(p, "cancelled")
    BY <1>1, <1>4, <2>3, AnswerAtLoad DEF LoadForEdit, R!Cancel
  <2>4. QED
    BY <1>4, <2>1, <2>2, <2>3 DEF LoadForEdit
<1>5. CASE LoadForDelete(p)
  <2>1. CASE file.body = NoEntries
    <3>1. ~HasEntry(file.body, req[p].names)
      BY <1>2, <2>1, RequestTypes DEF HasEntry, NoEntries, TypeOK
    <3>2. QED
      BY <1>1, <1>5, <2>1, <3>1, AnswerAtLoad DEF LoadForDelete, R!EndDelete
  <2>2. CASE file.body # NoEntries
    <3>1. pc[p] = "load" /\ pc'[p] = "next" /\ UNCHANGED <<file, req, answer>>
      BY <1>2, <1>5, <2>2 DEF LoadForDelete, Load, TypeOK, store
    <3>2. QED
      BY <1>1, <3>1, MapOfStep
  <2>3. QED
    BY <2>1, <2>2
<1>6. CASE LoadForRead(p)
  <2>1. /\ Load(p) /\ req[p].verb = "read"
        /\ Finish(p, IF HasEntry(file.body, req[p].names) THEN "accepted" ELSE "refused")
    BY <1>6 DEF LoadForRead
  <2>2. QED
    BY <1>1, <2>1, AnswerAtLoad DEF R!Read
<1>7. QED
  BY <1>3, <1>4, <1>5, <1>6

(* The loop of a delete ends when no name it was given has an entry, is    *)
(* cancelled while one has, or goes on unseen.                             *)
LEMMA DeleteSteps ==
    ASSUME ~Concurrent, ~Faults, AtomicInv, NEW p \in Proc, DeleteNext(p)
    PROVE  \/ R!EndDelete(p) \/ R!Cancel(p)
           \/ UNCHANGED <<StoredMap, req, answer>>
<1>1. Step(p) /\ RunAt(p) /\ TypeOK
  BY DEF AtomicInv, Whole, Step
<1>2. /\ req[p].verb = "delete" /\ cfg[p] = base[p] /\ pc[p] = "next"
      /\ file.body = base[p] /\ UNCHANGED <<file, req>>
      /\ todo[p] \subseteq req[p].names
      /\ \A n \in req[p].names \ todo[p] : cfg[p][n] = NoEntry
  BY <1>1 DEF AtomicInv, FileAlone, CopiesAgree, DeleteNext, RunAt, store
<1>3. req[p] # R!NoRequest /\ answer[p] = "none"
  BY <1>1, <1>2 DEF RunAt, NoRequest, R!NoRequest
<1>4. pc'[p] # "write"
  BY <1>1, <1>2 DEF DeleteNext, Finish, TypeOK
<1>5. StoredMap = cfg[p] /\ StoredMap' = StoredMap
  BY <1>1, <1>2, <1>4, MapOfStep
<1>6. CASE todo[p] = {} /\ Finish(p, "accepted")
  <2>1. ~R!Known(p)
    BY <1>2, <1>5, <1>6 DEF R!Known
  <2>2. QED
    BY <1>2, <1>3, <1>5, <1>6, <2>1 DEF R!EndDelete, R!Waiting, R!Answer, Finish
<1>7. CASE \E n \in todo[p] : cfg[p][n] # NoEntry /\ Finish(p, "cancelled")
  <2>1. R!Known(p)
    BY <1>2, <1>5, <1>7 DEF R!Known
  <2>2. QED
    BY <1>2, <1>3, <1>5, <1>7, <2>1 DEF R!Cancel, R!Waiting, R!Answer, Finish
<1>8. CASE UNCHANGED answer
  BY <1>2, <1>5, <1>8
<1>9. QED
  BY <1>6, <1>7, <1>8 DEF DeleteNext

(* A save is the change of the map that the user asked for. *)
LEMMA SaveSteps ==
    ASSUME ~Concurrent, ~Faults, AtomicInv, NEW p \in Proc, Save(p)
    PROVE  R!Add(p) \/ R!Edit(p) \/ R!Remove(p)
<1>1. Step(p) /\ RunAt(p) /\ TypeOK /\ FileAlone
  BY DEF AtomicInv, Whole, Step
<1>2. file' = Yaml(cfg[p])
  BY <1>1 DEF FileAlone, Save, Yaml
<1>3. pc[p] = "write" /\ pc'[p] # "write" /\ req' = req
  BY <1>1 DEF Save, Finish, TypeOK
<1>4. StoredMap = base[p] /\ StoredMap' = Change(p, base[p])
  BY <1>1, <1>2, <1>3, MapOfStep DEF Yaml, AtomicInv, CopiesAgree
<1>5. req[p] # R!NoRequest /\ answer[p] = "none"
  BY <1>1, <1>3 DEF RunAt, NoRequest, R!NoRequest
<1>6. CASE /\ req[p].verb \in {"add", "edit"} /\ target[p] = req[p].names
  <2>1. Finish(p, "accepted")
    BY <1>6 DEF Save
  <2>2. StoredMap' = [n \in Name |-> IF n \in req[p].names THEN req[p].value ELSE StoredMap[n]]
    BY <1>4, <1>6 DEF Change
  <2>3. /\ req[p].verb = "add" => ~R!Known(p)
        /\ req[p].verb = "edit" => R!Known(p)
    BY <1>1, <1>3, <1>4, <1>6 DEF RunAt, R!Known, HasEntry
  <2>4. QED
    BY <1>3, <1>5, <1>6, <2>1, <2>2, <2>3
       DEF R!Add, R!Edit, R!Waiting, R!Answer, Finish
<1>7. CASE req[p].verb = "delete"
  <2>1. PICK n \in req[p].names : target[p] = {n} /\ base[p][n] # NoEntry
    BY <1>1, <1>3, <1>7 DEF RunAt
  <2>2. req[p].value = NoEntry /\ base[p] \in Config
    BY <1>1, <1>7 DEF TypeOK, Request, NoRequest
  <2>3. StoredMap' = [StoredMap EXCEPT ![n] = NoEntry]
    BY <1>4, <2>1, <2>2 DEF Change, Config
  <2>4. answer' = answer
    BY <1>7 DEF Save
  <2>5. QED
    BY <1>3, <1>4, <1>5, <1>7, <2>1, <2>3, <2>4 DEF R!Remove, R!Waiting
<1>8. QED
  BY <1>1, <1>3, <1>6, <1>7 DEF RunAt

(* Every step of the store is a step of the map, or the map stutters. *)
LEMMA StepSimulates ==
    ASSUME ~Concurrent, ~Faults, AtomicInv, [Next]_vars
    PROVE  [R!Next]_(R!vars)
<1>1. ASSUME NEW p \in Proc, Step(p) PROVE [R!Next]_(R!vars)
  <2>1. CASE Start(p)
    BY <2>1, StartBegins DEF R!Next
  <2>2. CASE Probe(p) \/ Create(p) \/ Backup(p) \/ Open(p)
    BY <1>1, <2>2, SilentStep DEF R!vars
  <2>3. CASE LoadForAdd(p) \/ LoadForEdit(p) \/ LoadForDelete(p) \/ LoadForRead(p)
    BY <2>3, LoadSteps DEF R!Next, R!vars
  <2>4. CASE DeleteNext(p)
    BY <2>4, DeleteSteps DEF R!Next, R!vars
  <2>5. CASE Save(p)
    BY <2>5, SaveSteps DEF R!Next
  <2>6. QED
    BY <1>1, <2>1, <2>2, <2>3, <2>4, <2>5, FaultlessSteps
<1>2. CASE UNCHANGED vars
  BY <1>2 DEF vars, R!vars, StoredMap
<1>3. QED
  BY <1>1, <1>2 DEF Next, Done

(* A store that holds any configuration at first is a map. *)
LEMMA InitSimulates == Init => R!Init
<1> SUFFICES ASSUME Init PROVE R!Init
  OBVIOUS
<1>1. StoredMap = file.body
  BY MapAtRest DEF Init
<1>2. file.body \in [Name -> R!Entry]
  BY TypeInit DEF TypeOK, Text, Config, Entry, R!Entry
<1>3. QED
  BY <1>1, <1>2 DEF Init, R!Init, NoRequest, R!NoRequest

(* Runs of rtw that neither overlap nor fail implement the atomic map:     *)
(* whoever is refused is refused by what is stored, and a save changes     *)
(* only the names of its request.                                          *)
THEOREM StoreImplementsRegistry ==
    ~Concurrent /\ ~Faults => (Spec => ImplementsRegistry)
<1> SUFFICES ASSUME ~Concurrent, ~Faults PROVE Spec => ImplementsRegistry
  OBVIOUS
<1>1. AtomicInv /\ [Next]_vars => AtomicInv'
  BY AtomicStep
<1>2. AtomicInv /\ [Next]_vars => [R!Next]_(R!vars)
  BY StepSimulates
<1>3. QED
  BY AtomicInit, InitSimulates, <1>1, <1>2, PTL DEF Spec, ImplementsRegistry, R!Spec
=============================================================================

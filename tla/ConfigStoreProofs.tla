-------------------------- MODULE ConfigStoreProofs --------------------------
(***************************************************************************)
(* Proofs about ConfigStore, for every set of runs, names and values.      *)
(***************************************************************************)
EXTENDS ConfigStore, TLAPS

(* The texts a file can hold are texts. *)
LEMMA TextTypes ==
    /\ NoEntries \in Config
    /\ Missing \in Text
    /\ Garbled \in Text
    /\ \A c \in Config : Yaml(c) \in Text
BY DEF NoEntries, Missing, Garbled, Yaml, Text, Config, Entry

(* What a request asks for. *)
LEMMA RequestTypes ==
    \A r \in Request \cup {NoRequest} :
        /\ r.names \subseteq Name
        /\ r.value \in Entry
        /\ r.verb \in {"add", "edit", "delete", "read", "none"}
BY DEF Request, NoRequest, Entry

(* Loading and changing a configuration gives a configuration. *)
LEMMA ChangeType ==
    ASSUME TypeOK, NEW p \in Proc, NEW c \in Config
    PROVE  Change(p, c) \in Config
<1>1. req[p].value \in Entry
  BY RequestTypes DEF TypeOK
<1>2. QED
  BY <1>1 DEF Change, Config, Entry

(* Every action keeps the types of the variables. *)
LEMMA TypeStep ==
    ASSUME TypeOK, [Next]_vars
    PROVE  TypeOK'
<1> USE DEF store, history, run
<1>1. ASSUME NEW p \in Proc, Start(p) PROVE TypeOK'
  BY <1>1 DEF TypeOK, Start, Working
<1>2. ASSUME NEW p \in Proc, Probe(p) PROVE TypeOK'
  BY <1>2 DEF TypeOK, Probe, Working
<1>3. ASSUME NEW p \in Proc, Create(p) PROVE TypeOK'
  BY <1>3, TextTypes DEF TypeOK, Create, Working
<1>4. ASSUME NEW p \in Proc, Prepare(p), Load(p) PROVE TypeOK'
  <2>1. file.body \in Config
    BY DEF TypeOK, Text
  <2>2. req[p].value \in Entry /\ req[p].names \subseteq Name
    BY RequestTypes DEF TypeOK
  <2>3. [n \in Name |-> IF n \in req[p].names THEN req[p].value ELSE file.body[n]] \in Config
    BY <2>1, <2>2 DEF Config, Entry
  <2>4. QED
    BY <1>4, <2>1, <2>2, <2>3 DEF TypeOK, Prepare, Load, Working
<1>5. ASSUME NEW p \in Proc, NEW a \in {"accepted", "refused", "cancelled", "failed"},
             Finish(p, a), Load(p), UNCHANGED <<todo, target>>,
             UNCHANGED cfg \/ cfg' = [cfg EXCEPT ![p] = file.body]
      PROVE  TypeOK'
  <2>1. file.body \in Config
    BY DEF TypeOK, Text
  <2>2. QED
    BY <1>5, <2>1 DEF TypeOK, Finish, Load, Working
<1>6. ASSUME NEW p \in Proc, LoadForAdd(p) PROVE TypeOK'
  BY <1>4, <1>5, <1>6 DEF LoadForAdd
<1>7. ASSUME NEW p \in Proc, LoadForEdit(p) PROVE TypeOK'
  BY <1>4, <1>5, <1>7 DEF LoadForEdit
<1>8. ASSUME NEW p \in Proc, LoadForDelete(p) PROVE TypeOK'
  <2>1. CASE file.body = NoEntries
    BY <1>5, <1>8, <2>1 DEF LoadForDelete
  <2>2. CASE file.body # NoEntries
    <3>1. file.body \in Config /\ req[p].names \subseteq Name
      BY RequestTypes DEF TypeOK, Text
    <3>2. QED
      BY <1>8, <2>2, <3>1 DEF TypeOK, LoadForDelete, Load, Working
  <2>3. QED
    BY <2>1, <2>2
<1>9. ASSUME NEW p \in Proc, LoadForRead(p) PROVE TypeOK'
  BY <1>5, <1>9 DEF LoadForRead
<1>10. ASSUME NEW p \in Proc, LoadRaises(p) PROVE TypeOK'
  BY <1>10 DEF TypeOK, LoadRaises, Finish, Working
<1>11. ASSUME NEW p \in Proc, Backup(p) PROVE TypeOK'
  BY <1>11 DEF TypeOK, Backup, Working
<1>12. ASSUME NEW p \in Proc, DeleteNext(p) PROVE TypeOK'
  <2>1. \A n \in Name : [cfg EXCEPT ![p][n] = NoEntry] \in [Proc -> Config]
    BY DEF TypeOK, Config, Entry
  <2>2. QED
    BY <1>12, <2>1 DEF TypeOK, DeleteNext, Finish, Working
<1>13. ASSUME NEW p \in Proc, Open(p) PROVE TypeOK'
  BY <1>13, TextTypes DEF TypeOK, Open, Working
<1>14. ASSUME NEW p \in Proc, Save(p) PROVE TypeOK'
  <2>1. Change(p, promised) \in Config
    BY ChangeType DEF TypeOK
  <2>2. file' \in Text
    BY <1>14, TextTypes DEF Save, TypeOK
  <2>3. conflict' \in BOOLEAN
    BY <1>14 DEF Save
  <2>4. QED
    BY <1>14, <2>1, <2>2, <2>3 DEF TypeOK, Save, Finish, Working
<1>15. ASSUME NEW p \in Proc, FailEarly(p) PROVE TypeOK'
  BY <1>15 DEF TypeOK, FailEarly, Finish, Working
<1>16. ASSUME NEW p \in Proc, FailLate(p) PROVE TypeOK'
  BY <1>16, TextTypes DEF TypeOK, FailLate, Finish, Working
<1>17. ASSUME NEW p \in Proc, Kill(p) PROVE TypeOK'
  BY <1>17 DEF TypeOK, Kill, Working
<1>18. CASE UNCHANGED vars
  BY <1>18 DEF TypeOK, vars
<1>19. QED
  BY <1>1, <1>2, <1>3, <1>6, <1>7, <1>8, <1>9, <1>10, <1>11, <1>12, <1>13, <1>14,
     <1>15, <1>16, <1>17, <1>18
     DEF Next, Step, Done

(* The initial values have the types of the variables. *)
LEMMA TypeInit == Init => TypeOK
<1> SUFFICES ASSUME Init PROVE TypeOK
  OBVIOUS
<1>1. file \in Text
  BY TextTypes DEF Init
<1>2. file.body \in Config
  BY <1>1 DEF Text
<1>3. QED
  BY <1>1, <1>2, TextTypes DEF Init, TypeOK

(* Type correctness of the store and of its commands. *)
THEOREM TypeCorrect == Spec => []TypeOK
<1>1. TypeOK /\ [Next]_vars => TypeOK'
  BY TypeStep
<1>2. QED
  BY TypeInit, <1>1, PTL DEF Spec

-----------------------------------------------------------------------------
(* Interleaved runs: nothing is lost without a conflict. *)

(* The object a run is about to save is what it took for the content of    *)
(* the file, changed at its targets.                                       *)
CopiesAgree ==
    \A p \in Proc :
        /\ pc[p] \in {"backup", "open", "write"} => cfg[p] = Change(p, base[p])
        /\ pc[p] = "next" => cfg[p] = base[p] /\ req[p].value = NoEntry

(* NoLossWithoutConflict with the content of the file during a write. *)
StoreAgrees ==
    \/ conflict
    \/ torn # {}
    \/ \E p \in Proc : pc[p] = "write" /\ file = Yaml(NoEntries)
    \/ file.body = promised

(* Only the run that steps changes its own copies. *)
LEMMA CopiesStep ==
    ASSUME TypeOK, CopiesAgree, [Next]_vars
    PROVE  CopiesAgree'
<1> SUFFICES ASSUME NEW q \in Proc
             PROVE /\ pc'[q] \in {"backup", "open", "write"} =>
                         cfg'[q] = Change(q, base[q])'
                   /\ pc'[q] = "next" => cfg'[q] = base'[q] /\ req'[q].value = NoEntry
  BY DEF CopiesAgree
<1> USE DEF store, history, run, CopiesAgree
<1>1. ASSUME NEW p \in Proc, Step(p), p # q
      PROVE  UNCHANGED <<pc[q], cfg[q], base[q], req[q], target[q]>>
  BY <1>1 DEF TypeOK, Step, Start, Probe, Create, LoadForAdd, LoadForEdit, LoadForDelete,
     LoadForRead, LoadRaises, Backup, DeleteNext, Open, Save, FailEarly, FailLate, Kill,
     Finish, Load, Prepare
<1>2. CASE UNCHANGED <<pc[q], cfg[q], base[q], req[q], target[q]>>
  BY <1>2 DEF Change
<1>3. CASE Start(q) \/ Probe(q) \/ Create(q) \/ LoadRaises(q) \/ LoadForRead(q)
  BY <1>3 DEF TypeOK, Start, Probe, Create, LoadRaises, LoadForRead, Finish, Load
<1>4. CASE LoadForAdd(q) \/ LoadForEdit(q)
  <2>1. CASE Prepare(q) /\ Load(q)
    <3>1. /\ pc'[q] = "backup" /\ base'[q] = file.body /\ target'[q] = req[q].names
          /\ req' = req
          /\ cfg'[q] = [n \in Name |-> IF n \in req[q].names THEN req[q].value ELSE file.body[n]]
      BY <2>1 DEF TypeOK, Prepare, Load
    <3>2. QED
      BY <3>1 DEF Change
  <2>2. CASE pc'[q] = "ended"
    BY <2>2
  <2>3. QED
    BY <1>4, <2>1, <2>2 DEF LoadForAdd, LoadForEdit, Finish, TypeOK
<1>5. CASE LoadForDelete(q)
  <2>1. req[q].value = NoEntry
    BY <1>5 DEF TypeOK, LoadForDelete, Request, NoRequest
  <2>2. QED
    BY <1>5, <2>1 DEF TypeOK, LoadForDelete, Load, Finish
<1>6. CASE Backup(q) \/ Open(q) \/ FailEarly(q) \/ FailLate(q) \/ Kill(q)
  BY <1>6 DEF TypeOK, Backup, Open, FailEarly, FailLate, Kill, Finish, Change
<1>7. CASE DeleteNext(q)
  <2>1. cfg[q] = base[q] /\ req[q].value = NoEntry /\ req' = req /\ base' = base
    BY <1>7 DEF DeleteNext
  <2>2. CASE pc'[q] \in {"next", "ended"}
    BY <1>7, <2>1, <2>2 DEF DeleteNext, TypeOK, Finish
  <2>3. CASE \E n \in Name : /\ cfg' = [cfg EXCEPT ![q][n] = NoEntry]
                             /\ target' = [target EXCEPT ![q] = {n}]
                             /\ pc' = [pc EXCEPT ![q] = "open"]
    <3>1. PICK n \in Name : /\ cfg' = [cfg EXCEPT ![q][n] = NoEntry]
                           /\ target' = [target EXCEPT ![q] = {n}]
                           /\ pc' = [pc EXCEPT ![q] = "open"]
      BY <2>3
    <3>2. cfg'[q] = [m \in Name |-> IF m = n THEN NoEntry ELSE cfg[q][m]]
      BY <3>1 DEF TypeOK, Config
    <3>3. target'[q] = {n} /\ pc'[q] = "open"
      BY <3>1 DEF TypeOK
    <3>4. QED
      BY <2>1, <3>2, <3>3 DEF Change
  <2>4. QED
    BY <1>7, <2>2, <2>3 DEF DeleteNext, TypeOK, Finish
<1>8. CASE Save(q)
  <2>1. pc'[q] \in {"next", "ended"} /\ req' = req /\ cfg' = cfg /\ base'[q] = cfg[q]
    BY <1>8 DEF Save, TypeOK, Finish
  <2>2. pc'[q] = "next" => req[q].value = NoEntry
    BY <1>8 DEF Save, TypeOK, Finish, Request, NoRequest
  <2>3. QED
    BY <2>1, <2>2
<1>9. QED
  BY <1>1, <1>2, <1>3, <1>4, <1>5, <1>6, <1>7, <1>8 DEF Next, Step, Done, vars

(* A save that meets the configuration it loaded stores what it promises. *)
LEMMA StoreStep ==
    ASSUME TypeOK, CopiesAgree, StoreAgrees, [Next]_vars
    PROVE  StoreAgrees'
<1> USE DEF store, history, run, StoreAgrees
<1>1. ASSUME NEW p \in Proc, Open(p) PROVE StoreAgrees'
  BY <1>1 DEF Open, TypeOK
<1>2. ASSUME NEW p \in Proc, Create(p) PROVE StoreAgrees'
  BY <1>2 DEF Create, Yaml
<1>3. ASSUME NEW p \in Proc, Save(p) PROVE StoreAgrees'
  <2>1. CASE promised = base[p] /\ file = Yaml(NoEntries)
    <3>1. file.body = NoEntries /\ file.state = "yaml"
      BY <2>1 DEF Yaml
    <3>2. file' = Yaml(cfg[p])
      BY <1>3, <3>1 DEF Save
    <3>3. cfg[p] = Change(p, promised)
      BY <1>3, <2>1 DEF Save, CopiesAgree
    <3>4. promised' = Change(p, promised)
      BY <1>3 DEF Save
    <3>5. file'.body = promised'
      BY <3>2, <3>3, <3>4 DEF Yaml
    <3>6. QED
      BY <3>5
  <2>2. CASE ~(promised = base[p] /\ file = Yaml(NoEntries))
    BY <1>3, <2>2 DEF Save
  <2>3. QED
    BY <2>1, <2>2
<1>4. ASSUME NEW p \in Proc, FailLate(p) PROVE StoreAgrees'
  BY <1>4 DEF FailLate
<1>5. ASSUME NEW p \in Proc, Kill(p) PROVE StoreAgrees'
  BY <1>5 DEF Kill, TypeOK
<1>6. ASSUME NEW p \in Proc,
             \/ Start(p) \/ Probe(p) \/ LoadForAdd(p) \/ LoadForEdit(p) \/ LoadForDelete(p)
             \/ LoadForRead(p) \/ LoadRaises(p) \/ Backup(p) \/ DeleteNext(p) \/ FailEarly(p)
      PROVE StoreAgrees'
  <2>1. UNCHANGED <<file, promised, torn, conflict>> /\ pc[p] # "write"
    BY <1>6 DEF Start, Probe, LoadForAdd, LoadForEdit, LoadForDelete, LoadForRead,
       LoadRaises, Backup, DeleteNext, FailEarly, Load
  <2>2. \A q \in Proc : pc[q] = "write" => pc'[q] = "write"
    BY <1>6, <2>1 DEF TypeOK, Start, Probe, LoadForAdd, LoadForEdit, LoadForDelete,
       LoadForRead, LoadRaises, Backup, DeleteNext, FailEarly, Finish, Prepare
  <2>3. QED
    BY <2>1, <2>2
<1>7. CASE UNCHANGED vars
  BY <1>7 DEF vars
<1>8. QED
  BY <1>1, <1>2, <1>3, <1>4, <1>5, <1>6, <1>7 DEF Next, Step, Done

(* However the runs interleave, are killed or fail: users and file         *)
(* disagree only during a write, after a torn one, or after a conflict.    *)
THEOREM LossNeedsConflict == Spec => []NoLossWithoutConflict
<1>1. Init => CopiesAgree /\ StoreAgrees
  BY DEF Init, CopiesAgree, StoreAgrees
<1>2. TypeOK /\ CopiesAgree /\ StoreAgrees /\ [Next]_vars => (CopiesAgree /\ StoreAgrees)'
  BY CopiesStep, StoreStep
<1>3. StoreAgrees => NoLossWithoutConflict
  BY DEF StoreAgrees, NoLossWithoutConflict, BeingWritten
<1>4. QED
  BY TypeCorrect, <1>1, <1>2, <1>3, PTL DEF Spec

-----------------------------------------------------------------------------
(* Runs that do not overlap: only a delete destroys an entry. *)

OneActive == \A p, q \in Proc : Active(p) /\ Active(q) => p = q

(* A delete was stopped while the file was empty. *)
DeleteTorn == \E p \in torn : req[p].verb = "delete"

(* What the active run relies on in the file: nobody else touches it. *)
FileAlone ==
    /\ file.state # "yaml" => file.body = NoEntries
    /\ \A p \in torn : pc[p] = "ended"
    /\ \A p \in Proc :
          /\ pc[p] = "create" => file.state = "missing"
          /\ pc[p] = "write" => file = Yaml(NoEntries)
          /\ pc[p] \in {"next", "open"} /\ req[p].verb = "delete" => file.body = base[p]
          /\ pc[p] = "next" => req[p].verb = "delete"
          /\ pc[p] = "backup" => req[p].verb # "delete"

(* Where the entry of n can be found. *)
Findable(n) ==
    \/ Holds(file, n)
    \/ InBackup(n)
    \/ DeleteTorn
    \/ \E p \in Proc : req[p].verb = "delete" /\ pc[p] = "write"

(* A run that saves has every entry in a backup, a delete has it in the    *)
(* object it loaded.                                                       *)
Covered(p, n) ==
    /\ pc[p] \in {"open", "write"} /\ req[p].verb # "delete" => InBackup(n) \/ DeleteTorn
    /\ pc[p] \in {"next", "open", "write"} /\ req[p].verb = "delete" =>
          InBackup(n) \/ DeleteTorn \/ base[p][n] = promised[n]

SerialInv ==
    /\ OneActive
    /\ FileAlone
    /\ \A n \in Name : promised[n] # NoEntry => Findable(n)
    /\ \A p \in Proc, n \in Name : promised[n] # NoEntry => Covered(p, n)

(* A step belongs to one run, which was working unless it starts. *)
LEMMA StepFrame ==
    ASSUME TypeOK, NEW p \in Proc, Step(p)
    PROVE  /\ \A q \in Proc \ {p} : UNCHANGED <<pc[q], req[q], base[q]>>
           /\ Active(p) \/ Start(p)
BY DEF TypeOK, Step, Start, Probe, Create, LoadForAdd, LoadForEdit, LoadForDelete,
   LoadForRead, LoadRaises, Backup, DeleteNext, Open, Save, FailEarly, FailLate, Kill,
   Finish, Load, Prepare, Active, Working, store, history, run

LEMMA OneActiveStep ==
    ASSUME ~Concurrent, TypeOK, OneActive, [Next]_vars
    PROVE  OneActive'
<1>1. ASSUME NEW p \in Proc, Step(p) PROVE OneActive'
  <2>1. \A q \in Proc \ {p} : ~Active(q)
    BY <1>1, StepFrame DEF OneActive, Start, Quiet
  <2>2. \A q \in Proc \ {p} : ~Active(q)'
    BY <1>1, <2>1, StepFrame DEF Active
  <2>3. QED
    BY <2>2 DEF OneActive
<1>2. CASE UNCHANGED vars
  BY <1>2 DEF vars, OneActive, Active
<1>3. QED
  BY <1>1, <1>2 DEF Next, Done

(* No other run steps into the file of the active one. *)
LEMMA FileAloneStep ==
    ASSUME ~Concurrent, TypeOK, CopiesAgree, OneActive, FileAlone, [Next]_vars
    PROVE  FileAlone'
<1> USE DEF store, history, run
<1>1. ASSUME NEW p \in Proc, Step(p) PROVE FileAlone'
  <2>1. \A q \in Proc \ {p} : /\ ~Active(q)
                              /\ UNCHANGED <<pc[q], req[q], base[q]>>
    BY <1>1, StepFrame DEF OneActive, Start, Quiet
  <2>2. \A q \in Proc \ {p} : pc'[q] \notin Working
    BY <2>1 DEF Active
  <2>3. file'.state # "yaml" => file'.body = NoEntries
    BY <1>1 DEF FileAlone, Step, Start, Probe, Create, LoadForAdd, LoadForEdit,
       LoadForDelete, LoadForRead, LoadRaises, Backup, DeleteNext, Open, Save, FailEarly,
       FailLate, Kill, Load, Yaml, Garbled
  <2>4. \A q \in torn' : pc'[q] = "ended"
    BY <1>1 DEF FileAlone, TypeOK, Step, Start, Probe, Create, LoadForAdd, LoadForEdit,
       LoadForDelete, LoadForRead, LoadRaises, Backup, DeleteNext, Open, Save, FailEarly,
       FailLate, Kill, Load, Finish, Prepare, Active, Working
  <2>5. /\ pc'[p] = "create" => file'.state = "missing"
        /\ pc'[p] = "write" => file' = Yaml(NoEntries)
    BY <1>1 DEF FileAlone, TypeOK, Step, Start, Probe, Create, LoadForAdd, LoadForEdit,
       LoadForDelete, LoadForRead, LoadRaises, Backup, DeleteNext, Open, Save, FailEarly,
       FailLate, Kill, Load, Finish, Prepare, Active, Working
  <2>6. pc'[p] \in {"next", "open"} /\ req'[p].verb = "delete" => file'.body = base'[p]
    <3>1. CASE Save(p)
      <4>1. SUFFICES ASSUME req[p].verb = "delete" PROVE file'.body = base'[p]
        BY <3>1 DEF Save
      <4>2. file = Yaml(NoEntries)
        BY <3>1 DEF Save, FileAlone
      <4>3. file' = Yaml(cfg[p])
        BY <3>1, <4>2 DEF Save, Yaml
      <4>4. QED
        BY <3>1, <4>3 DEF Save, TypeOK, Yaml
    <3>2. CASE ~Save(p)
      BY <1>1, <3>2 DEF FileAlone, TypeOK, Step, Start, Probe, Create, LoadForAdd,
         LoadForEdit, LoadForDelete, LoadForRead, LoadRaises, Backup, DeleteNext, Open,
         FailEarly, FailLate, Kill, Load, Finish, Prepare, Active, Working
    <3>3. QED
      BY <3>1, <3>2
  <2>7. /\ pc'[p] = "next" => req'[p].verb = "delete"
        /\ pc'[p] = "backup" => req'[p].verb # "delete"
    BY <1>1 DEF FileAlone, TypeOK, Step, Start, Probe, Create, LoadForAdd, LoadForEdit,
       LoadForDelete, LoadForRead, LoadRaises, Backup, DeleteNext, Open, Save, FailEarly,
       FailLate, Kill, Load, Finish, Prepare, Active, Working
  <2>8. QED
    BY <2>2, <2>3, <2>4, <2>5, <2>6, <2>7 DEF FileAlone, Working
<1>2. CASE UNCHANGED vars
  BY <1>2 DEF vars, FileAlone
<1>3. QED
  BY <1>1, <1>2 DEF Next, Done

(* Backups stay, and a torn delete stays one. *)
LEMMA StaysFindable ==
    ASSUME TypeOK, FileAlone, NEW p \in Proc, Step(p), NEW n \in Name
    PROVE  /\ DeleteTorn => DeleteTorn'
           /\ InBackup(n) /\ promised'[n] = promised[n] => InBackup(n)'
<1>1. torn \subseteq torn' /\ backups \subseteq backups'
  BY DEF Step, Start, Probe, Create, LoadForAdd, LoadForEdit, LoadForDelete, LoadForRead,
     LoadRaises, Backup, DeleteNext, Open, Save, FailEarly, FailLate, Kill, Load, store, history
<1>2. \A q \in torn : req'[q] = req[q]
  BY DEF FileAlone, TypeOK, Step, Start, Probe, Create, LoadForAdd, LoadForEdit,
     LoadForDelete, LoadForRead, LoadRaises, Backup, DeleteNext, Open, Save, FailEarly,
     FailLate, Kill, Load
<1>3. QED
  BY <1>1, <1>2 DEF DeleteTorn, InBackup, Holds

(* The entry that is findable stays findable, and every run that empties   *)
(* the file has it covered.                                                *)
LEMMA FindableStep ==
    ASSUME ~Concurrent, TypeOK, CopiesAgree, SerialInv, NEW p \in Proc, Step(p),
           NEW n \in Name, promised'[n] # NoEntry
    PROVE  Findable(n)' /\ Covered(p, n)'
<1> USE DEF store, history, run
<1>1. \A q \in Proc \ {p} : ~Active(q) /\ UNCHANGED <<pc[q], req[q], base[q]>>
  BY StepFrame DEF SerialInv, OneActive, Start, Quiet
<1>2. /\ DeleteTorn => DeleteTorn'
      /\ InBackup(n) /\ promised'[n] = promised[n] => InBackup(n)'
  BY StaysFindable DEF SerialInv
<1>3. promised[n] # NoEntry => Findable(n) /\ Covered(p, n)
  BY DEF SerialInv
<1>4. \A q \in Proc \ {p} : pc[q] # "write"
  BY <1>1 DEF Active, Working
<1>5. CASE /\ UNCHANGED <<file, promised>>
           /\ pc[p] # "write"
           /\ pc'[p] \in {"idle", "ended", "probe", "create", "load", "backup"}
  <2>1. Findable(n)'
    BY <1>2, <1>3, <1>4, <1>5 DEF Findable, Holds
  <2>2. Covered(p, n)'
    BY <1>5 DEF Covered
  <2>3. QED
    BY <2>1, <2>2
<1>6. CASE Start(p) \/ Probe(p) \/ LoadForAdd(p) \/ LoadForEdit(p) \/ LoadForRead(p)
             \/ LoadRaises(p) \/ FailEarly(p)
  BY <1>5, <1>6 DEF TypeOK, Start, Probe, LoadForAdd, LoadForEdit, LoadForRead, LoadRaises,
     FailEarly, Load, Finish, Prepare
<1>7. CASE Create(p)
  <2>1. file.body = NoEntries /\ file'.body = NoEntries /\ promised' = promised
    BY <1>7 DEF Create, SerialInv, FileAlone, Yaml
  <2>2. pc[p] = "create" /\ pc'[p] = "load"
    BY <1>7 DEF Create, TypeOK
  <2>3. Findable(n)'
    BY <1>2, <1>3, <1>4, <2>1, <2>2 DEF Findable, Holds
  <2>4. QED
    BY <2>2, <2>3 DEF Covered
<1>8. CASE LoadForDelete(p)
  <2>1. file' = file /\ promised' = promised /\ pc[p] = "load" /\ base'[p] = file.body
        /\ pc'[p] \in {"next", "ended"} /\ req' = req /\ backups' = backups
    BY <1>8 DEF LoadForDelete, Load, Finish, TypeOK
  <2>2. Findable(n)'
    BY <1>2, <1>3, <1>4, <2>1 DEF Findable, Holds
  <2>3. Holds(file, n) \/ InBackup(n) \/ DeleteTorn
    BY <1>3, <1>4, <2>1 DEF Findable
  <2>4. Covered(p, n)'
    BY <1>2, <2>1, <2>3 DEF Covered, Holds
  <2>5. QED
    BY <2>2, <2>4
<1>9. CASE Backup(p)
  <2>1. /\ file' = file /\ promised' = promised /\ req' = req
        /\ pc[p] = "backup" /\ pc'[p] = "open" /\ backups' = backups \cup {file}
    BY <1>9 DEF Backup, TypeOK
  <2>2. Holds(file, n) \/ InBackup(n) \/ DeleteTorn
    BY <1>3, <1>4, <2>1 DEF Findable
  <2>3. InBackup(n)' \/ DeleteTorn'
    BY <1>2, <2>1, <2>2 DEF InBackup, Holds
  <2>4. req'[p].verb # "delete"
    BY <2>1 DEF SerialInv, FileAlone
  <2>5. QED
    BY <2>1, <2>3, <2>4 DEF Findable, Covered
<1>10. CASE DeleteNext(p)
  <2>1. /\ file' = file /\ promised' = promised /\ req' = req /\ base' = base
        /\ pc[p] = "next" /\ pc'[p] \in {"next", "open", "ended"}
        /\ req[p].verb = "delete"
    BY <1>10 DEF DeleteNext, Finish, TypeOK, SerialInv, FileAlone
  <2>2. Findable(n)'
    BY <1>2, <1>3, <1>4, <2>1 DEF Findable, Holds
  <2>3. Covered(p, n)'
    BY <1>2, <1>3, <2>1 DEF Covered
  <2>4. QED
    BY <2>2, <2>3
<1>11. CASE Open(p)
  <2>1. /\ promised' = promised /\ req' = req /\ base' = base
        /\ pc[p] = "open" /\ pc'[p] = "write"
    BY <1>11 DEF Open, TypeOK
  <2>2. Covered(p, n)'
    BY <1>2, <1>3, <2>1 DEF Covered
  <2>3. Findable(n)'
    BY <1>2, <1>3, <2>1 DEF Findable, Covered
  <2>4. QED
    BY <2>2, <2>3
<1>12. CASE Save(p)
  <2>1. /\ req' = req /\ pc[p] = "write" /\ pc'[p] \in {"next", "ended"}
        /\ base'[p] = cfg[p] /\ promised' = Change(p, promised) /\ cfg[p] = Change(p, base[p])
        /\ pc'[p] = "next" <=> req[p].verb = "delete"
    BY <1>12 DEF Save, Finish, TypeOK, CopiesAgree
  <2>2. file'.body = cfg[p]
    BY <1>12 DEF Save, SerialInv, FileAlone, Yaml
  <2>3. CASE n \in target[p]
    <3>1. promised'[n] = cfg[p][n]
      BY <2>1, <2>3 DEF Change
    <3>2. QED
      BY <2>1, <2>2, <3>1 DEF Findable, Holds, Covered
  <2>4. CASE n \notin target[p]
    <3>1. promised'[n] = promised[n] /\ cfg[p][n] = base[p][n]
      BY <2>1, <2>4 DEF Change
    <3>2. InBackup(n) \/ DeleteTorn \/ base[p][n] = promised[n]
      BY <1>3, <2>1, <3>1 DEF Covered
    <3>3. InBackup(n)' \/ DeleteTorn' \/ cfg[p][n] = promised'[n]
      BY <1>2, <3>1, <3>2
    <3>4. QED
      BY <2>1, <2>2, <3>3 DEF Findable, Holds, Covered
  <2>5. QED
    BY <2>3, <2>4
<1>13. CASE pc[p] = "write" /\ pc'[p] = "ended" /\ torn' = torn \cup {p}
            /\ UNCHANGED <<promised, req>>
  <2>1. Covered(p, n)'
    BY <1>13 DEF Covered
  <2>2. InBackup(n) \/ DeleteTorn \/ req[p].verb = "delete"
    BY <1>3, <1>13 DEF Covered
  <2>3. InBackup(n)' \/ DeleteTorn'
    BY <1>2, <1>13, <2>2 DEF DeleteTorn
  <2>4. QED
    BY <2>1, <2>3 DEF Findable
<1>14. CASE FailLate(p)
  BY <1>13, <1>14 DEF FailLate, Finish, TypeOK
<1>15. CASE Kill(p)
  BY <1>5, <1>13, <1>15 DEF Kill, TypeOK
<1>16. QED
  BY <1>6, <1>7, <1>8, <1>9, <1>10, <1>11, <1>12, <1>14, <1>15 DEF Step

LEMMA SerialStep ==
    ASSUME ~Concurrent, TypeOK, CopiesAgree, SerialInv, [Next]_vars
    PROVE  SerialInv'
<1>1. OneActive' /\ FileAlone'
  BY OneActiveStep, FileAloneStep DEF SerialInv
<1>2. ASSUME NEW p \in Proc, Step(p) PROVE SerialInv'
  <2>1. ASSUME NEW n \in Name, promised'[n] # NoEntry PROVE Findable(n)'
    BY <1>2, <2>1, FindableStep
  <2>2. ASSUME NEW q \in Proc, NEW n \in Name, promised'[n] # NoEntry PROVE Covered(q, n)'
    <3>1. CASE q = p
      BY <1>2, <2>2, <3>1, FindableStep
    <3>2. CASE q # p
      <4>1. ~Active(q) /\ pc'[q] = pc[q]
        BY <1>2, <3>2, StepFrame DEF SerialInv, OneActive, Start, Quiet
      <4>2. QED
        BY <4>1 DEF Active, Working, Covered
    <3>3. QED
      BY <3>1, <3>2
  <2>3. QED
    BY <1>1, <2>1, <2>2 DEF SerialInv
<1>3. CASE UNCHANGED vars
  BY <1>3 DEF vars, SerialInv, OneActive, Active, FileAlone, Findable, Covered, Holds,
     InBackup, DeleteTorn
<1>4. QED
  BY <1>2, <1>3 DEF Next, Done

LEMMA SerialInit == Init => SerialInv
<1> SUFFICES ASSUME Init PROVE SerialInv
  OBVIOUS
<1>1. \A n \in Name : Findable(n)
  BY DEF Init, Findable, Holds
<1>2. QED
  BY <1>1 DEF Init, SerialInv, OneActive, Active, Working, FileAlone, Covered, Missing, Yaml

(* One run at a time: kills and failed writes destroy no entry that some   *)
(* user was told is stored, unless the run that was stopped is a delete.   *)
THEOREM SerialRunsKeepEntries == Spec => []OnlyDeletesLose
<1> DEFINE Inv == CopiesAgree /\ (~Concurrent => SerialInv)
<1>1. Init => Inv
  BY SerialInit DEF Init, CopiesAgree
<1>2. TypeOK /\ Inv /\ [Next]_vars => Inv'
  <2>1. SUFFICES ASSUME TypeOK, Inv, [Next]_vars PROVE Inv'
    OBVIOUS
  <2>2. CopiesAgree'
    BY <2>1, CopiesStep
  <2>3. ~Concurrent => SerialInv'
    BY <2>1, SerialStep
  <2>4. QED
    BY <2>2, <2>3
<1>3. TypeOK /\ Inv => OnlyDeletesLose
  BY DEF TypeOK, SerialInv, OnlyDeletesLose, Findable, DeleteEmptied, DeleteTorn
<1> HIDE DEF Inv
<1>4. QED
  BY TypeCorrect, <1>1, <1>2, <1>3, PTL DEF Spec

-----------------------------------------------------------------------------
(* Overlapping runs: only the names a run was asked about can suffer. *)

(* A run changes only what it was asked to change. *)
OwnNames ==
    \A p \in Proc :
        /\ todo[p] \subseteq req[p].names
        /\ target[p] \subseteq req[p].names
        /\ pc[p] = "idle" => req[p] = NoRequest /\ todo[p] = {} /\ target[p] = {}
        /\ pc[p] \in {"probe", "create", "backup", "open", "write", "next"} => req[p].verb # "read"

(* What all know of an entry nobody changes.  At most one run has the file *)
(* open, and it is empty then; at all other times the entry is in the      *)
(* file, and every copy that will be saved has it.                         *)
Undisturbed(n) ==
    /\ file.state = "missing" => promised[n] = NoEntry
    /\ Holds(file, n) \/ BeingWritten
    /\ \A p \in Proc :
          /\ pc[p] = "create" => promised[n] = NoEntry
          /\ pc[p] \in {"backup", "open", "write", "next"} => cfg[p][n] = promised[n]
          /\ pc[p] = "write" => file = Yaml(NoEntries) /\ \A q \in Proc : pc[q] = "write" => q = p

BystanderInv ==
    /\ OwnNames
    /\ ~inWindow /\ torn = {} => \A n \in Name : Bystander(n) => Undisturbed(n)

(* A run works with the names it was given. *)
LEMMA OwnNamesStep ==
    ASSUME TypeOK, OwnNames, [Next]_vars
    PROVE  OwnNames'
<1> DEFINE Own(p) ==
      /\ todo[p] \subseteq req[p].names
      /\ target[p] \subseteq req[p].names
      /\ pc[p] = "idle" => req[p] = NoRequest /\ todo[p] = {} /\ target[p] = {}
      /\ pc[p] \in {"probe", "create", "backup", "open", "write", "next"} => req[p].verb # "read"
<1> SUFFICES ASSUME NEW q \in Proc PROVE Own(q)'
  BY DEF OwnNames
<1>0. Own(q)
  BY DEF OwnNames
<1> USE DEF store, history, run
<1>1. ASSUME NEW p \in Proc, Step(p), p # q
      PROVE  UNCHANGED <<pc[q], req[q], todo[q], target[q]>>
  BY <1>1 DEF TypeOK, Step, Start, Probe, Create, LoadForAdd, LoadForEdit, LoadForDelete,
     LoadForRead, LoadRaises, Backup, DeleteNext, Open, Save, FailEarly, FailLate, Kill,
     Finish, Load, Prepare
<1>2. CASE UNCHANGED <<pc[q], req[q], todo[q], target[q]>>
  BY <1>0, <1>2
<1>3. CASE Start(q)
  <2>1. todo'[q] = {} /\ target'[q] = {} /\ pc'[q] = IF req'[q].verb = "add" THEN "probe" ELSE "load"
    BY <1>0, <1>3 DEF TypeOK, Start
  <2>2. QED
    BY <2>1
<1>4. CASE LoadForAdd(q) \/ LoadForEdit(q)
  <2>1. req' = req /\ req[q].verb # "read" /\ pc'[q] # "idle"
    BY <1>4 DEF TypeOK, LoadForAdd, LoadForEdit, Load, Finish, Prepare
  <2>2. todo' = todo /\ target'[q] \in {target[q], req[q].names}
    BY <1>4 DEF TypeOK, LoadForAdd, LoadForEdit, Load, Finish, Prepare
  <2>3. QED
    BY <1>0, <2>1, <2>2
<1>5. CASE LoadForDelete(q) \/ LoadForRead(q)
  BY <1>0, <1>5 DEF TypeOK, LoadForDelete, LoadForRead, Load, Finish
<1>6. CASE DeleteNext(q)
  BY <1>0, <1>6 DEF TypeOK, DeleteNext, Finish
<1>7. CASE Save(q)
  BY <1>0, <1>7 DEF TypeOK, Save, Finish
<1>8. CASE \/ Probe(q) \/ Create(q) \/ LoadRaises(q) \/ Backup(q) \/ Open(q)
           \/ FailEarly(q) \/ FailLate(q) \/ Kill(q)
  <2>1. UNCHANGED <<req, todo, target>> /\ pc'[q] # "idle"
    BY <1>8 DEF TypeOK, Probe, Create, LoadRaises, Backup, Open, FailEarly, FailLate, Kill, Finish
  <2>2. pc'[q] \in {"probe", "create", "backup", "open", "write", "next"}
           => pc[q] \in {"probe", "create", "backup", "open", "write", "next"}
    BY <1>8 DEF TypeOK, Probe, Create, LoadRaises, Backup, Open, FailEarly, FailLate, Kill, Finish
  <2>3. QED
    BY <1>0, <2>1, <2>2
<1>9. QED
  BY <1>1, <1>2, <1>3, <1>4, <1>5, <1>6, <1>7, <1>8 DEF Next, Step, Done, vars

(* A request is asked once, and the two history variables only grow: what  *)
(* is a bystander in an undisturbed store was one before.                  *)
LEMMA WasBystander ==
    ASSUME TypeOK, OwnNames, [Next]_vars, NEW n \in Name, Bystander(n)', ~inWindow', torn' = {}
    PROVE  Bystander(n) /\ ~inWindow /\ torn = {}
<1> USE DEF store, history, run
<1>1. ~inWindow /\ torn = {}
  BY DEF TypeOK, Next, Done, vars, Step, Start, Probe, Create, LoadForAdd, LoadForEdit,
     LoadForDelete, LoadForRead, LoadRaises, Backup, DeleteNext, Open, Save, FailEarly,
     FailLate, Kill, Load
<1>2. ASSUME NEW p \in Proc PROVE n \in req[p].names => req[p].verb = "read"
  <2>1. CASE req'[p] = req[p]
    BY <2>1 DEF Bystander
  <2>2. CASE req'[p] # req[p]
    <3>1. Start(p)
      BY <2>2 DEF TypeOK, Next, Done, vars, Step, Start, Probe, Create, LoadForAdd,
         LoadForEdit, LoadForDelete, LoadForRead, LoadRaises, Backup, DeleteNext, Open, Save,
         FailEarly, FailLate, Kill, Load
    <3>2. QED
      BY <3>1 DEF Start, OwnNames, NoRequest
  <2>3. QED
    BY <2>1, <2>2
<1>3. QED
  BY <1>1, <1>2 DEF Bystander

(* Whatever a run does, it leaves the entries of others as they are. *)
LEMMA UndisturbedStep ==
    ASSUME TypeOK, OwnNames, NEW n \in Name, Bystander(n), Undisturbed(n), ~inWindow',
           torn' = {}, NEW p \in Proc, Step(p)
    PROVE  Undisturbed(n)'
<1> USE DEF store, history, run
<1>1. ASSUME NEW q \in Proc, q # p PROVE UNCHANGED <<pc[q], cfg[q]>>
  BY <1>1 DEF TypeOK, Step, Start, Probe, Create, LoadForAdd, LoadForEdit, LoadForDelete,
     LoadForRead, LoadRaises, Backup, DeleteNext, Open, Save, FailEarly, FailLate, Kill,
     Finish, Load, Prepare
<1>2. pc[p] \in {"probe", "create", "backup", "open", "write", "next"} =>
         n \notin target[p] /\ n \notin todo[p] /\ n \notin req[p].names
  BY DEF OwnNames, Bystander
<1>3. CASE /\ UNCHANGED <<file, promised>>
           /\ pc[p] # "write" /\ pc'[p] # "write"
           /\ pc'[p] = "create" => promised[n] = NoEntry
           /\ pc'[p] \in {"backup", "open", "next"} => cfg'[p][n] = promised[n]
  <2>1. BeingWritten => BeingWritten'
    BY <1>1, <1>3 DEF BeingWritten
  <2>2. QED
    BY <1>1, <1>3, <2>1 DEF Undisturbed, Holds
<1>4. CASE Start(p) \/ LoadRaises(p) \/ LoadForRead(p) \/ FailEarly(p)
  <2>1. /\ UNCHANGED <<file, promised>> /\ pc[p] # "write"
        /\ pc'[p] \in {"probe", "load", "ended"}
    BY <1>4 DEF TypeOK, Start, LoadRaises, LoadForRead, FailEarly, Load, Finish
  <2>2. QED
    BY <1>3, <2>1
<1>5. CASE Probe(p)
  <2>1. pc'[p] \in {"create", "load"} /\ (pc'[p] = "create" => file.state = "missing")
    BY <1>5 DEF TypeOK, Probe
  <2>2. QED
    BY <1>3, <1>5, <2>1 DEF Probe, Undisturbed
<1>6. CASE Create(p)
  <2>1. /\ file' = Yaml(NoEntries) /\ promised' = promised /\ cfg' = cfg
        /\ pc[p] = "create" /\ pc'[p] = "load"
    BY <1>6 DEF TypeOK, Create
  <2>2. promised[n] = NoEntry
    BY <2>1 DEF Undisturbed
  <2>3. file'.state # "missing" /\ Holds(file, n)'
    BY <2>1, <2>2 DEF Yaml, NoEntries, Holds
  <2>4. QED
    BY <1>1, <2>1, <2>2, <2>3 DEF Undisturbed
<1>7. CASE LoadForAdd(p) \/ LoadForEdit(p) \/ LoadForDelete(p)
  <2>1. /\ UNCHANGED <<file, promised>> /\ pc[p] = "load" /\ req[p].verb # "read"
        /\ pc'[p] \in {"backup", "next", "ended"}
    BY <1>7 DEF TypeOK, LoadForAdd, LoadForEdit, LoadForDelete, Load, Finish, Prepare
  <2>2. ~BeingWritten
    BY <1>7, <2>1 DEF LoadForAdd, LoadForEdit, LoadForDelete, Load
  <2>3. file.body[n] = promised[n]
    BY <2>2 DEF Undisturbed, Holds
  <2>4. n \notin req[p].names
    BY <2>1 DEF Bystander
  <2>5. pc'[p] \in {"backup", "next"} => cfg'[p][n] = file.body[n]
    BY <1>7, <2>1, <2>4 DEF TypeOK, LoadForAdd, LoadForEdit, LoadForDelete, Prepare, Finish
  <2>6. QED
    BY <1>3, <2>1, <2>3, <2>5
<1>8. CASE Backup(p)
  <2>1. /\ UNCHANGED <<file, promised, cfg>> /\ pc[p] = "backup" /\ pc'[p] = "open"
    BY <1>8 DEF TypeOK, Backup
  <2>2. QED
    BY <1>3, <2>1 DEF Undisturbed
<1>9. CASE DeleteNext(p)
  <2>1. /\ UNCHANGED <<file, promised>> /\ pc[p] = "next" /\ pc'[p] \in {"next", "open", "ended"}
    BY <1>9 DEF TypeOK, DeleteNext, Finish
  <2>2. cfg'[p][n] = cfg[p][n]
    <3>1. CASE cfg' = cfg
      BY <3>1
    <3>2. CASE cfg' # cfg
      <4>1. PICK m \in todo[p] : cfg' = [cfg EXCEPT ![p][m] = NoEntry]
        BY <1>9, <3>2 DEF DeleteNext, Finish
      <4>2. m # n
        BY <1>2, <2>1
      <4>3. QED
        BY <4>1, <4>2 DEF TypeOK, Config
    <3>3. QED
      BY <3>1, <3>2
  <2>3. QED
    BY <1>3, <2>1, <2>2 DEF Undisturbed
<1>10. CASE Open(p)
  <2>1. /\ file' = Yaml(NoEntries) /\ promised' = promised /\ cfg' = cfg
        /\ pc[p] = "open" /\ pc'[p] = "write" /\ ~BeingWritten
    BY <1>10 DEF TypeOK, Open
  <2>2. BeingWritten'
    BY <2>1 DEF BeingWritten
  <2>3. \A q \in Proc : pc'[q] = "write" => q = p
    BY <1>1, <2>1 DEF BeingWritten
  <2>4. file'.state # "missing"
    BY <2>1 DEF Yaml
  <2>5. QED
    BY <1>1, <2>1, <2>2, <2>3, <2>4 DEF Undisturbed
<1>11. CASE Save(p)
  <2>1. /\ promised' = Change(p, promised) /\ cfg' = cfg
        /\ pc[p] = "write" /\ pc'[p] \in {"next", "ended"}
    BY <1>11 DEF TypeOK, Save, Finish
  <2>2. promised'[n] = promised[n]
    BY <1>2, <2>1 DEF Change
  <2>3. file = Yaml(NoEntries)
    BY <2>1 DEF Undisturbed
  <2>4. file' = Yaml(cfg[p])
    BY <1>11, <2>3 DEF Save, Yaml
  <2>5. cfg[p][n] = promised[n]
    BY <2>1 DEF Undisturbed
  <2>6. Holds(file, n)' /\ file'.state # "missing"
    BY <2>2, <2>4, <2>5 DEF Holds, Yaml
  <2>7. ASSUME NEW q \in Proc, q # p PROVE pc'[q] # "write"
    BY <1>1, <2>1, <2>7 DEF Undisturbed
  <2>8. QED
    BY <1>1, <2>1, <2>2, <2>5, <2>6, <2>7 DEF Undisturbed
<1>12. CASE FailLate(p)
  BY <1>12 DEF FailLate
<1>13. CASE Kill(p)
  <2>1. pc[p] # "write" /\ UNCHANGED <<file, promised>> /\ pc'[p] = "ended"
    BY <1>13 DEF Kill, TypeOK
  <2>2. QED
    BY <1>3, <2>1
<1>14. QED
  BY <1>4, <1>5, <1>6, <1>7, <1>8, <1>9, <1>10, <1>11, <1>12, <1>13 DEF Step

(* However the runs interleave: an entry no run was asked to change stays  *)
(* as promised, unless the moment of the empty file was hit.               *)
THEOREM BystandersUnharmed == Spec => []BystandersKept
<1>1. Init => BystanderInv
  BY DEF Init, BystanderInv, OwnNames, Undisturbed, Holds, NoRequest, Missing, Yaml, NoEntries
<1>2. TypeOK /\ BystanderInv /\ [Next]_vars => BystanderInv'
  <2>1. SUFFICES ASSUME TypeOK, BystanderInv, [Next]_vars PROVE BystanderInv'
    OBVIOUS
  <2>2. OwnNames'
    BY <2>1, OwnNamesStep DEF BystanderInv
  <2>3. ASSUME ~inWindow', torn' = {}, NEW n \in Name, Bystander(n)' PROVE Undisturbed(n)'
    <3>1. Bystander(n) /\ Undisturbed(n)
      BY <2>1, <2>3, WasBystander DEF BystanderInv
    <3>2. CASE \E p \in Proc : Step(p)
      BY <2>1, <2>3, <3>1, <3>2, UndisturbedStep DEF BystanderInv
    <3>3. CASE UNCHANGED vars
      BY <3>1, <3>3 DEF vars, Undisturbed, Holds, BeingWritten
    <3>4. QED
      BY <2>1, <3>2, <3>3 DEF Next, Done
  <2>4. QED
    BY <2>2, <2>3 DEF BystanderInv
<1>3. BystanderInv => BystandersKept
  BY DEF BystanderInv, BystandersKept, Undisturbed
<1>4. QED
  BY TypeCorrect, <1>1, <1>2, <1>3, PTL DEF Spec
=============================================================================

----------------------------- MODULE ConfigStore -----------------------------
(***************************************************************************)
(* workspaces.yaml, the one file every rtw command shares, and the         *)
(* commands that read and rewrite it.  A process is one run of `rtw'.      *)
(* Nothing locks the file: a command loads the whole configuration,        *)
(* changes its own copy, and writes the whole copy back with               *)
(* open(path, "w") followed by yaml.dump, so the file is empty in between. *)
(*                                                                         *)
(* Data abstraction: a configuration maps every name to the value of its   *)
(* entry or to NoEntry; a value stands for all the fields of a Workspace.  *)
(* A text that fits the 8 KiB buffer of open() reaches the file in one     *)
(* write when the file is closed, which is what Save does.                 *)
(***************************************************************************)
EXTENDS Naturals, FiniteSets

CONSTANTS
    Proc,        \* runs of the rtw command
    Name,        \* workspace names
    Value,       \* contents of a workspace entry
    NoEntry,     \* "no entry of this name"
    Verbs,       \* the verbs the runs may use
    Concurrent,  \* may two runs overlap in time?
    Faults       \* may a run be killed, or a write fail?

ASSUME NoEntryAssumption == NoEntry \notin Value
ASSUME VerbsAssumption == Verbs \subseteq {"add", "edit", "delete", "read"}
ASSUME FlagAssumption == Concurrent \in BOOLEAN /\ Faults \in BOOLEAN

VARIABLES
    file,      \* workspaces.yaml
    backups,   \* contents of the timestamped backup files
    pc,        \* where each run is
    req,       \* what each run was asked to do
    cfg,       \* the WorkspacesConfig object each run holds
    todo,      \* the names a delete has still to visit
    target,    \* the names the next save of a run changes
    answer,    \* what a run has told its user
    (* history variables: no action reads them in a guard *)
    promised,  \* the configuration the users were told of
    base,      \* what each run took for the content of the file
    torn,      \* runs that emptied the file and did not fill it
    conflict,  \* has a run written over changes it had not seen?
    inWindow   \* has a run taken or emptied a file another run had emptied?

store == <<file, backups>>
run == <<pc, req, cfg, todo, target, answer>>
history == <<promised, base, torn, conflict, inWindow>>
vars == <<file, backups, pc, req, cfg, todo, target, answer,
          promised, base, torn, conflict, inWindow>>

Entry == Value \cup {NoEntry}
Config == [Name -> Entry]
NoEntries == [n \in Name |-> NoEntry]

(* The text of the file.  A missing, an empty and an unparsable file all   *)
(* load as the empty configuration, which their body records.              *)
Text == [state : {"missing", "yaml", "garbled"}, body : Config]
(* Faulty variant: an empty file loads as None, not as an empty mapping. *)
MissingAsNone == [state |-> "missing", body |-> <<>>]
Missing == [state |-> "missing", body |-> NoEntries]
Garbled == [state |-> "garbled", body |-> NoEntries]
Yaml(c) == [state |-> "yaml", body |-> c]

Request ==
    [verb : Verbs \cap {"add", "edit"}, names : {{n} : n \in Name}, value : Value]
        \cup [verb : Verbs \cap {"read"}, names : {{n} : n \in Name}, value : {NoEntry}]
        \cup [verb : Verbs \cap {"delete"}, names : SUBSET Name, value : {NoEntry}]

NoRequest == [verb |-> "none", names |-> {}, value |-> NoEntry]

Working == {"probe", "create", "load", "backup", "next", "open", "write"}
Active(p) == pc[p] \in Working
Quiet == \A p \in Proc : ~Active(p)

(* Some run has emptied the file and not filled it yet. *)
BeingWritten == \E p \in Proc : pc[p] = "write"

(* The configuration c after the change run p makes to it. *)
Change(p, c) == [n \in Name |-> IF n \in target[p] THEN req[p].value ELSE c[n]]

Init ==
    /\ \/ file = Missing
       \/ \E c \in Config : file = Yaml(c)
    /\ backups = {}
    /\ pc = [p \in Proc |-> "idle"]
    /\ req = [p \in Proc |-> NoRequest]
    /\ cfg = [p \in Proc |-> NoEntries]
    /\ todo = [p \in Proc |-> {}]
    /\ target = [p \in Proc |-> {}]
    /\ answer = [p \in Proc |-> "none"]
    /\ promised = file.body
    /\ base = [p \in Proc |-> NoEntries]
    /\ torn = {}
    /\ conflict = FALSE
    /\ inWindow = FALSE

-----------------------------------------------------------------------------
(* A user types a command. Only an add makes sure that the file exists. *)
Start(p) ==
    /\ pc[p] = "idle"
    /\ Concurrent \/ Quiet
    /\ \E r \in Request :
          /\ req' = [req EXCEPT ![p] = r]
          /\ pc' = [pc EXCEPT ![p] = IF r.verb = "add" THEN "probe" ELSE "load"]
    /\ UNCHANGED <<store, cfg, todo, target, answer, history>>

(* create_file_if_not_exists, first half: os.path.isfile. *)
Probe(p) ==
    /\ pc[p] = "probe"
    /\ pc' = [pc EXCEPT ![p] = IF file.state = "missing" THEN "create" ELSE "load"]
    /\ UNCHANGED <<store, req, cfg, todo, target, answer, history>>

(* Second half: open(path, "w"), which empties the file when another run   *)
(* created and filled it after the probe.                                  *)
Create(p) ==
    /\ pc[p] = "create"
    /\ file' = Yaml(NoEntries)
    /\ pc' = [pc EXCEPT ![p] = "load"]
    /\ conflict' = (conflict \/ promised # NoEntries)
    /\ UNCHANGED <<backups, req, cfg, todo, target, answer, promised, base, torn, inWindow>>

(* A run ends and tells its user so. *)
Finish(p, a) ==
    /\ pc' = [pc EXCEPT ![p] = "ended"]
    /\ answer' = [answer EXCEPT ![p] = a]

(* load_workspaces_config_from_yaml_file: the object the run goes on with. *)
Load(p) ==
    /\ pc[p] = "load"
    /\ base' = [base EXCEPT ![p] = file.body]
    /\ inWindow' = (inWindow \/ (req[p].verb # "read" /\ BeingWritten))
    /\ UNCHANGED <<store, req, promised, torn, conflict>>

(* Faulty variant: only the entry of the run is kept for the save. *)
PrepareOwnEntryOnly(p) ==
    /\ target' = [target EXCEPT ![p] = req[p].names]
    /\ cfg' = [cfg EXCEPT ![p] =
                 [n \in Name |-> IF n \in req[p].names THEN req[p].value ELSE NoEntry]]
    /\ pc' = [pc EXCEPT ![p] = "backup"]
    /\ UNCHANGED <<todo, answer>>

(* The run has changed its own copy and will save it. *)
Prepare(p) ==
    /\ target' = [target EXCEPT ![p] = req[p].names]
    /\ cfg' = [cfg EXCEPT ![p] =
                 [n \in Name |-> IF n \in req[p].names THEN req[p].value ELSE file.body[n]]]
    /\ pc' = [pc EXCEPT ![p] = "backup"]
    /\ UNCHANGED <<todo, answer>>

HasEntry(c, names) == \E n \in names : c[n] # NoEntry

(* Faulty variant: add_workspace overwrites a taken name. *)
LoadForAddUnchecked(p) ==
    /\ req[p].verb = "add"
    /\ Load(p)
    /\ Prepare(p)

(* update_workspaces_config refuses a name that is taken. *)
LoadForAdd(p) ==
    /\ req[p].verb = "add"
    /\ Load(p)
    /\ \/ /\ HasEntry(file.body, req[p].names)
          /\ Finish(p, "refused")
          /\ UNCHANGED <<cfg, todo, target>>
       \/ /\ ~HasEntry(file.body, req[p].names)
          /\ Prepare(p)

(* EditVerb refuses a name it does not know; its user may change nothing.  *)
LoadForEdit(p) ==
    /\ req[p].verb = "edit"
    /\ Load(p)
    /\ \/ /\ ~HasEntry(file.body, req[p].names)
          /\ Finish(p, "refused")
          /\ UNCHANGED <<cfg, todo, target>>
       \/ /\ HasEntry(file.body, req[p].names)
          /\ \/ Prepare(p)
             \/ Finish(p, "cancelled") /\ UNCHANGED <<cfg, todo, target>>

(* DeleteVerb: nothing to do without entries. *)
LoadForDelete(p) ==
    /\ req[p].verb = "delete"
    /\ Load(p)
    /\ cfg' = [cfg EXCEPT ![p] = file.body]
    /\ \/ /\ file.body = NoEntries
          /\ Finish(p, "refused")
          /\ UNCHANGED <<todo, target>>
       \/ /\ file.body # NoEntries
          /\ todo' = [todo EXCEPT ![p] = req[p].names]
          /\ pc' = [pc EXCEPT ![p] = "next"]
          /\ UNCHANGED <<target, answer>>

(* use, list, the docker verbs: they only read. *)
LoadForRead(p) ==
    /\ req[p].verb = "read"
    /\ Load(p)
    /\ Finish(p, IF HasEntry(file.body, req[p].names) THEN "accepted" ELSE "refused")
    /\ UNCHANGED <<cfg, todo, target>>

(* An overlaid text that still parses is not a mapping of workspaces:      *)
(* from_dict raises and the command ends with a traceback.                 *)
LoadRaises(p) ==
    /\ pc[p] = "load"
    /\ file.state = "garbled"
    /\ Finish(p, "failed")
    /\ UNCHANGED <<store, req, cfg, todo, target, history>>

(* Faulty variant: the backup file is created but never filled. *)
BackupNotCopied(p) ==
    /\ pc[p] = "backup"
    /\ backups' = backups \cup {Yaml(NoEntries)}
    /\ pc' = [pc EXCEPT ![p] = "open"]
    /\ UNCHANGED <<file, req, cfg, todo, target, answer, history>>

(* shutil.copy of the file as it is now, which may not be what was loaded. *)
Backup(p) ==
    /\ pc[p] = "backup"
    /\ backups' = backups \cup {file}
    /\ pc' = [pc EXCEPT ![p] = "open"]
    /\ UNCHANGED <<file, req, cfg, todo, target, answer, history>>

(* remove_workspaces: an unknown name is skipped, a failed or cancelled    *)
(* step ends the loop, otherwise the name leaves the loaded object, which  *)
(* is saved at once and without a backup.                                  *)
DeleteNext(p) ==
    /\ pc[p] = "next"
    /\ \/ /\ todo[p] = {}
          /\ Finish(p, "accepted")
          /\ UNCHANGED <<cfg, todo, target>>
       \/ \E n \in todo[p] :
             /\ todo' = [todo EXCEPT ![p] = @ \ {n}]
             /\ \/ /\ cfg[p][n] = NoEntry
                   /\ UNCHANGED <<pc, cfg, target, answer>>
                \/ /\ cfg[p][n] # NoEntry
                   /\ Finish(p, "cancelled")
                   /\ UNCHANGED <<cfg, target>>
                \/ /\ cfg[p][n] # NoEntry
                   /\ cfg' = [cfg EXCEPT ![p][n] = NoEntry]
                   /\ target' = [target EXCEPT ![p] = {n}]
                   /\ pc' = [pc EXCEPT ![p] = "open"]
                   /\ UNCHANGED answer
    /\ UNCHANGED <<store, req, history>>

(* write_to_yaml_file: open(path, "w") empties the file ... *)
Open(p) ==
    /\ pc[p] = "open"
    /\ file' = Yaml(NoEntries)
    /\ pc' = [pc EXCEPT ![p] = "write"]
    /\ inWindow' = (inWindow \/ BeingWritten)
    /\ UNCHANGED <<backups, req, cfg, todo, target, answer, promised, base, torn, conflict>>

(* ... and the dump fills it from its start.  When another run has filled  *)
(* it since, the tail of the longer text stays behind the shorter one.     *)
Save(p) ==
    /\ pc[p] = "write"
    /\ \/ file' = Yaml(cfg[p])
       \/ file.body # NoEntries /\ file' = Garbled
       \/ file.state = "garbled" /\ file' = Garbled
    /\ IF req[p].verb = "delete"
         THEN pc' = [pc EXCEPT ![p] = "next"] /\ UNCHANGED answer
         ELSE Finish(p, "accepted")
    /\ promised' = Change(p, promised)
    /\ base' = [base EXCEPT ![p] = cfg[p]]
    /\ conflict' = (conflict \/ promised # base[p] \/ file # Yaml(NoEntries))
    /\ UNCHANGED <<backups, req, cfg, todo, target, torn, inWindow>>

(* An OSError before the file is emptied: the file, its directory or the   *)
(* backup cannot be written.                                               *)
FailEarly(p) ==
    /\ Faults
    /\ pc[p] \in {"create", "backup", "open"}
    /\ Finish(p, "failed")
    /\ UNCHANGED <<store, req, cfg, todo, target, history>>

(* An OSError while the dump is written: the file stays empty or partial.  *)
FailLate(p) ==
    /\ Faults
    /\ pc[p] = "write"
    /\ file' \in {file, Garbled}
    /\ Finish(p, "failed")
    /\ torn' = torn \cup {p}
    /\ UNCHANGED <<backups, req, cfg, todo, target, promised, base, conflict, inWindow>>

(* The run is killed, or its terminal is closed, between two steps. *)
Kill(p) ==
    /\ Faults
    /\ Active(p)
    /\ pc' = [pc EXCEPT ![p] = "ended"]
    /\ torn' = IF pc[p] = "write" THEN torn \cup {p} ELSE torn
    /\ UNCHANGED <<store, req, cfg, todo, target, answer, promised, base, conflict, inWindow>>

(* Every run has ended. *)
Done == (\A p \in Proc : pc[p] = "ended") /\ UNCHANGED vars

Step(p) ==
    \/ Start(p) \/ Probe(p) \/ Create(p)
    \/ LoadForAdd(p) \/ LoadForEdit(p) \/ LoadForDelete(p) \/ LoadForRead(p)
    \/ LoadRaises(p) \/ Backup(p) \/ DeleteNext(p) \/ Open(p) \/ Save(p)
    \/ FailEarly(p) \/ FailLate(p) \/ Kill(p)

Next == (\E p \in Proc : Step(p)) \/ Done

Spec == Init /\ [][Next]_vars

-----------------------------------------------------------------------------
(* The type of every variable of the store and of its commands. *)
TypeOK ==
    /\ file \in Text
    /\ backups \subseteq Text
    /\ pc \in [Proc -> Working \cup {"idle", "ended"}]
    /\ req \in [Proc -> Request \cup {NoRequest}]
    /\ cfg \in [Proc -> Config]
    /\ todo \in [Proc -> SUBSET Name]
    /\ target \in [Proc -> SUBSET Name]
    /\ answer \in [Proc -> {"none", "accepted", "refused", "cancelled", "failed"}]
    /\ promised \in Config
    /\ base \in [Proc -> Config]
    /\ torn \subseteq Proc
    /\ conflict \in BOOLEAN
    /\ inWindow \in BOOLEAN

(* Is the entry users were promised for n in the text t? *)
Holds(t, n) == t.body[n] = promised[n]

InBackup(n) == \E b \in backups : Holds(b, n)

(* A delete is between the emptying and the filling of the file, or was    *)
(* stopped there.                                                          *)
DeleteEmptied(p) == req[p].verb = "delete" /\ (pc[p] = "write" \/ p \in torn)

(* When runs do not overlap, no kill and no failed write of create, import *)
(* or edit can destroy an entry: whatever a user was told is stored is in  *)
(* workspaces.yaml or in a backup.  Only a delete, which saves without the *)
(* backup that update_workspaces_config and EditVerb take, can.            *)
OnlyDeletesLose ==
    ~Concurrent =>
        \A n \in Name : promised[n] # NoEntry =>
            Holds(file, n) \/ InBackup(n) \/ \E p \in Proc : DeleteEmptied(p)

(* However runs interleave, what the users were told and what the file     *)
(* holds differ only while a run is writing, or after a run that was       *)
(* stopped while writing, wrote a configuration older than what others had *)
(* already stored, or created a file another run had just created.         *)
NoLossWithoutConflict ==
    \/ conflict
    \/ torn # {}
    \/ BeingWritten
    \/ file.body = promised

(* No run was asked to change the entry of n. *)
Bystander(n) == \A p \in Proc : n \in req[p].names => req[p].verb = "read"

(* Stale copies harm only the entries they are about: however old the      *)
(* configurations are that overlapping adds, edits and deletes save, an    *)
(* entry none of them was asked to change stays as its user was told.      *)
(* What can harm it is the moment in which a file is empty: a run stopped  *)
(* in it, or another that loads or empties the file in it.                 *)
BystandersKept ==
    \A n \in Name : Bystander(n) =>
        \/ inWindow
        \/ torn # {}
        \/ BeingWritten
        \/ Holds(file, n)
=============================================================================

------------------------------- MODULE LegacyRc -------------------------------
(***************************************************************************)
(* ~/.ros_team_ws_rc, the file of the older shell scripts, and the way of  *)
(* its workspaces into workspaces.yaml: setup-ros-workspace writes a bash  *)
(* function per workspace, update-rtw rewrites the file, `rtw workspace    *)
(* port' reads the functions and stores an entry for each.                 *)
(*                                                                         *)
(* A function is known by the name of its workspace and by the number of   *)
(* OLD_ before the name. port cuts a fixed number of characters off the    *)
(* name of a function, so each number of OLD_ gives another workspace      *)
(* name, "tup_foo" for OLD_RosTeamWS_setup_foo: a key is such a name.      *)
(* Names that contain the prefix of the functions are left out.            *)
(***************************************************************************)
EXTENDS Naturals, FiniteSets, Sequences, SequencesExt

CONSTANTS
    Name,       \* workspace names
    Covers,     \* for each name, the names that begin with it (to sed, where . is any)
    Wordlike,   \* the names of letters, digits and _ only
    MaxSetup,   \* bound: set-ups of workspaces
    MaxFaults,  \* bound: edits by hand, failures, interrupts, actions of others
    MaxUpdates  \* bound: runs of update-rtw

ASSUME LegacyAssumption ==
    /\ IsFiniteSet(Name)
    /\ Covers \in [Name -> SUBSET Name] /\ \A n \in Name : n \in Covers[n]
    /\ Wordlike \subseteq Name
    /\ MaxSetup \in Nat /\ MaxFaults \in Nat /\ MaxUpdates \in Nat

VARIABLES
    rc,        \* the functions in the file, in order
    exported,  \* every variable in the file is exported
    ver,       \* the version of its text
    bkp,       \* the version in each numbered backup; 0 is no backup
    extra,     \* other files whose name begins with that of the file
    tree,      \* local changes in the clone of ros_team_workspace
    stash,     \* the stash of the clone, the newest entry first
    conflict,  \* a rebase or a pop stopped in the clone and is not resolved
    upd,       \* the next step of update-rtw
    pc,        \* the next step of port
    script,    \* the workspaces port has read
    todo,      \* the keys port has still to store
    ported,    \* the keys it reports as stored
    config,    \* what workspaces.yaml holds under each key; 0 is no entry
    setups, updates, faults,
    (* history variables *)
    latest,    \* the last set-up of each name
    shadowed,  \* names whose function a set-up of a shorter name renamed
    replaced,  \* versions of the file the scripts rewrote
    unsaved,   \* a backup could not be made, or one or an extra file went away
    before,    \* tree and stash when update-rtw began
    trouble,   \* what failed in it: the stash, the pop, or an interrupt
    asked,     \* the keys the user of port chose
    found,     \* what workspaces.yaml held when port read the file
    touched    \* keys another command changed since then

rcfile == <<rc, exported, ver, bkp, extra>>
clone == <<tree, stash, conflict, upd, before, trouble, updates>>
port == <<pc, script, todo, ported, config, asked, found, touched>>
setup == <<setups, latest, shadowed>>
vars == <<rcfile, clone, port, setup, faults, replaced, unsaved>>

Kind == {"whole", "partial", "invalid"}
Old == 0..MaxSetup
Key == Name \X Old
Function == [name : Name, old : Old, kind : Kind, id : 1..MaxSetup]
KeyOf(f) == <<f.name, f.old>>
MaxVer == MaxSetup + MaxUpdates + MaxFaults

Init ==
    /\ rc = <<>> /\ exported = TRUE /\ ver = 1
    /\ bkp = [i \in 1..MaxVer |-> 0] /\ extra = 0
    /\ tree \in BOOLEAN /\ stash \in {<<>>, <<"older">>} /\ conflict = FALSE
    /\ upd = "idle" /\ before = [tree |-> tree, stash |-> stash] /\ trouble = {}
    /\ pc = "idle" /\ script = [k \in Key |-> 0] /\ todo = <<>> /\ ported = {}
    /\ config = [k \in Key |-> 0]
    /\ setups = 0 /\ updates = 0 /\ faults = 0
    /\ latest = [n \in Name |-> 0] /\ shadowed = {}
    /\ replaced = {} /\ unsaved = FALSE
    /\ asked = {} /\ found = config /\ touched = {}

Fault == faults < MaxFaults /\ faults' = faults + 1

-----------------------------------------------------------------------------
(* The file of the shell scripts *)

Copies == Cardinality({i \in DOMAIN bkp : bkp[i] # 0})
(* Faulty: the backups are counted without the file itself. *)
OneTooLow == IF Copies = 0 THEN 1 ELSE Copies + extra

(* The backup gets the number of the files there are, with the file itself *)
(* and whatever else begins with its name.                                 *)
BackupNumber == Copies + 1 + extra

(* Without set -e a cp that fails does not end the script. *)
CopyRc ==
    /\ replaced' = replaced \cup {ver}
    /\ \/ bkp' = [bkp EXCEPT ![BackupNumber] = ver] /\ UNCHANGED <<faults, unsaved>>
       \/ Fault /\ unsaved' = TRUE /\ UNCHANGED bkp

(* Faulty: the new function is renamed together with the old ones. *)
RenameAll(n, f) ==
    LET all == Append(rc, f)
    IN [i \in DOMAIN all |->
          [all[i] EXCEPT !.old = IF all[i].name \in Covers[n] THEN @ + 1 ELSE @]]

(* sed "s|fun_name|OLD_fun_name|g" is not bound to whole names: it renames *)
(* the functions of the longer names as well. The new function comes last. *)
Renamed(n, f) ==
    Append([i \in DOMAIN rc |->
              [rc[i] EXCEPT !.old = IF rc[i].name \in Covers[n] THEN @ + 1 ELSE @]], f)

SetUp(n) ==
    /\ setups < MaxSetup
    /\ CopyRc
    /\ rc' = Renamed(n, [name |-> n, old |-> 0, kind |-> "whole", id |-> setups + 1])
    /\ exported' = FALSE
    /\ ver' = ver + 1
    /\ setups' = setups + 1
    /\ latest' = [latest EXCEPT ![n] = setups + 1]
    /\ shadowed' = (shadowed \ {n}) \cup {m \in Covers[n] \ {n} : latest[m] # 0}
    /\ UNCHANGED <<extra, clone, port>>

(* The user changes a function so that it misses a variable or holds a     *)
(* value that a Workspace refuses.                                         *)
EditByHand(i) ==
    /\ Fault
    /\ \E k \in {"partial", "invalid"} : rc' = [rc EXCEPT ![i].kind = k]
    /\ ver' = ver + 1
    /\ UNCHANGED <<exported, bkp, extra, clone, port, setup, replaced, unsaved>>

DeleteBackup(i) ==
    /\ Fault
    /\ bkp[i] # 0 /\ bkp' = [bkp EXCEPT ![i] = 0]
    /\ unsaved' = TRUE
    /\ UNCHANGED <<rc, exported, ver, extra, clone, port, setup, replaced>>

(* An editor leaves a file beside the file, and takes it away again.       *)
ExtraFile ==
    /\ Fault
    /\ extra' = extra + 1
    /\ UNCHANGED <<rc, exported, ver, bkp, clone, port, setup, replaced, unsaved>>

ExtraFileGone ==
    /\ extra > 0 /\ extra' = extra - 1
    /\ unsaved' = TRUE
    /\ UNCHANGED <<rc, exported, ver, bkp, clone, port, setup, faults, replaced>>

-----------------------------------------------------------------------------
(* update-rtw: no step looks at how the one before it ended *)

(* git stash keeps local changes aside, if there are any; it refuses to    *)
(* while there are conflicts, and may fail.                                *)
Stash ==
    /\ upd = "idle" /\ updates < MaxUpdates
    /\ updates' = updates + 1
    /\ before' = [tree |-> tree, stash |-> stash]
    /\ upd' = "pull"
    /\ \/ /\ ~conflict
          /\ IF tree THEN stash' = <<"mine">> \o stash ELSE UNCHANGED stash
          /\ tree' = FALSE /\ trouble' = {} /\ UNCHANGED faults
       \/ /\ IF conflict THEN UNCHANGED faults ELSE Fault
          /\ trouble' = {"stash"}
          /\ UNCHANGED <<tree, stash>>
    /\ UNCHANGED <<rcfile, conflict, port, setup, replaced, unsaved>>

(* Faulty: a pull that fails ends the script. *)
PullOrStop ==
    /\ upd = "pull"
    /\ \/ upd' = "pop" /\ UNCHANGED faults
       \/ Fault /\ upd' = "idle"
    /\ UNCHANGED <<rcfile, tree, stash, conflict, before, trouble, updates, port, setup,
                   replaced, unsaved>>

(* git pull --rebase, whether it works or not; on local commits it may stop *)
(* in a conflict.                                                          *)
Pull ==
    /\ upd = "pull"
    /\ upd' = "pop"
    /\ \/ UNCHANGED <<conflict, faults>>
       \/ ~tree /\ ~conflict /\ Fault /\ conflict' = TRUE
    /\ UNCHANGED <<rcfile, tree, stash, before, trouble, updates, port, setup, replaced, unsaved>>

(* git stash pop restores the newest entry, whoever stashed it. It is      *)
(* refused while there are conflicts; one that fails, or that conflicts    *)
(* with what was pulled, leaves the entry in the stash.                    *)
Pop ==
    /\ upd = "pop"
    /\ upd' = "rc"
    /\ \/ stash = <<>> /\ UNCHANGED <<tree, stash, conflict, trouble, faults>>
       \/ /\ stash # <<>> /\ ~conflict
          /\ tree' = TRUE /\ stash' = Tail(stash)
          /\ UNCHANGED <<conflict, trouble, faults>>
       \/ /\ stash # <<>>
          /\ IF conflict THEN UNCHANGED faults ELSE Fault
          /\ trouble' = trouble \cup {"pop"}
          /\ UNCHANGED <<tree, stash, conflict>>
       \/ /\ stash # <<>> /\ ~conflict /\ Fault
          /\ tree' = TRUE /\ conflict' = TRUE
          /\ UNCHANGED <<stash, trouble>>
    /\ UNCHANGED <<rcfile, before, updates, port, setup, replaced, unsaved>>

(* Ctrl-C during the pull, or before the pop. *)
InterruptUpdate ==
    /\ upd \in {"pull", "pop"} /\ Fault
    /\ upd' = "idle"
    /\ trouble' = trouble \cup {"interrupt"}
    /\ UNCHANGED <<rcfile, tree, stash, conflict, before, updates, port, setup, replaced, unsaved>>

(* The user settles the conflict, or aborts the rebase. *)
Resolve ==
    /\ conflict /\ conflict' = FALSE
    /\ UNCHANGED <<rcfile, tree, stash, upd, before, trouble, updates, port, setup, faults,
                   replaced, unsaved>>

(* rtw_setup_ros_team_ws_file: sed adds export where there is none. *)
AddExports ==
    /\ upd = "rc"
    /\ upd' = "idle"
    /\ CopyRc
    /\ ver' = IF exported THEN ver ELSE ver + 1
    /\ exported' = TRUE
    /\ UNCHANGED <<rc, extra, tree, stash, conflict, before, trouble, updates, port, setup>>

-----------------------------------------------------------------------------
(* rtw workspace port *)

(* The functions port sees: \w+ finds of any other name only what follows  *)
(* the last - or . in it, which has no prefix and is skipped.              *)
Seen == {i \in DOMAIN rc : rc[i].name \in Wordlike}

(* extract_workspaces_from_bash_script: a function that misses a variable  *)
(* is skipped, the last of one name wins.                                  *)
Extract(k) ==
    LET usable == {i \in Seen : KeyOf(rc[i]) = k /\ rc[i].kind = "whole"}
    IN IF usable = {} THEN 0 ELSE rc[CHOOSE i \in usable : \A j \in usable : i >= j].id

(* A value a Workspace refuses raises, as does a file without functions.   *)
(* Of a name that ends with - or . nothing is found either.                *)
RefusedValue == \E i \in Seen : rc[i].kind = "invalid"

PortRaises ==
    /\ pc = "idle" /\ (Seen = {} \/ RefusedValue)
    /\ pc' = "raised"
    /\ UNCHANGED <<rcfile, clone, script, todo, ported, config, asked, found, touched, setup,
                   faults, replaced, unsaved>>

PortReads ==
    /\ pc = "idle" /\ rc # <<>> /\ ~RefusedValue
    /\ script' = [k \in Key |-> Extract(k)]
    /\ found' = config
    /\ pc' = IF \A k \in Key : Extract(k) = 0 THEN "ended" ELSE "choose"
    /\ UNCHANGED <<rcfile, clone, todo, config, ported, asked, touched, setup, faults,
                   replaced, unsaved>>

Offered == {k \in Key : script[k] # 0}

(* One name on the command line, which is not checked, or names from the   *)
(* list, whose order does not matter here; the list can be left.           *)
Choose(keys) ==
    /\ pc = "choose"
    /\ todo' = keys /\ asked' = ToSet(keys)
    /\ pc' = IF keys = <<>> THEN "ended" ELSE "store"
    /\ UNCHANGED <<rcfile, clone, script, ported, config, found, touched, setup, faults,
                   replaced, unsaved>>

(* A name that is not in the file raises. *)
UnknownName ==
    /\ pc = "store" /\ script[Head(todo)] = 0
    /\ pc' = "raised"
    /\ UNCHANGED <<rcfile, clone, script, todo, ported, config, asked, found, touched, setup,
                   faults, replaced, unsaved>>

(* Faulty: the loop goes on after the last name. *)
NextNameWithoutEnd(stored) ==
    /\ ported' = ported \cup stored
    /\ todo' = Tail(todo)
    /\ pc' = "store"

(* The loop goes on after a name that cannot be stored. *)
NextName(stored) ==
    /\ ported' = ported \cup stored
    /\ todo' = Tail(todo)
    /\ pc' = IF Len(todo) = 1 THEN "ended" ELSE "store"

(* Faulty: a taken name is overwritten. *)
StoreAlways ==
    /\ pc = "store" /\ script[Head(todo)] # 0
    /\ config' = [config EXCEPT ![Head(todo)] = script[Head(todo)]]
    /\ NextName({Head(todo)})
    /\ UNCHANGED <<rcfile, clone, script, asked, found, touched, setup, faults, replaced, unsaved>>

(* update_workspaces_config, for one name after the other. A write that    *)
(* fails may have emptied workspaces.yaml; an error before it raises or is *)
(* reported.                                                               *)
Store ==
    /\ pc = "store" /\ script[Head(todo)] # 0
    /\ LET k == Head(todo) IN
       \/ config[k] = 0 /\ config' = [config EXCEPT ![k] = script[k]] /\ NextName({k})
          /\ UNCHANGED <<touched, faults>>
       \/ config[k] # 0 /\ NextName({}) /\ UNCHANGED <<config, touched, faults>>
       \/ Fault /\ NextName({}) /\ UNCHANGED <<config, touched>>
       \/ Fault /\ NextName({}) /\ config' = [j \in Key |-> 0] /\ touched' = Key
       \/ Fault /\ pc' = "raised" /\ UNCHANGED <<config, touched, todo, ported>>
    /\ UNCHANGED <<rcfile, clone, script, asked, found, setup, replaced, unsaved>>

(* Another rtw command adds or deletes an entry. *)
OtherCommand(k) ==
    /\ Fault
    /\ config' = [config EXCEPT ![k] = IF @ = 0 THEN MaxSetup + 1 ELSE 0]
    /\ touched' = IF pc = "idle" THEN touched ELSE touched \cup {k}
    /\ UNCHANGED <<rcfile, clone, pc, script, todo, ported, asked, found, setup, replaced, unsaved>>

(* The run is over; its memory is gone. *)
NoPort == [k \in Key |-> 0]

PortAgain ==
    /\ pc \in {"raised", "ended"}
    /\ pc' = "idle"
    /\ script' = NoPort /\ todo' = <<>> /\ ported' = {} /\ asked' = {} /\ found' = NoPort
    /\ touched' = {}
    /\ UNCHANGED <<rcfile, clone, config, setup, faults, replaced, unsaved>>

Next ==
    \/ \E n \in Name : SetUp(n)
    \/ \E i \in DOMAIN rc : EditByHand(i)
    \/ \E i \in DOMAIN bkp : DeleteBackup(i)
    \/ ExtraFile \/ ExtraFileGone
    \/ Stash \/ Pull \/ Pop \/ InterruptUpdate \/ Resolve \/ AddExports
    \/ PortRaises \/ PortReads \/ UnknownName \/ Store \/ PortAgain
    \/ \E keys \in (SUBSET Offered) \cup {{<<n, 0>>} : n \in Name} : Choose(SetToSeq(keys))
    \/ \E k \in Name \X {0} : OtherCommand(k)

Spec == Init /\ [][Next]_vars

-----------------------------------------------------------------------------
(* The type invariant. *)
TypeOK ==
    /\ rc \in Seq(Function) /\ exported \in BOOLEAN
    /\ ver \in 1..MaxVer + 1 /\ bkp \in [1..MaxVer -> 0..MaxVer + 1] /\ extra \in 0..MaxFaults
    /\ tree \in BOOLEAN /\ stash \in Seq({"mine", "older"}) /\ conflict \in BOOLEAN
    /\ trouble \subseteq {"stash", "pop", "interrupt"}
    /\ upd \in {"idle", "pull", "pop", "rc"}
    /\ pc \in {"idle", "choose", "store", "ended", "raised"} /\ (pc = "store" => todo # <<>>)
    /\ script \in [Key -> 0..MaxSetup] /\ todo \in Seq(Key) /\ ported \subseteq Key
    /\ config \in [Key -> 0..MaxSetup + 1]
    /\ latest \in [Name -> 0..MaxSetup] /\ shadowed \subseteq Name
    /\ replaced \subseteq 1..MaxVer + 1 /\ unsaved \in BOOLEAN

(* port finds every workspace under its own name as it was set up last,    *)
(* although the file holds the older functions too and the names are cut   *)
(* by position: the exceptions are a function changed by hand, a name with *)
(* other characters than letters, digits and _, whose function port does   *)
(* not find at all, and a name whose function the set-up of a shorter name *)
(* renamed to OLD_, which port offers only under the cut name.             *)
LastSetUpIsPorted ==
    \A n \in Name : latest[n] # 0 =>
        IF n \in Wordlike \ shadowed
          THEN \/ Extract(<<n, 0>>) = latest[n]
               \/ \E i \in DOMAIN rc : rc[i].id = latest[n] /\ rc[i].kind # "whole"
          ELSE /\ Extract(<<n, 0>>) = 0
               /\ \E i \in DOMAIN rc : rc[i].id = latest[n] /\ (n \in shadowed => rc[i].old > 0)

(* Whatever version of the file set-up or update-rtw replaced is in one of *)
(* the numbered backups, unless cp failed, or a backup or another file of  *)
(* that prefix went away: the next backup may then take the number of one  *)
(* that is left.                                                           *)
EveryVersionSaved == unsaved \/ \A v \in replaced : \E i \in DOMAIN bkp : bkp[i] = v

(* After update-rtw the local changes there were are in the clone again,   *)
(* or, if the pop was refused or the script interrupted, on top of the     *)
(* stash (a pop that conflicts leaves them in both). No other entry of the *)
(* stash is lost: one goes only into a clone that had no changes of its    *)
(* own, or could not stash them.                                           *)
LocalChangesReturn ==
    upd \in {"idle", "rc"} /\ updates > 0 =>
        /\ before.tree =>
              tree \/ (stash = <<"mine">> \o before.stash /\ trouble \cap {"pop", "interrupt"} # {})
        /\ \/ stash = before.stash
           \/ before.tree /\ stash = <<"mine">> \o before.stash
           \/ /\ before.stash # <<>> /\ stash = Tail(before.stash) /\ tree
              /\ ~before.tree \/ "stash" \in trouble

(* The report of port is true: a name it calls ported is stored as the     *)
(* file had it, and a name it does not was left as it was.                 *)
ReportIsTrue ==
    \A k \in asked \ touched :
        /\ k \in ported => found[k] = 0 /\ config[k] = script[k] /\ script[k] # 0
        /\ k \notin ported => config[k] = found[k]
=============================================================================

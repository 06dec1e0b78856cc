------------------------------- MODULE ShellUse -------------------------------
(***************************************************************************)
(* Terminals and `rtw workspace use'.  The verb writes a script for the    *)
(* shell it was started from, named by the shell's process id; the shell   *)
(* sources it before its next prompt (PROMPT_COMMAND) if the file is       *)
(* younger than the last one it sourced.  File times are whole seconds.    *)
(***************************************************************************)
EXTENDS Naturals

CONSTANTS
    Shell,    \* terminals
    Pid,      \* process ids a shell can get
    Ws,       \* workspaces of the configuration
    Key, Val, \* custom environment variables and their values
    Unset,    \* no value
    NoWs,     \* no workspace
    MaxTime   \* bound: the last second of the clock

ASSUME ShellAssumption ==
    Unset \notin Val /\ NoWs \notin Ws /\ MaxTime \in Nat \ {0}

VARIABLES
    config,   \* the env_vars of each workspace
    gone,     \* workspaces whose folder no longer exists
    clock,    \* the current second
    script,   \* /tmp/ros_team_workspace/workspace_<pid>.bash
    live,     \* terminals that are open
    pid,      \* the process id of each terminal ($$)
    cur,      \* RosTeamWS_WS_NAME in each terminal
    env,      \* the custom variables in each terminal
    cached,   \* ROS_WS_CACHE_SOURCED_TIME in each terminal
    due,      \* is a prompt about to be shown?
    loaded,   \* the workspace a running `use' has read from the configuration
    (* history variables *)
    asked,      \* what the last `use' of each terminal promised
    sourcedAt,  \* when each terminal last sourced a script
    late,       \* was that `use' in a later second, and nothing exported since?
    pending,    \* a script was written for the terminal since it last sourced
    reused,     \* process ids whose script an earlier terminal left behind
    trail       \* what exports and scripts have given to each terminal, in their order

store == <<config, gone>>
shellEnv == <<cur, env, cached>>
ghosts == <<asked, sourcedAt, late, pending, reused, trail>>
vars == <<store, clock, script, live, pid, shellEnv, due, loaded, ghosts>>

Env == [Key -> Val \cup {Unset}]
NoEnv == [k \in Key |-> Unset]
(* The variables e after exports of those that have a value in f. *)
Exported(e, f) == [k \in Key |-> IF f[k] = Unset THEN e[k] ELSE f[k]]
(* A missing script has the time 0; an empty one names no workspace. *)
Script == [ws : Ws \cup {NoWs}, vars : Env, mtime : 0..MaxTime]
NoScript == [ws |-> NoWs, vars |-> NoEnv, mtime |-> 0]
Promise == [ws : Ws \cup {NoWs}, vars : Env]
NoPromise == [ws |-> NoWs, vars |-> NoEnv]

Init ==
    /\ config \in [Ws -> Env]
    /\ gone = {}
    /\ clock = 1
    /\ script = [p \in Pid |-> NoScript]
    /\ live = {}
    /\ pid \in {f \in [Shell -> Pid] : \A s, t \in Shell : f[s] = f[t]}
    /\ cur = [s \in Shell |-> NoWs]
    /\ env = [s \in Shell |-> NoEnv]
    /\ cached = [s \in Shell |-> 0]
    /\ due = [s \in Shell |-> FALSE]
    /\ loaded = [s \in Shell |-> NoPromise]
    /\ asked = [s \in Shell |-> NoPromise]
    /\ sourcedAt = [s \in Shell |-> 0]
    /\ late = [s \in Shell |-> FALSE]
    /\ pending = [s \in Shell |-> FALSE]
    /\ reused = {}
    /\ trail = [s \in Shell |-> NoEnv]

-----------------------------------------------------------------------------
Tick ==
    /\ clock < MaxTime
    /\ clock' = clock + 1
    /\ UNCHANGED <<store, script, live, pid, shellEnv, due, loaded, ghosts>>

(* A terminal starts with a clean environment and setup.bash; its process  *)
(* id may have belonged to a terminal that was closed.                     *)
Open(s) ==
    /\ s \notin live
    /\ \E p \in Pid :
          /\ \A t \in live : pid[t] # p
          /\ pid' = [pid EXCEPT ![s] = p]
          /\ reused' = IF script[p] # NoScript THEN reused \cup {p} ELSE reused
          /\ pending' = [pending EXCEPT ![s] = script[p] # NoScript]
          /\ trail' = [trail EXCEPT ![s] = script[p].vars]
    /\ live' = live \cup {s}
    /\ cur' = [cur EXCEPT ![s] = NoWs]
    /\ env' = [env EXCEPT ![s] = NoEnv]
    /\ cached' = [cached EXCEPT ![s] = 0]
    /\ due' = [due EXCEPT ![s] = TRUE]
    /\ asked' = [asked EXCEPT ![s] = NoPromise]
    /\ sourcedAt' = [sourcedAt EXCEPT ![s] = 0]
    /\ late' = [late EXCEPT ![s] = FALSE]
    /\ UNCHANGED <<store, clock, script, loaded>>

AtPrompt(s) == s \in live /\ ~due[s] /\ loaded[s] = NoPromise
Using(s) == s \in live /\ loaded[s] # NoPromise
(* A command ends; bash will run PROMPT_COMMAND before the next prompt. *)
CommandEnds(s) == due' = [due EXCEPT ![s] = TRUE]

Close(s) ==
    /\ AtPrompt(s)
    /\ live' = live \ {s}
    /\ UNCHANGED <<store, clock, script, pid, shellEnv, due, loaded, ghosts>>

(* Faulty: one file for all terminals. *)
OneScriptForAll(s) == CHOOSE p \in Pid : TRUE
(* The file of the process the verb was started from: os.getppid(). *)
ScriptPid(s) == pid[s]

(* UseVerb reads the configuration, then may wait for the user's choice. *)
UseLoads(s) ==
    /\ AtPrompt(s)
    /\ \E w \in Ws : loaded' = [loaded EXCEPT ![s] = [ws |-> w, vars |-> config[w]]]
    /\ UNCHANGED <<store, clock, script, live, pid, shellEnv, due, ghosts>>

(* Cancelled, not found, or the script cannot be created or opened. *)
UseGivesUp(s) ==
    /\ Using(s)
    /\ loaded' = [loaded EXCEPT ![s] = NoPromise]
    /\ CommandEnds(s)
    /\ UNCHANGED <<store, clock, script, live, pid, shellEnv, ghosts>>

(* The script exports the variables that have a value. *)
Use(s) ==
    /\ Using(s)
    /\ script' = [script EXCEPT ![ScriptPid(s)] =
                     [ws |-> loaded[s].ws, vars |-> loaded[s].vars, mtime |-> clock]]
    /\ asked' = [asked EXCEPT ![s] = loaded[s]]
    /\ loaded' = [loaded EXCEPT ![s] = NoPromise]
    /\ CommandEnds(s)
    /\ late' = [late EXCEPT ![s] = clock > sourcedAt[s]]
    /\ trail' = [trail EXCEPT ![s] = IF clock > cached[s] THEN Exported(@, loaded[s].vars) ELSE @]
    /\ pending' = [pending EXCEPT ![s] = TRUE]
    /\ UNCHANGED <<store, clock, live, pid, shellEnv, sourcedAt, reused>>

(* The file is emptied, then the write fails: nothing was promised. *)
UseFails(s) ==
    /\ Using(s)
    /\ script' = [script EXCEPT ![ScriptPid(s)] = [NoScript EXCEPT !.mtime = clock]]
    /\ loaded' = [loaded EXCEPT ![s] = NoPromise]
    /\ CommandEnds(s)
    /\ pending' = [pending EXCEPT ![s] = TRUE]
    /\ UNCHANGED <<store, clock, live, pid, shellEnv, asked, sourcedAt, late, reused, trail>>

(* `rtw workspace edit' sets or removes a variable in workspaces.yaml; no  *)
(* script is written.                                                      *)
Edit(s) ==
    /\ AtPrompt(s)
    /\ \E w \in Ws, k \in Key, v \in Val \cup {Unset} :
          config' = [config EXCEPT ![w][k] = v]
    /\ CommandEnds(s)
    /\ UNCHANGED <<gone, clock, script, live, pid, shellEnv, loaded, ghosts>>

(* The user exports a variable by hand. *)
Export(s) ==
    /\ AtPrompt(s)
    /\ \E k \in Key, v \in Val :
          /\ env' = [env EXCEPT ![s][k] = v]
          /\ trail' = [trail EXCEPT ![s][k] = v]
    /\ CommandEnds(s)
    /\ late' = [late EXCEPT ![s] = FALSE]
    /\ UNCHANGED <<store, clock, script, live, pid, cur, cached, loaded,
                   asked, sourcedAt, pending, reused>>

(* The folder of a workspace disappears. *)
LoseFolder ==
    /\ \E w \in Ws \ gone : gone' = gone \cup {w}
    /\ UNCHANGED <<config, clock, script, live, pid, shellEnv, due, loaded, ghosts>>

(* Faulty: the script is sourced again if it is as old as the last one. *)
NotOlder(s) == script[pid[s]].mtime > 0 /\ script[pid[s]].mtime >= cached[s]
Younger(s) == script[pid[s]].mtime > cached[s]
(* Faulty: the time is rounded up. *)
RoundedUpTime(s) == script[pid[s]].mtime + 1
(* The time remembered when the script was sourced: stat -c %Y. *)
SourcedTime(s) == script[pid[s]].mtime
Prompting(s) == s \in live /\ due[s]

(* Faulty: a variable that already has a value keeps it. *)
SourceDefaults(s) ==
    LET text == script[pid[s]] IN
    /\ cur' = [cur EXCEPT ![s] = IF text.ws = NoWs THEN @ ELSE text.ws]
    /\ env' = [env EXCEPT ![s] =
                 [k \in Key |-> IF env[s][k] # Unset THEN env[s][k] ELSE text.vars[k]]]

(* The exports at the head of the script; an unset variable has none. *)
SourceExports(s) ==
    LET text == script[pid[s]] IN
    /\ cur' = [cur EXCEPT ![s] = IF text.ws = NoWs THEN @ ELSE text.ws]
    /\ env' = [env EXCEPT ![s] = Exported(@, text.vars)]

(* update_ros_ws_variables: nothing to source. *)
PromptSkips(s) ==
    /\ Prompting(s)
    /\ ~Younger(s)
    /\ due' = [due EXCEPT ![s] = FALSE]
    /\ UNCHANGED <<store, clock, script, live, pid, shellEnv, loaded, ghosts>>

(* The script is sourced to its end, and its time is remembered. *)
PromptSources(s) ==
    /\ Prompting(s)
    /\ Younger(s)
    /\ script[pid[s]].ws \notin gone
    /\ SourceExports(s)
    /\ cached' = [cached EXCEPT ![s] = SourcedTime(s)]
    /\ due' = [due EXCEPT ![s] = FALSE]
    /\ sourcedAt' = [sourcedAt EXCEPT ![s] = clock]
    /\ pending' = [pending EXCEPT ![s] = FALSE]
    /\ UNCHANGED <<store, clock, script, live, pid, loaded, asked, late, reused, trail>>

(* environment/setup.bash finds no folder: print_and_exit waits for a key  *)
(* and exits the terminal; Ctrl-C returns to a prompt that sources again.  *)
PromptStuck(s) ==
    /\ Prompting(s)
    /\ Younger(s)
    /\ script[pid[s]].ws \in gone
    /\ SourceExports(s)
    /\ live' \in {live, live \ {s}}
    /\ UNCHANGED <<store, clock, script, pid, cached, due, loaded, ghosts>>

Next ==
    \/ Tick
    \/ LoseFolder
    \/ \E s \in Shell :
          \/ Open(s) \/ Close(s) \/ Edit(s) \/ Export(s)
          \/ UseLoads(s) \/ Use(s) \/ UseGivesUp(s) \/ UseFails(s)
          \/ PromptSkips(s) \/ PromptSources(s) \/ PromptStuck(s)

Spec == Init /\ [][Next]_vars

-----------------------------------------------------------------------------
(* The type of every variable of terminals, scripts and workspaces. *)
TypeOK ==
    /\ config \in [Ws -> Env]
    /\ gone \subseteq Ws
    /\ clock \in 0..MaxTime
    /\ script \in [Pid -> Script]
    /\ live \subseteq Shell
    /\ pid \in [Shell -> Pid]
    /\ cur \in [Shell -> Ws \cup {NoWs}]
    /\ env \in [Shell -> Env]
    /\ cached \in [Shell -> 0..MaxTime]
    /\ due \in [Shell -> BOOLEAN]
    /\ loaded \in [Shell -> Promise]
    /\ asked \in [Shell -> Promise]
    /\ sourcedAt \in [Shell -> 0..MaxTime]
    /\ late \in [Shell -> BOOLEAN]
    /\ pending \in [Shell -> BOOLEAN]
    /\ reused \subseteq Pid
    /\ trail \in [Shell -> Env]

Kept(s) ==
    /\ cur[s] = asked[s].ws
    /\ \A k \in Key : asked[s].vars[k] # Unset => env[s][k] = asked[s].vars[k]

(* A `use' in a later second than the last sourcing of the same terminal   *)
(* is in force when the terminal shows its next prompt, and stays so until *)
(* the next `use' or a manual export.                                      *)
LaterUseTakesEffect == \A s \in Shell : AtPrompt(s) /\ late[s] => Kept(s)

(* A terminal shows a workspace only if it asked for one itself, or if it  *)
(* has the process id of a closed terminal whose script is still in /tmp.  *)
OwnWorkspaceOnly ==
    \A s \in live : cur[s] # NoWs => asked[s].ws # NoWs \/ pid[s] \in reused

(* At a prompt a terminal has exactly the variables it was given, each the *)
(* last value: by the script it found when it was opened, by its exports   *)
(* and by its own `use's, except those written within the second of the    *)
(* last script it sourced.  What a workspace does not set keeps the value  *)
(* of the workspace before or of an export; nothing comes from an edit, a  *)
(* failed `use' or another open terminal.                                  *)
VariablesAccountedFor == \A s \in Shell : AtPrompt(s) => env[s] = trail[s]

(* A prompt touches the user's variables only if a script was written for  *)
(* the terminal since the last sourcing: what the user exports survives.   *)
ExportsSurvivePrompts ==
    [][\A s \in Shell : Prompting(s) /\ ~pending[s] => env'[s] = env[s]]_vars
=============================================================================

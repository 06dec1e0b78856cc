# Verification of ROS Team Workspace

TLA+ models of the `rtw` command line and of its shell hook, the TLC runs that
check them on small instances, and the theorems about them that TLAPS proves
for all instances.  Paths are relative to the repository (`src/`).  Short file
names: *workspace_utils*, *utils*, *docker_utils*, *rocker_utils*, *cli*,
*plugin_system*, *entry_points* and `command/` are in `rtwcli/rtwcli/rtwcli/`;
the `*_verb` files in `rtwcli/rtw_cmds/rtw_cmds/workspace/`, *commands* and
*docker/verbs* in `rtwcli/rtw_cmds/rtw_cmds/`.

Contents: [the system](#the-system), [plan](#plan), [the models](#the-models-and-the-code),
[the runs](#the-runs), [the proofs](#the-proofs), [what the checks found](#what-the-checks-found),
[what is left out](#what-is-left-out).

## The system

ROS Team Workspace (RTW) manages ROS workspaces: folders of packages, docker
images that hold or mount them, and the environment of the terminals that work
with them.  A workspace is an entry of `~/.ros_team_workspace/workspaces.yaml`.
Every `rtw` command is a short process of its own.  There is no server and no
lock: the commands meet in that file, in the docker daemon, in the workspace
folders and in the scripts under `/tmp/ros_team_workspace`.

| Component | State it keeps | Operations | Interacts with | Correct if |
| --- | --- | --- | --- | --- |
| Configuration store (*workspace_utils*, *utils*) | `workspaces.yaml`, backups in `bkp/` | load, add (with backup), edit (with backup), remove (without), read | every verb; every verb loads the whole file and saves the whole file | no entry a user was told of disappears; a taken name is refused; readers answer by what is stored |
| `workspace create` (*create_verb*) | folders, the Dockerfile in them and the certificate beside them, intermediate and final image, containers, up to two entries | clone, vcs import, build, intermediate container, rosdep/colcon, commit, rocker, record, clean up | git, vcs, docker, rocker, the store, the user | an entry is usable; what a failed create leaves is named; other entries stay |
| `workspace delete` (*delete_verb*) | container, image, folder, entry of each chosen workspace | four removal steps per workspace | docker, disk, the store, the user | the entry goes last; a failed delete can be repeated; nothing is left that only the entry names |
| `workspace edit` (*edit_verb*) | an entry | read, prompts, backup, save | the store; terminals that use the workspace | as the store |
| `workspace use`, shell hook (*use_verb*, `setup.bash`, `scripts/environment/setup.bash`) | one script per shell process id, the time it was sourced, the variables of the shell | write script; source before the next prompt | `PROMPT_COMMAND`, `/tmp`, the store | a `use` takes effect in its own terminal and in no other |
| `workspace list` | none | one read | the store | |
| `workspace import` | entries, an image and a container | as create for an existing image | the store, rocker | (stops before it changes anything, see below) |
| `workspace port` (*port_verb*), `setup-ros-workspace`, `update-rtw` (`scripts/`) | `~/.ros_team_ws_rc` with a bash function per workspace, its numbered backups, the stash of the clone of RTW | add a function and rename the older ones; stash, pull, pop and rewrite; turn functions into entries | the store, git, the user's editor | the last set-up is what is ported; no version of the file is lost; local changes come back; the report is true |
| `docker enter/start/stop/restart` (*docker/verbs*), *docker_utils* | container state, the `.xauth` file in `/tmp` | query, repair the file, start, stop, exec | docker, X server, other terminals | a verb that ends well did its work; a container starts with its cookie, and can always be started again |
| Plugin system (*cli*, *plugin_system*, *entry_points*, `command/`, `verb/`, *commands*) | loaded extensions, parsers that are muted or not | parse per level, load, check version, instantiate, list, help, main | entry points of installed packages, argparse | what is named runs, whatever is wrong with other plugins; no help is lost; lists are complete; success means success |
| Rocker flags and extensions (*rocker_utils*, `rtw_rocker_extensions`) | none | command line text | `rocker` | |
| ros2 wrapper, distribution tables (`scripts/_RosTeamWs_Defines.bash`) | shell variables | lookup, argument checks | all scripts | every distribution has all its values |
| `setup_auto_sourcing` | `~/.bashrc`, a first `~/.ros_team_ws_rc` | questions, appended lines | | |
| Generators of packages, controllers, robots | files | copy, sed | templates | |
| Legacy workspace and docker scripts, OS set-up | files | apt, docker | | |

What is hard here: commands that overlap in time share a file without a lock;
several of them keep a loaded copy across prompts or across an hour of build;
every external call can fail, and Ctrl-C can hit between any two of them; a
delete is repeated after a half-done one; a file time decides whether a shell
sees a script; `/tmp` loses the files that containers mount; a plugin of another
package can fail; arguments are parsed before their parsers are known.  `PROJECT.json` lists each of these hazards at its line and the
properties that would catch it.

## Plan

In the order of importance; all of it is done.

1. `ConfigStore`, with the abstract map `Registry` that it implements when
   commands do not overlap (`ConfigStoreRefinement`), and the proofs of both.
2. `CreateVerb` and `CreateVerbProofs`: all paths through the longest command.
3. `DeleteVerb` and `DeleteVerbProofs`: removal in steps, repeated until done.
4. `ShellUse` and `ShellUseProofs`: terminals, scripts and file times.
5. `DockerVerbs` and `DockerVerbsProofs`: container state and the `.xauth` file,
   used by several terminals, the operating system and docker itself.
6. `LegacyRc` and `LegacyRcProofs`: the file of the older scripts, its backups,
   `update-rtw`, and the way of its workspaces into the store (`workspace port`).
7. `PluginSystem` and `PluginSystemProofs`: a run of `rtw` from its arguments to
   its exit code, with plugins that fail or do not fit, and `Dispatch`, the one
   answer such a run promises (`PluginDispatch`).

What a continuation could add: create and delete as clients of `ConfigStore`,
with the moment of the emptied file between their steps; `workspace import` once
it gets past its arguments.

## The models and the code

| Module | What it models | Abstracts from |
| --- | --- | --- |
| `ConfigStore` | `workspaces.yaml` and its readers and writers, one action per file operation | the fields of an entry (one value), YAML text |
| `Registry` | the atomic map the store promises | how it is stored |
| `ConfigStoreRefinement` | the refinement mapping from `ConfigStore` to `Registry` | |
| `CreateVerb` | one `rtw workspace create` | the commands run in the container, the text of files |
| `DeleteVerb` | repeated `rtw workspace delete` | the report at the end |
| `ShellUse` | terminals, `use`, `edit`, prompts | ROS exports and aliases |
| `DockerVerbs` | `rtw docker enter, start, stop, restart` in several terminals | what runs in the container |
| `LegacyRc` | `~/.ros_team_ws_rc`, `update-rtw`, `rtw workspace port` | the text of functions and aliases |
| `PluginSystem` | one run of `rtw` | argparse, the arguments of the verbs |
| `Dispatch` | what a run promises: to find out what it needs to know, and to give one answer | how often it parses, what is muted, the lists |
| `PluginDispatch` | the refinement mapping from `PluginSystem` to `Dispatch` | |
| `ConfigStoreProofs`, `StoreRefinementProofs`, `CreateVerbProofs`, `DeleteVerbProofs`, `ShellUseProofs`, `DockerVerbsProofs`, `PluginSystemProofs`, `LegacyRcProofs` | invariants and theorems | |
| `MCConfigStore`, `MCDeleteVerb`, `MCShellUse`, `MCLegacyRc`, `MCPluginSystem` | values of the constants for TLC | |

Definitions whose comment begins with "Faulty" are variants of a definition
with a plausible bug.  No action uses them; each run finds each of its
properties violated when the variant takes the place of the definition.

### ConfigStore

A process `p` is one run of `rtw`; `pc[p]` is where it stands:
`probe`, `create` are the two halves of `create_file_if_not_exists`
(utils 28-47), `load` is `load_workspaces_config_from_yaml_file`, `backup`,
`open`, `write` are `shutil.copy`, `open(path, "w")` (the file is empty from
here) and `yaml.dump` of `write_to_yaml_file` (utils 64-72), `next` is the loop
of `remove_workspaces`.  `cfg[p]` is the `WorkspacesConfig` object of the run.
`LoadForAdd` is `update_workspaces_config` with its refusal of taken names,
which create and import call; `LoadForEdit` the edit verb with its prompts;
`LoadForDelete`, `DeleteNext` the delete verb, which loads once and saves after
each workspace and takes no backup; `LoadForRead` every verb that only reads.
`Kill`, `FailEarly`, `FailLate` are a killed process and an `OSError` before
and after the file was emptied.  Two runs that have the file open at the same
time leave one text behind the other: `Garbled`, which loads as the empty
configuration or raises (`LoadRaises`).  A text below the 8 KiB of Python's
write buffer reaches the file in one write, hence one action `Save`.

`promised` is what the users were told: an accepted command changes it.
`base`, `torn`, `conflict`, `inWindow` are history variables for the properties:
what a run has loaded, runs stopped with the file open, changes saved over, and
whether a run has loaded or emptied the file while another was filling it.

### CreateVerb

`pc` is the step of `CreateVerb.main` (create_verb 1231-1420), of the arguments'
`__post_init__` (304-359) and of what they call.  A folder is the set of kinds
of things in it; `before` remembers it, so that a run can compare.  `image` and
`ctr` are what the final tag and container name refer to, `inter` counts
running intermediate containers, `stuck` records that docker has refused a stop
or a removal, whose results create never looks at.  Every action has its
failures as disjuncts: what they clean up (`delete_workspace_resources`,
`docker_stop`) and how they end (`raised`, `exited`, `returned`).

The Dockerfile goes into `{ws}/docker`, over one of the user (`WithDockerfile`);
the certificate goes into the build context `{ws}/docker/../..`, the folder the
workspace lies in, so no removal of the workspace takes it along.  `main` catches
a `RuntimeError` of the build (1301) and nothing else.  `PrepareFails` and
`BuildFails` are the failures that are caught and end in
`delete_workspace_resources`; the second disjunct of `PrepareBuild` and
`BuildRaises` are an `OSError` of the copy (864), of starting docker, or of
`os.remove` (876, 885), which skips the clean-up and may leave the certificate
(`denied`).  `MakeFolder`, `UpstreamRepos` and the removals have the cases in
which a folder cannot be made, an import stops half-way or a removal does.

An update of `workspaces.yaml` is three steps (`upd`): `Load` with the refusal
of a taken name, `BackUp`, and `Save` of everything that was loaded with the new
entry.  Each may break off (`BreakOff`), the save with the file already emptied.
`OtherSaves` is the save of another command between any two of these steps: it
adds entries, also under our names, to what it loaded before our last update or
before both, and so may write an older file over ours (`dropped`).  `stored` is
the step in which it stored an entry.  The instants in which its own write leaves
the file empty are the matter of `ConfigStore`.

### DeleteVerb

One action per removal step and per outcome; `EndRun` is the handling of a
failed step, an exception and an interrupt, which all end the loop.  A box is a
docker image with the container made of it; create gives both one tag, and one
box to a workspace and its upstream.  `misread` is an `APIError` of a query that
`docker_container_exists` and `docker_image_exists` turn into "does not exist".
A docker entry without tag or container name (delete_verb 147-149, 183-185)
does not occur: `Workspace.__post_init__` gives both to it (workspace_utils
67-70).  The local folder goes in three steps, with time between them: `ListFolder`
shows what is in it (`shown`), `Select` is the user's answer (`chosen`), `Erase`
and `EraseFails` remove it, the whole folder if all was chosen.  `OthersStart`,
`OthersAdd` are another terminal that starts the container or writes to a folder
between two steps; `late` remembers what came after the list.

### ShellUse

A `use` is two steps: it loads the configuration (and may wait for the user),
then it writes the script named by the parent's process id.  `CommandEnds`
makes a prompt due, and `PromptSkips`, `PromptSources`, `PromptStuck` are
`update_ros_ws_variables` (setup.bash 27-40): sourced only when the file time
in whole seconds is greater than the one remembered.  `PromptStuck` is a
workspace whose folder is gone: `environment/setup.bash` exits the terminal, or
Ctrl-C returns to a prompt that sources again.  A terminal that is opened may
get the process id of one that was closed, whose script is still in `/tmp`.
The history variable `trail` applies, in their order, what the terminal was given:
the script it was opened with, its exports and its own scripts.

### DockerVerbs

`pc[t]` is the step of the verb typed in terminal `t`; `box[t]` is the container
of the workspace in use there, `NoBox` when `check_workspace` (docker/verbs
27-40) refuses.  `StopCheck`, `Stop`, `StartCheck`, `Start`, `Exec` are
`container_stop_routine`, `container_start_routine` and what they call;
`restart` goes through both, and does not start what it could not stop.
`is_docker_container_running` (docker_utils 163-174) turns an `APIError` into
"not running" (`SeesDown`, remembered in `misread`) and lets any other failure
of the docker library pass as an exception (`QueryRaises`).

`xauth[b]` is the path the container mounts its cookie from, as
`fix_missing_xauth_file` (192-266) finds it: `missing`, a directory that `rmdir`
removes (`dir`) or does not (`held`), an `empty` file, a `filled` one.  `Look`,
`Rmdir`, `Create`, `Open`, `Fill` are its steps; between `Look` and `Open` the
path is looked at a second time (utils 34) and not again.  `Fill` is a shell
pipeline with the exit code of its last command, so that an X server that does
not answer is a success that fills nothing; a failure removes the file
(`Remove`), which raises when it is not there any more.

External: docker makes a directory of a mount source that is missing and then
does not start (`Unmountable`); a restart of the computer empties `/tmp`
(`Reboot`); an editor starts containers, and containers end or are removed
(`StartOutside`, `StopOutside`); the user does what the message at 249 asks for
(`RemoveByHand`).  History variables remember a misread query (`misread`), a
filling that was cut short (`cut`), a verb that met another one on its
container (`met`) and what a verb saw or did (`saw`).

### LegacyRc

`rc` is the sequence of the functions in the file.  A function has the name of
its workspace, the number of `OLD_` that were put before the name, a version
(`id`) and a kind: `whole`, `partial` (a variable is missing: port skips it) or
`invalid` (a value that `Workspace` refuses: port raises for the whole file).
`SetUp` is `setup_ros_team_ws_file` (setup-ros-workspace 200-267): a copy under
the next number, `sed` without word boundaries over the whole file, the new
function at the end.  `Covers[n]` are the names that begin with `n`, whose
functions that `sed` renames too.  `extra` counts other files whose names begin
with that of the file, which the numbering of the backups (221) counts as well.

`Stash`, `Pull`, `Pop`, `AddExports` are update-rtw, which has no `set -e` and
tests nothing in between.  A stash may fail or be refused; a `pull --rebase` over
local commits may stop in a conflict; a pop may be refused (always in a
conflict), fail, or restore the changes with conflicts, and only the last leaves
them in the clone and in the stash.  `InterruptUpdate` is Ctrl-C before the pop,
`Resolve` the user who settles a conflict.  `before` and `trouble` remember what
the clone was like and which of these steps failed.

port reads functions with a regular expression that knows letters, digits and
`_` only (`\w+`, port_verb 64).  Of `RosTeamWS_setup_foo-dash` it finds `dash`,
which has no prefix and is skipped (73-78); `Wordlike` are the names it reads and
`Seen` their functions.  From the name it has read it cuts the length of
`RosTeamWS_setup_`, whatever the name begins with (79).
A renamed function `OLD_RosTeamWS_setup_foo` thus becomes a workspace of another
name, `tup_foo`; a key is a name with its number of `OLD_`, which is one to one
with these names.  `Extract` keeps the last function of a key, `Store` is
`update_workspaces_config` for one key, with its refusals, its failures and the
exceptions that end the loop.  The store itself is one step here; how its steps
interleave with those of other commands is the matter of `ConfigStore`.

### PluginSystem

`level` is the level whose parsers are made: 1 the commands of `rtw`, 2 the verbs
of a command, set up by `BaseCommand.add_arguments` (commands 25-28).  Parser `l`
is the one that reads the name at level `l`, parser 3 the one of a verb.  `Mute`
and `Parse` are `add_subparsers_on_demand` (`command/__init__.py` 115-154):
`parse_known_args` runs while the parsers of this level and the next neither
print help nor exit; at level 2 the root parser is not among them any more, so a
`-h` before the command prints its help then, without a list.  `Load` is
`load_entry_points` and `_instantiate_extension` for one name: it works, raises,
or asks for a version that `satisfies_version` refuses.  `List` and `Select` are
the two branches at 158 and 178, with the `max()` of no names (163, when all that
has loaded is hidden) and the `KeyError` of a selected extension that did not load (183) as tracebacks.
`Final` is the last `parse_args`, `Main` the end of `cli.main` with its exit
codes.  The command line is a name per level (none, unknown or registered), the
place of a `-h` and whether the remaining arguments are right; whether an
extension works is chosen when it is loaded.

`Dispatch` keeps of this what a user can rely on: `Try` finds out whether an
extension that is needed works, and one of `Help`, `Run`, `RefuseArguments` and
`RefuseExtension` answers, each under the conditions that justify it.
`PluginDispatch` maps an extension to what has become known of it, and `shown`,
`ran` and `exit` to the answer.

## The runs

| Run | Module, bounds | Checks | Distinct states |
| --- | --- | --- | --- |
| `store_serial` | `MCConfigStore`, 3 runs one after another, 2 names, 2 values, kills and failed writes | `TypeOK`, `OnlyDeletesLose` | 906 000 |
| `store_concurrent` | 2 overlapping runs, same faults | `NoLossWithoutConflict`, `BystandersKept` | 43 800 |
| `store_refines` | 2 runs, serial, no faults | `ImplementsRegistry` (all of `Registry!Spec`) | 23 000 |
| `create_run` | `CreateVerb`, all flags, all initial folders, interrupts, other commands | `TypeOK`, `EntryHasHome`, `BothOrNeither`, `NoContainerLeft`, `CertificateRemoved`, `DeclinedLeavesNothing`, `OwnFilesKept`, `TheirsKept` | 7 559 000 |
| `create_cancel`, `create_decline` | the same without interrupts and others | a statement of the code that does not hold, each | |
| `delete_runs` | `MCDeleteVerb`, 2 workspaces, 3 kinds of entry, 2 boxes, 2 items, 2 faults, fairness | `TypeOK`, `FailedStaysListed`, `NothingLeftBehind`, `OnlyChosenGoes`, `DeletedInTheEnd` | 379 000 |
| `shell_one` | `MCShellUse`, 1 terminal, 2 workspaces, 2 values, 3 seconds | `TypeOK`, `LaterUseTakesEffect`, `ExportsSurvivePrompts`, `VariablesAccountedFor` | 127 000 |
| `shell_two` | 2 terminals, 2 process ids, 1 workspace, 2 seconds | `LaterUseTakesEffect`, `OwnWorkspaceOnly` | 2 630 000 |
| `docker_verbs` | `DockerVerbs`, 2 terminals, 1 container, 2 faults, fairness | `TypeOK`, `DoneMeansDone`, `StartsWithCookie`, `KeepsCookie`, `ComesBack` | 726 000 |
| `legacy_rc` | `MCLegacyRc`, names foo, foo_bar and foo-dash, 3 set-ups and 2 updates, at most 3 together, 1 fault | `TypeOK`, `LastSetUpIsPorted`, `EveryVersionSaved`, `LocalChangesReturn`, `ReportIsTrue` | 1 399 000 |
| `plugins` | `MCPluginSystem`, 3 commands (one an alias, one hidden), 2 verbs, 4 lower bounds of versions | `TypeOK`, `SelectedRuns`, `HelpIsShown`, `ListIsComplete`, `CompatibleOnly`, `AnswersAsPromised` (all of `Dispatch!Spec`) | 43 600 |

What they show:

- *Store, serial.*  A command that is killed or whose write fails cannot cost an
  entry: it is in the file or in a backup.  The exception is delete, which saves
  without the backup that add and edit take.  Three runs are enough for a run
  that leaves an empty or garbled file, one that overwrites it, and one that
  still finds the backup.
- *Store, overlapping.*  File and promises differ only while a run is between
  emptying and filling the file, after a run was stopped there, or after a
  `conflict`: a run saved (or created the file) over changes it had not loaded.
  This is the exact price of having no lock.  A conflict needs two runs.  An
  entry that no run was asked to change (`BystandersKept`) survives even a
  conflict: what can cost it is only the moment in which the file is empty, when
  a run is stopped in it or another one loads or empties the file in it.
- *Store, refinement.*  Without overlap and faults the store is an atomic map:
  refusals are right, and a command changes only its names.
- *Create.*  What an ended create leaves: see the theorems below.  What the user
  had in the folders before goes with a whole folder only: after a failed image
  build, after "no", with the local files of a standalone workspace, or with an
  upstream folder with nothing in its `src` (`OwnFilesKept`); only a Dockerfile
  in `{ws}/docker` is overwritten by every build of an image.  The certificate
  leaves the build context whatever docker does; it stays after an interrupt, or
  when the system refuses to copy it, to start docker or to remove it
  (`CertificateRemoved`).  An entry that another command stores while create
  works on the file is lost exactly when it came after the load or when the save
  broke off, and the backup of that update has it if it came before the backup
  (`TheirsKept`); entries stored earlier stay.  The bound is
  none but the number of intermediate containers, which the code itself limits
  to two.  Interrupts hit between any two steps, and in
  the middle of a removal.
- *Delete.*  An entry leaves the file after its container, image and folder; a
  workspace whose removal failed stays listed; and a user who repeats the
  command ends with every workspace removed.  Of a folder only what the user has
  chosen from its list goes; who chose everything also loses what was written
  there while the question was open.  Two faults allow a failure in the
  repetition of a failed run; two workspaces allow a shared box.  The kinds of
  entry are: without docker, docker with a local folder, docker alone; a
  stand-alone entry without docker has one step less than the last.
- *Shell.*  A `use` in a later second than the last sourcing is in force at the
  next prompt and stays so; a terminal shows no other terminal's workspace
  unless it inherited a process id; a prompt never overwrites what the user
  exported unless a script was written since; and at a prompt every variable has
  the last value the terminal was given, so what one workspace does not set is
  left from the one before (`VariablesAccountedFor`).  Two seconds are enough for an
  older, an equal and a newer file; three for a `use` after such a pair.
- *Docker verbs.*  A verb that ends with success did its work, unless a query
  was misread for an `APIError`.  A verb that meets no other on its container
  starts it with a filled cookie file, or with one that an earlier run left
  empty, and never takes a cookie away.  A container that does not start,
  because docker has put a directory in the place of its cookie file, starts
  again for a user who goes on asking; only a directory that is not empty needs
  the user's hand.  Two verbs on one container are enough for every overlap of a
  look and a change; two faults for a fill that fails and a misread query.
- *Legacy file.*  port finds each workspace as it was set up last, under its own
  name, although the file keeps all older functions: the exceptions are a
  function changed by hand, one that the set-up of a shorter name renamed, and a
  name with a character such as `-`, of which port finds nothing.
  Every version of the file is in a backup unless `cp` failed, or a backup or
  another file of the same prefix went away.  After update-rtw the local changes
  are in the clone again, or on top of the stash if the pop was refused or the
  script interrupted; a clone without local changes, or one that could not be
  stashed, gets an older entry of the stash.  What port reports is what it did.
  Three set-ups give a function two `OLD_`, and put a set-up of either name
  between two of the other; with two updates the second meets the conflict or the
  stash that the first has left.  One fault is enough for each step that may fail;
  the proofs are for any number.
- *Plugins.*  What the user names runs if it works itself, whatever is wrong
  with its siblings, which are not even loaded; a `-h` anywhere is answered; a
  list names every extension that works and is not hidden; success is the
  success of what was named, or help; no extension runs that asked for another
  version.  A run is one of `Dispatch`: it tries an extension once and only if it
  needs it, and its answer is given once and has its reason in what was named.  Two levels are all there are; of siblings one is enough to fail
  beside the one that is named.  The four bounds are below, equal to, and above
  the version of the plugin system in its minor and major part.

Symmetry: runs, names and values of `ConfigStore`, and workspaces and values, or
terminals and process ids, of `ShellUse` are interchangeable in `Init`, `Next`
and the properties checked with them.  `store_refines`, and all runs of the
other modules, use none.  Deadlock is checked in all runs; a step such as `Done`
or `Ended` is the intended end.

Fairness is assumed in two runs, for the rest is safety.  `DeleteVerb!LiveSpec`:
the process executes its steps (weak), the user starts `delete` for a workspace
again and again and ticks everything when asked (strong: the command is
repeatedly, not always possible).  `DockerVerbs!LiveSpec`: a verb that has begun
goes on (weak), and the user types `start` again and again (strong, as another
terminal may make the terminal wait).  Nothing is assumed of faults, of the
other terminals, of docker and of the computer; the number of faults is bounded,
since no program removes a workspace or starts a container when docker never
works.

## The proofs

| Theorem | Property | For |
| --- | --- | --- |
| `ConfigStoreProofs!TypeCorrect` | `TypeOK` | all runs, names, values; overlaps and faults |
| `ConfigStoreProofs!LossNeedsConflict` | `NoLossWithoutConflict` | the same |
| `ConfigStoreProofs!BystandersUnharmed` | `BystandersKept` | the same |
| `ConfigStoreProofs!SerialRunsKeepEntries` | `OnlyDeletesLose` | any number of runs that do not overlap, with faults |
| `StoreRefinementProofs!StoreImplementsRegistry` | `ImplementsRegistry` | any number of runs that neither overlap nor fail |
| `CreateVerbProofs!CreateTypeCorrect` | `TypeOK` | with or without interrupts and other commands |
| `CreateVerbProofs!ContainersStopped` | `NoContainerLeft` | the same |
| `CreateVerbProofs!EntriesTogether` | `BothOrNeither` | the same |
| `CreateVerbProofs!EntriesUsable` | `EntryHasHome` | the same |
| `CreateVerbProofs!CertificateLeaves` | `CertificateRemoved` | the same |
| `CreateVerbProofs!DeclinedCleans` | `DeclinedLeavesNothing` | the same |
| `CreateVerbProofs!FilesOfTheUserKept` | `OwnFilesKept` | the same |
| `CreateVerbProofs!TheirsLostOnlyWhenOvertaken` | `TheirsKept` | the same |
| `DeleteVerbProofs!TypeCorrect` | `TypeOK` | any finite set of workspaces, any boxes and items, any number of faults |
| `DeleteVerbProofs!FailedRemovalsListed` | `FailedStaysListed` | the same |
| `DeleteVerbProofs!EntriesLeaveLast` | `NothingLeftBehind` | the same |
| `DeleteVerbProofs!ChosenItemsGo` | `OnlyChosenGoes` | the same |
| `ShellUseProofs!TypeCorrect` | `TypeOK` | any terminals, process ids, workspaces, values, seconds |
| `ShellUseProofs!LaterUseWorks` | `LaterUseTakesEffect` | the same |
| `ShellUseProofs!WorkspacesAreOwn` | `OwnWorkspaceOnly` | the same |
| `ShellUseProofs!PromptsKeepExports` | `ExportsSurvivePrompts` | the same |
| `ShellUseProofs!VariablesTraced` | `VariablesAccountedFor` | the same |
| `DockerVerbsProofs!TypeCorrect` | `TypeOK` | any terminals, containers, number of faults |
| `DockerVerbsProofs!DoneIsDone` | `DoneMeansDone` | the same |
| `DockerVerbsProofs!CookieAtStart` | `StartsWithCookie` | the same |
| `DockerVerbsProofs!CookieKept` | `KeepsCookie` | the same |
| `PluginSystemProofs!TypeCorrect` | `TypeOK` | any commands, verbs, aliases, hidden ones, versions |
| `PluginSystemProofs!NamedExtensionRuns` | `SelectedRuns` | the same |
| `PluginSystemProofs!SiblingsAreNotLoaded` | `OnlySelectedLoaded` | the same |
| `PluginSystemProofs!HelpIsNotLost` | `HelpIsShown` | the same |
| `PluginSystemProofs!ListsAreComplete` | `ListIsComplete` | the same |
| `PluginSystemProofs!SuccessIsReal` | `SuccessMeansDone` | the same |
| `PluginSystemProofs!OnlyCompatible` | `CompatibleOnly` | the same |
| `PluginSystemProofs!RunsAnswerAsPromised` | `AnswersAsPromised` | the same |
| `LegacyRcProofs!TypeCorrect` | `TypeOK` | any finite set of names, any of them prefixes of others and any of them readable for port, any number of set-ups, updates, faults |
| `LegacyRcProofs!LastSetUpFound` | `LastSetUpIsPorted` | the same |
| `LegacyRcProofs!VersionsAreSaved` | `EveryVersionSaved` | the same |
| `LegacyRcProofs!ChangesComeBack` | `LocalChangesReturn` | the same |
| `LegacyRcProofs!ReportHolds` | `ReportIsTrue` | the same |

Assumptions: those the modules name.  `NoEntry`, `NoBox`, `NoWs`, `NoName` are no
values; the verbs are the four modelled; a workspace with docker has a box; the
set of workspace names is finite.

*Store.*  `NoLossWithoutConflict` is not inductive: a save must be known to
write what the run loaded, changed at its own names (`CopiesAgree`), and the
file to be empty in the window of a write (`StoreAgrees`).  For runs that do not
overlap, `SerialInv` says that one run is active (`OneActive`), that what it
believes of the file is so (`FileAlone`), and that each promised entry is in the
file, in a backup or in the hands of a delete (`Findable`), where a run about
to empty the file already has the backup (`Covered`).

For overlapping runs `BystandersKept` needs that a run changes only its own names
(`OwnNames`) and, for an entry no run is asked to change, that it is in the file
and in every copy that will be saved, except while the one run that has the file
open fills it (`Undisturbed`).  Both the set of runs stopped there and `inWindow`
only grow, so an entry that is undisturbed in a state was so before
(`WasBystander`): this makes the implication inductive.

*Store, refinement.*  `AtomicInv` adds what the run at work holds at each step
(`RunAt`): that the map is what it loaded until its save, that an add has seen
no entry and an edit one, and that a delete has removed what it no longer has to
visit.  `MapOfStep` then says where the map is before and after a step, and one
lemma for the start, the loads, the loop of delete and the save gives the step
of `Registry` each one is.

*Create.*  `CreateInv` fixes for each step how many intermediate containers run
(`ContainerAt`: one from `commands` on, one more only after a stop that docker
did not carry out), where entries can be recorded (`EntriesAt`), what an update
of the file has loaded and backed up at each of its steps (`LoadedAt`: every entry
of another command that it has not loaded was stored after the load), that folder and
committed image last until the end (`HomeAt`), that only the last step has an
outcome (`OutcomeAtEnd`), what is left after "no" (`DeclinedAt`), and which of the user's files are all there at each step
(`FilesAt`): the steps but four only add to the folders (`FoldersGrow`), a removal
ends the command, and before the upstream folder is looked at it is untouched.

*Delete.*  `InStep`: while a run goes on, its configuration in memory is the
file, and the workspace it works on is in it.  This is what makes "the first
failure ends the run" necessary: after a failed save the two differ.
`GoneAt`: what is gone by each step, and stays gone whatever others do.
`ListInv`: until the folder is removed, what is in it was listed or came later.

*Shell.*  `Apart`: open terminals differ in their process ids.  `Times`: no file
and no remembered time is younger than the clock, and a terminal remembers no
later time than that of its last sourcing, so that a script of a later second is
always seen.  `Origin`: whose scripts can lie under a process id.
`PromiseKept`: what was promised is in force, or in the script that the prompt
that is due will source.  `Announced`: a script younger than the last sourced
one was written since.  `Traced`: what a terminal was given is in its environment,
or in the script that its next prompt will source.

*Docker verbs.*  `StepOK`: what a verb has seen and done by each step.
`AloneOK`: a verb that met no other has its container for itself, and the file
it is about to make holds no cookie.  `EmptyOK`: an empty file is being filled,
or a filling was cut short.

*Plugins.*  `LiveOK`: what is alive was tried, works, and is not older than it
may be.  `Course` and `End`: nothing runs or is shown before the end, and each
end has its reason.  `Lists`: a list is what is alive at its level.
For the refinement `Reached` adds that the second level has a command that works,
and that a list is made when all of its level were tried; then each step is the
step of `Dispatch` it looks like, or is not seen (`StepSimulates`).  `SelectedRuns`
and `HelpIsShown` follow from `Dispatch` too, and so do two theorems that no run
checks on its own: `SiblingsAreNotLoaded` and `SuccessIsReal`.

*Legacy file.*  `RcOK`: a function carries one `OLD_` per set-up that renamed it,
so no two functions have one key (`ExtractIs`), and the last of a name has no
`OLD_` unless the set-up of a shorter name renamed it.  `SavedOK`: no backup has
a number above the count of the backups and the other files, so the next number
is free until one of them goes away (`Numbered`).  `CloneOK`: what the stash and
the clone hold at each step of update-rtw, by what failed before it.  `PortOK`: port compares with what it read, and no step but its own
store changes a key it was asked for, except those counted as touched.

## What the checks found

Two statements of the repository do not hold of the code; `PROJECT.json` quotes
them under `findings`.

- `create_cancel`: Ctrl-C at "keep the workspace files?" is logged as "will be
  kept but not added to config" (create_verb 1222), and the workspace is added.
- `create_decline`: "no" promises to delete "all created files" (create_verb
  1216) and deletes the whole folder, with files that were there before.

Seen while modelling, without a run of their own:

- `--add-existing-workspace` for a folder that does not exist creates and
  records it; the test for it (create_verb 1266) comes after the arguments have
  created the folder.
- A second `use` within the second of the last sourcing is never sourced, at no
  later prompt (setup.bash 34).
- The checkbox of delete opens with nothing ticked although the comment above it
  says "everything per default" (delete_verb 219); delete saves without a backup
  (delete_verb 270).
- A variable removed with `edit` keeps its value in terminals that have sourced
  it (workspace_utils 221 only exports).
- A docker query that fails counts as "does not exist" or "not running"
  (docker_utils 140, 169), also in delete.
- An empty `.xauth` file, left by a run that was stopped or had no display, is
  taken for a filled one and never filled (docker_utils 209).
- `import` stops at an attribute its arguments do not have (import_verb 151).
- port offers the functions that setup-ros-workspace has renamed under names
  like `tup_foo` (port_verb 79); the set-up of a name renames the functions of
  longer names too (setup-ros-workspace 226); one value that a `Workspace`
  refuses makes port raise for the whole file.
- port says "No workspaces found in script" (port_verb 207) of a file whose
  workspaces all have a `-` or `.` in their names: its pattern (64) stops at that
  character.  setup-ros-workspace forbids `-` for docker workspaces only (62).
- update-rtw pops an older stash when there was nothing to stash, or the stash
  failed (update-rtw 31); after a pull that stops in a conflict the pop is refused
  and the local changes stay in the stash.
- After a failed copy of the CA certificate (create_verb 864), or a failed
  removal (876, 885), create ends in an `OSError` that no clean-up catches, and
  the certificate may stay in the parent folder of the workspace.
- update_workspaces_config drops what another command stores between its load
  (workspace_utils 142) and its save (154).
- A `-h` before the command, at the second level, prints a help without a list;
  a list of which only hidden extensions have loaded ends in the traceback of a
  `max()` of nothing (`command/__init__.py` 163; with none at all the test at 161
  prints a help without a list), a named extension that cannot be loaded in a
  `KeyError` (183).

## What is left out

- `workspace import`: it stops at line 151, before it changes anything; what
  follows is the last steps of create.
- `setup_auto_sourcing`: questions and lines appended to `~/.bashrc`; the sed of
  `update-rtw` over the same file is in `LegacyRc`.
- The distribution tables: constants per distribution, without a state.
- The generators and the OS set-up scripts: straight-line copies, `sed` and
  `apt` without state of their own.  The other legacy scripts: replaced by `rtw`.
- The completion of arguments, and the commands that only print
  (`workspace list`, `extensions`): for the store, one read.
- In the modelled parts: wording, logging, YAML and Dockerfile text, the content
  of docker images, entries larger than Python's write buffer (which are written
  in several pieces), clocks that run backwards.
- Out of the prover's reach, and only model-checked: liveness under fairness
  (`DeletedInTheEnd`, `ComesBack`).

----------------------------- MODULE PluginSystem -----------------------------
(***************************************************************************)
(* One run of the `rtw' command line, from its arguments to the exit of    *)
(* the process. Commands, and the verbs of a command, are extensions that  *)
(* any installed package may register as entry points; one of them may     *)
(* fail to load, or refuse the version of the plugin system. The arguments *)
(* are parsed once per level with parse_known_args, to find out which      *)
(* extensions are needed, and in the end once more.                        *)
(*                                                                         *)
(* importlib.metadata and argparse are external: a parser is its level,    *)
(* and knows how to print its help and how to exit.                        *)
(***************************************************************************)
EXTENDS Naturals

CONSTANTS
    Command,   \* names registered in the group rtwcli.command
    Alias,     \* commands that have arguments of their own and no verbs
    Verb,      \* names registered in the group of verbs of a command
    Hidden,    \* hide_extensions
    NoName,    \* no argument at this place
    Unknown,   \* an argument that names no extension
    Point,     \* PLUGIN_SYSTEM_VERSION
    Versions   \* the lower bounds of the caret ranges extensions ask for

Version == [major : Nat, minor : Nat, patch : Nat]

ASSUME PluginAssumption ==
    /\ Alias \subseteq Command
    /\ NoName \notin Command \cup Verb /\ Unknown \notin Command \cup Verb \cup {NoName}
    /\ Point \in Version /\ Versions \subseteq Version

Level == {1, 2}
Extension == ({1} \X Command) \cup ({2} \X Verb)

Arguments ==
    [name : [Level -> Command \cup Verb \cup {NoName, Unknown}], help : 0..3, good : BOOLEAN]

VARIABLES
    args,     \* the command line: the names, after which name -h is, the rest
    state,    \* what became known of each extension when it was loaded
    asks,     \* the version each extension asks for
    main,     \* how the main of the extension would end
    level,    \* the level whose parsers are set up
    pc,       \* the next step
    todo,     \* names still to load at this level
    live,     \* extensions with an instance
    muted,    \* parsers whose print_help and exit are replaced
    listed,   \* the names in the list of commands of each parser
    shown,    \* the parsers whose help was printed
    ran,      \* the extensions whose main ran
    exit      \* how the process ended

input == <<args, main>>
plugins == <<state, asks, live>>
progress == <<level, todo, listed>>
vars == <<input, plugins, progress, pc, muted, shown, ran, exit>>

Group(l) == IF l = 1 THEN Command ELSE Verb
Name(l) == args.name[l]
Selected(l) == Name(l) # NoName

(* A command line: a verb needs a command, and -h stands behind a name. *)
CommandLine(a) ==
    /\ \A l \in Level : a.name[l] \in Group(l) \cup {NoName, Unknown}
    /\ a.name[1] \notin Command \ Alias => a.name[2] = NoName
    /\ a.help = 2 => a.name[1] # NoName
    /\ a.help = 3 => a.name[2] # NoName

Init ==
    /\ args \in {a \in Arguments : CommandLine(a)}
    /\ state = [x \in Extension |-> "untried"]
    /\ asks = [x \in Extension |-> Point]
    /\ main \in {"ok", "KeyboardInterrupt", "RuntimeError", "exception"}
    /\ level = 1 /\ pc = "mute" /\ todo = {}
    /\ live = {} /\ muted = {}
    /\ listed = [l \in Level |-> {}]
    /\ shown = {} /\ ran = {} /\ exit = "none"

-----------------------------------------------------------------------------
Less(v, w) ==
    \/ v.major < w.major
    \/ v.major = w.major /\ v.minor < w.minor
    \/ v.major = w.major /\ v.minor = w.minor /\ v.patch < w.patch

(* Faulty: the first number is counted up even if it is 0. *)
NextMajor(v) == [major |-> v.major + 1, minor |-> 0, patch |-> 0]

(* get_upper_bound_caret_version *)
UpperBound(v) ==
    IF v.major > 0 THEN [major |-> v.major + 1, minor |-> 0, patch |-> 0]
                   ELSE [major |-> 0, minor |-> v.minor + 1, patch |-> 0]

(* satisfies_version raises a PluginException otherwise. *)
Satisfies(point, lower) == ~Less(point, lower) /\ Less(point, UpperBound(lower))

Exit(how) == pc' = "exit" /\ exit' = how

(* The help of a parser is printed and ends the process, if not muted. *)
Help(l) == shown' = shown \cup {l} /\ Exit("success") /\ UNCHANGED ran

-----------------------------------------------------------------------------
(* add_subparsers_on_demand: the parsers of this level, here called by the *)
(* level behind them, are made and muted.                                  *)
Mute ==
    /\ pc = "mute"
    /\ muted' = {level, level + 1}
    /\ pc' = "parse"
    /\ UNCHANGED <<input, plugins, progress, shown, ran, exit>>

(* Faulty: an argument that no parser knows yet is an error. *)
NotYetKnown == Name(level) = Unknown \/ (level = 1 /\ Selected(2))
Invalid == Name(level) = Unknown

(* Faulty: the siblings of the selected extension are not excluded. *)
WithSiblings == Group(level)
Needed == IF Selected(level) THEN {Name(level)} ELSE Group(level)

(* Faulty: the parsers stay muted. *)
StayMuted == UNCHANGED muted

(* __exit__ of SuppressUsageOutput *)
Unmute == muted' = {}

(* parse_known_args: at the second level a -h before the command is not    *)
(* muted any more.                                                         *)
Parse ==
    /\ pc = "parse"
    /\ Unmute
    /\ \/ /\ args.help = 1 /\ 1 \notin muted
          /\ Help(1) /\ UNCHANGED todo
       \/ /\ args.help # 1 \/ 1 \in muted
          /\ Invalid
          /\ Exit("usage") /\ UNCHANGED <<todo, shown, ran>>
       \/ /\ args.help # 1 \/ 1 \in muted
          /\ ~Invalid
          /\ todo' = Needed
          /\ pc' = "load" /\ UNCHANGED <<shown, ran, exit>>
    /\ UNCHANGED <<input, plugins, level, listed>>

Usable(x) == state[x] = "loaded" /\ Satisfies(Point, asks[x])

(* What the package of an extension turns out to be. *)
Outcome(x, how, v) ==
    /\ state' = [state EXCEPT ![x] = how]
    /\ asks' = [asks EXCEPT ![x] = v]

(* load_entry_points and instantiate_extensions: an extension that does    *)
(* not load, or whose constructor raises, is left out with a warning.      *)
Load(n) ==
    /\ pc = "load" /\ n \in todo
    /\ todo' = todo \ {n}
    /\ \E v \in Versions :
          \/ /\ Outcome(<<level, n>>, "loaded", v)
             /\ live' = IF Satisfies(Point, v) THEN live \cup {<<level, n>>} ELSE live
          \/ Outcome(<<level, n>>, "broken", v) /\ UNCHANGED live
    /\ UNCHANGED <<input, level, listed, pc, muted, shown, ran, exit>>

Alive(l) == {n \in Group(l) : <<l, n>> \in live}
Loaded == pc = "load" /\ todo = {}

(* Faulty: what is registered is listed. *)
ListRegistered ==
    /\ Loaded /\ ~Selected(level)
    /\ listed' = [listed EXCEPT ![level] = Group(level) \ Hidden]
    /\ pc' = "final"
    /\ UNCHANGED <<input, plugins, level, todo, muted, shown, ran, exit>>

(* Nothing selected: the extensions are listed. When all of them are       *)
(* hidden the maximum of no lengths raises.                                *)
List ==
    /\ Loaded /\ ~Selected(level)
    /\ \/ /\ Alive(level) = {} \/ level = 2 \/ Alive(level) \ Hidden # {}
          /\ listed' = [listed EXCEPT ![level] =
                          Alive(level) \ (IF level = 1 THEN Hidden ELSE {})]
          /\ pc' = "final" /\ UNCHANGED exit
       \/ /\ Alive(level) # {} /\ level = 1 /\ Alive(level) \subseteq Hidden
          /\ Exit("traceback") /\ UNCHANGED listed
    /\ UNCHANGED <<input, plugins, level, todo, muted, shown, ran>>

(* Faulty: what is registered is taken for an instance. *)
SelectRegistered ==
    /\ Loaded /\ Selected(level)
    /\ IF level = 1 /\ Name(1) \notin Alias
         THEN level' = 2 /\ pc' = "mute"
         ELSE pc' = "final" /\ UNCHANGED level
    /\ UNCHANGED <<input, plugins, todo, listed, muted, shown, ran, exit>>

(* The selected extension is missing when it did not load: a KeyError.     *)
(* BaseCommand.add_arguments sets up the parsers of its verbs.             *)
Select ==
    /\ Loaded /\ Selected(level)
    /\ \/ <<level, Name(level)>> \notin live /\ Exit("traceback") /\ UNCHANGED level
       \/ /\ <<level, Name(level)>> \in live
          /\ IF level = 1 /\ Name(1) \notin Alias
               THEN level' = 2 /\ pc' = "mute"
               ELSE pc' = "final" /\ UNCHANGED level
          /\ UNCHANGED exit
    /\ UNCHANGED <<input, plugins, todo, listed, muted, shown, ran>>

(* parse_args, with all parsers that are needed. *)
Final ==
    /\ pc = "final"
    /\ \/ args.help # 0 /\ args.help \notin muted /\ Help(args.help)
       \/ /\ args.help = 0 \/ args.help \in muted
          /\ ~args.good /\ Exit("usage") /\ UNCHANGED <<shown, ran>>
       \/ /\ args.help = 0 \/ args.help \in muted
          /\ args.good /\ pc' = "main" /\ UNCHANGED <<shown, ran, exit>>
    /\ UNCHANGED <<input, plugins, progress, muted>>

Last == IF Name(1) \in Alias THEN 1 ELSE 2

NoVerb == Help(2)

(* main of cli.py and of BaseCommand: without a command, or a verb, the    *)
(* help of the last parser; otherwise main of the extension.               *)
Main ==
    /\ pc = "main"
    /\ \/ ~Selected(1) /\ Help(1)
       \/ Selected(1) /\ ~Selected(Last) /\ NoVerb
       \/ /\ Selected(1) /\ Selected(Last)
          /\ ran' = ran \cup {<<Last, Name(Last)>>}
          /\ Exit(CASE main = "ok" -> "success"
                    [] main = "KeyboardInterrupt" -> "interrupted"
                    [] main = "RuntimeError" -> "failure"
                    [] OTHER -> "traceback")
          /\ UNCHANGED shown
    /\ UNCHANGED <<input, plugins, progress, muted>>

Ended == pc = "exit" /\ UNCHANGED vars

Next ==
    \/ Mute \/ Parse \/ List \/ Select \/ Final \/ Main \/ Ended
    \/ \E n \in Command \cup Verb : Load(n)

Spec == Init /\ [][Next]_vars

-----------------------------------------------------------------------------
(* The type invariant. *)
TypeOK ==
    /\ args \in {a \in Arguments : CommandLine(a)}
    /\ state \in [Extension -> {"untried", "loaded", "broken"}]
    /\ asks \in [Extension -> Versions \cup {Point}]
    /\ main \in {"ok", "KeyboardInterrupt", "RuntimeError", "exception"}
    /\ level \in Level /\ pc \in {"mute", "parse", "load", "final", "main", "exit"}
    /\ todo \subseteq Group(level) /\ live \subseteq Extension
    /\ muted \subseteq 1..3 /\ listed \in [Level -> SUBSET (Command \cup Verb)]
    /\ shown \subseteq 1..3 /\ ran \subseteq live
    /\ exit \in {"none", "success", "usage", "failure", "interrupted", "traceback"}

Works(l) == Name(l) # Unknown /\ (Usable(<<l, Name(l)>>) \/ state[<<l, Name(l)>>] = "untried")

(* A command line that names extensions that work runs the last of them,   *)
(* whatever is wrong with any other extension of any package, although its *)
(* arguments are parsed before the parser of that extension is known.      *)
SelectedRuns ==
    (/\ pc = "exit" /\ args.help = 0 /\ args.good
     /\ \A l \in 1..Last : Selected(l) /\ Works(l))
        => ran = {<<Last, Name(Last)>>}

(* The docstring of add_subparsers_on_demand: beside the selected          *)
(* extension no sibling is loaded, so none can slow down or break a run.   *)
OnlySelectedLoaded ==
    \A x \in Extension :
        Selected(x[1]) /\ x[2] # Name(x[1]) => state[x] = "untried"

(* Asking for help never runs anything: the help that is muted while the   *)
(* extensions are looked for is not lost, wherever -h stands, unless what  *)
(* it is asked of does not exist or does not work.                         *)
HelpIsShown ==
    args.help # 0 =>
        /\ ran = {}
        /\ pc = "exit" => shown = {args.help} \/ exit \in {"usage", "traceback"}

(* The list of a help shows every extension that works and is not hidden,  *)
(* and none that does not; except for a -h before the name of a command,   *)
(* whose list is empty.                                                    *)
ListIsComplete ==
    \A l \in shown \cap Level : ~Selected(l) =>
        \A n \in Group(l) :
            n \in listed[l] <=> Usable(<<l, n>>) /\ (l = 1 => n \notin Hidden)

(* A run that reports success printed a help or ran the extension that was *)
(* asked for, to its end, and that extension accepts this plugin system.   *)
SuccessMeansDone ==
    exit = "success" =>
        \/ shown # {}
        \/ main = "ok" /\ ran = {<<Last, Name(Last)>>}

(* An extension is used only if it was written for this plugin system: the *)
(* one of the range is not newer, and the first number of the version that *)
(* is not 0 is the same.                                                   *)
CompatibleOnly ==
    \A x \in live :
        /\ ~Less(Point, asks[x])
        /\ asks[x].major = Point.major
        /\ Point.major = 0 => asks[x].minor = Point.minor
=============================================================================

------------------------------ MODULE Dispatch ------------------------------
(***************************************************************************)
(* What the command line promises: it finds out about the extensions it    *)
(* needs, one at a time and each at most once, and then gives one answer,  *)
(* which is a help, the end of the extension that was named, or a refusal  *)
(* that has a reason.                                                      *)
(***************************************************************************)
EXTENDS Naturals

CONSTANTS Command, Alias, Verb, Hidden, NoName, Unknown

VARIABLES
    args,    \* the command line
    main,    \* how the main of the extension would end
    known,   \* what has been found out about each extension
    answer   \* what the user got

vars == <<args, main, known, answer>>

Level == {1, 2}
Group(l) == IF l = 1 THEN Command ELSE Verb
Extension == ({1} \X Command) \cup ({2} \X Verb)
Name(l) == args.name[l]
Selected(l) == Name(l) # NoName
Last == IF Name(1) \in Alias THEN 1 ELSE 2

(* What is known of the extension that is named at level l. *)
Is(l, k) == Name(l) \in Group(l) /\ known[<<l, Name(l)>>] = k
NoAnswer == [kind |-> "none", level |-> 0, exit |-> "none"]

Init ==
    /\ known = [x \in Extension |-> "untried"]
    /\ main \in {"ok", "KeyboardInterrupt", "RuntimeError", "exception"}
    /\ answer = NoAnswer

(* Siblings of a named extension are left alone, and so are the verbs of a *)
(* command that does not work.                                             *)
Try(x) ==
    /\ answer = NoAnswer
    /\ known[x] = "untried"
    /\ Selected(x[1]) => x[2] = Name(x[1])
    /\ x[1] = 2 => Is(1, "works") /\ Name(1) \notin Alias
    /\ \E k \in {"works", "fails"} : known' = [known EXCEPT ![x] = k]
    /\ UNCHANGED <<args, main, answer>>

Answer(kind, level, exit) ==
    /\ answer = NoAnswer
    /\ answer' = [kind |-> kind, level |-> level, exit |-> exit]
    /\ UNCHANGED <<args, main, known>>

(* The help that was asked for, or that of the first level without a name. *)
Help(l) ==
    /\ args.help = l \/ (args.help = 0 /\ args.good /\ l \in Level /\ ~Selected(l))
    /\ l > 1 => Is(1, "works")
    /\ l > 2 => Is(2, "works")
    /\ Answer("help", l, "success")

Run ==
    /\ args.help = 0 /\ args.good
    /\ Is(1, "works") /\ Is(Last, "works")
    /\ Answer("run", Last,
              CASE main = "ok" -> "success"
                [] main = "KeyboardInterrupt" -> "interrupted"
                [] main = "RuntimeError" -> "failure"
                [] OTHER -> "traceback")

(* A name that does not exist, or arguments that are wrong. *)
RefuseArguments ==
    /\ \/ Name(1) = Unknown
       \/ Is(1, "works") /\ Name(2) = Unknown
       \/ ~args.good
    /\ Answer("refused", 0, "usage")

(* A named extension that does not work; or nothing is named, and all that *)
(* works is hidden.                                                        *)
RefuseExtension ==
    /\ \/ \E l \in Level : Is(l, "fails")
       \/ /\ ~Selected(1)
          /\ \A n \in Command \ Hidden : known[<<1, n>>] = "fails"
          /\ \E n \in Hidden \cap Command : known[<<1, n>>] = "works"
    /\ Answer("refused", 0, "traceback")

Next ==
    \/ \E x \in Extension : Try(x)
    \/ \E l \in 1..3 : Help(l)
    \/ Run \/ RefuseArguments \/ RefuseExtension

Spec == Init /\ [][Next]_vars
=============================================================================

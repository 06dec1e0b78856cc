---------------------------- MODULE PluginDispatch ----------------------------
(***************************************************************************)
(* A run of `rtw' gives the one answer that Dispatch promises, however     *)
(* often its arguments are parsed and its parsers are muted on the way.    *)
(***************************************************************************)
EXTENDS PluginSystem

(* An extension works when it was loaded and accepts the plugin system. *)
Known ==
    [x \in Extension |->
        IF state[x] = "untried" THEN "untried" ELSE IF Usable(x) THEN "works" ELSE "fails"]

(* The answer is given when the process exits. *)
Given ==
    [kind |-> IF exit = "none" THEN "none"
              ELSE IF ran # {} THEN "run"
              ELSE IF shown # {} THEN "help" ELSE "refused",
     level |-> IF exit = "none" THEN 0
               ELSE IF ran # {} THEN Last
               ELSE IF shown # {} THEN CHOOSE l \in shown : TRUE ELSE 0,
     exit |-> exit]

D == INSTANCE Dispatch WITH known <- Known, answer <- Given

(* Every behaviour of the plugin system is one of Dispatch: an extension   *)
(* is tried once, and only if it is needed; the answer is given once and   *)
(* is final; nothing runs when a help was asked for; a usage error or a    *)
(* traceback of rtw itself has a reason in what was named or is installed, *)
(* and an extension that is not needed is none.                            *)
AnswersAsPromised == D!Spec
=============================================================================

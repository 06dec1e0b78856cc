------------------------------ MODULE DockerVerbs ------------------------------
(***************************************************************************)
(* `rtw docker enter | start | stop | restart', typed in several           *)
(* terminals: each asks docker for the state of the container of the       *)
(* workspace in use, and before a start it repairs the .xauth file the     *)
(* container mounts, which is in /tmp and is lost when the computer        *)
(* restarts. Docker, xauth and the operating system are external.          *)
(***************************************************************************)
EXTENDS Naturals

CONSTANTS
    Term,       \* terminals
    Box,        \* containers
    NoBox,      \* no workspace in use, or one without docker
    MaxFaults   \* bound: failures and actions from outside, over all runs

ASSUME DockerAssumption == NoBox \notin Box /\ MaxFaults \in Nat

VARIABLES
    box,      \* the container of the workspace each terminal uses
    up,       \* the state of each container
    hasX,     \* the containers that mount an .xauth file
    xauth,    \* the path they mount it from; a "held" directory: rmdir fails
    pc,       \* the next step of the verb in each terminal
    verb,     \* the verb
    result,   \* how the last verb of each terminal ended
    faults,   \* failures so far
    (* history variables *)
    misread,  \* terminals whose verb took an API error for "not running"
    cut,      \* containers whose file was left empty
    met,      \* terminals whose verb ran beside another one on its container
    saw       \* what the verb saw or did of its container: "down", "up"

env == <<box, hasX>>
ghosts == <<misread, cut, met, saw>>
vars == <<env, up, xauth, pc, verb, result, faults, ghosts>>

Verbs == {"enter", "start", "stop", "restart"}
Steps == {"stop_check", "stop", "start_check", "look", "rmdir", "create", "open",
          "fill", "start", "exec"}
Active(t) == pc[t] # "idle"
Stoppers == {"stop", "restart"}

Init ==
    /\ box \in [Term -> Box \cup {NoBox}]
    /\ up \in [Box -> {"stopped", "running"}]
    /\ hasX \in SUBSET Box
    /\ xauth \in [Box -> {"missing", "filled"}]
    /\ pc = [t \in Term |-> "idle"]
    /\ verb = [t \in Term |-> "start"]
    /\ result = [t \in Term |-> "none"]
    /\ faults = 0
    /\ misread = {} /\ cut = {} /\ met = {}
    /\ saw = [t \in Term |-> {}]

-----------------------------------------------------------------------------
Fault == faults < MaxFaults /\ faults' = faults + 1
Goto(t, step) == pc' = [pc EXCEPT ![t] = step] /\ UNCHANGED result
End(t, how) == pc' = [pc EXCEPT ![t] = "idle"] /\ result' = [result EXCEPT ![t] = how]
Fail(t) == End(t, "failed")
Raise(t) == End(t, "exception")
Saw(t, what) == saw' = [saw EXCEPT ![t] = @ \cup {what}]
Path(b, what) == xauth' = [xauth EXCEPT ![b] = what]

Others(t) == {u \in Term \ {t} : Active(u) /\ box[u] = box[t]}

(* Faulty: check_workspace is not asked. *)
TypeUnchecked(t, v) ==
    /\ pc[t] = "idle"
    /\ verb' = [verb EXCEPT ![t] = v]
    /\ Goto(t, IF v \in Stoppers THEN "stop_check" ELSE "start_check")
    /\ UNCHANGED <<env, up, xauth, faults, ghosts>>

(* check_workspace: without a container name the verb ends. *)
Type(t, v) ==
    /\ pc[t] = "idle"
    /\ verb' = [verb EXCEPT ![t] = v]
    /\ saw' = [saw EXCEPT ![t] = {}]
    /\ misread' = misread \ {t}
    /\ met' = IF Others(t) = {} THEN met \ {t} ELSE met \cup {t} \cup Others(t)
    /\ IF box[t] = NoBox
         THEN Fail(t)
         ELSE Goto(t, IF v \in Stoppers THEN "stop_check" ELSE "start_check")
    /\ UNCHANGED <<env, up, xauth, faults, cut>>

(* is_docker_container_running: an API error is answered with "not         *)
(* running"; without a docker daemon the query raises.                     *)
SeesRunning(t) == up[box[t]] = "running" /\ UNCHANGED <<faults, misread>>

SeesDown(t) ==
    \/ up[box[t]] # "running" /\ UNCHANGED <<faults, misread>>
    \/ Fault /\ misread' = misread \cup {t}

QueryRaises(t) == Fault /\ Raise(t) /\ UNCHANGED <<misread, saw>>

(* container_stop_routine, then for restart container_start_routine. *)
Stopped(t) == IF verb[t] = "restart" THEN Goto(t, "start_check") ELSE End(t, "done")

StopCheck(t) ==
    /\ pc[t] = "stop_check"
    /\ \/ SeesRunning(t) /\ Goto(t, "stop") /\ UNCHANGED saw
       \/ /\ SeesDown(t) /\ Stopped(t)
          /\ IF up[box[t]] = "running" THEN UNCHANGED saw ELSE Saw(t, "down")
       \/ QueryRaises(t)
    /\ UNCHANGED <<env, up, xauth, verb, cut, met>>

(* Faulty: a stop that fails is not noticed. *)
StopUnchecked(t) ==
    /\ pc[t] = "stop"
    /\ Stopped(t)
    /\ \/ up' = [up EXCEPT ![box[t]] = "stopped"] /\ Saw(t, "down") /\ UNCHANGED faults
       \/ Fault /\ UNCHANGED <<up, saw>>
    /\ UNCHANGED <<env, xauth, verb, misread, cut, met>>

(* docker stop: a container that is stopped already is no failure. *)
Stop(t) ==
    /\ pc[t] = "stop"
    /\ \/ /\ up[box[t]] # "gone"
          /\ up' = [up EXCEPT ![box[t]] = "stopped"]
          /\ Stopped(t) /\ Saw(t, "down") /\ UNCHANGED faults
       \/ up[box[t]] = "gone" /\ Fail(t) /\ UNCHANGED <<up, saw, faults>>
       \/ Fault /\ Fail(t) /\ UNCHANGED <<up, saw>>
    /\ UNCHANGED <<env, xauth, verb, misread, cut, met>>

Started(t) == IF verb[t] = "enter" THEN Goto(t, "exec") ELSE End(t, "done")

StartCheck(t) ==
    /\ pc[t] = "start_check"
    /\ \/ SeesRunning(t) /\ Started(t) /\ Saw(t, "up")
       \/ SeesDown(t) /\ Goto(t, "look") /\ UNCHANGED saw
       \/ QueryRaises(t)
    /\ UNCHANGED <<env, up, xauth, verb, cut, met>>

-----------------------------------------------------------------------------
(* fix_missing_xauth_file *)

(* The container mounts no .xauth, or there is a file to mount. *)
Mountable(b) == b \notin hasX \/ xauth[b] \in {"empty", "filled"}

(* Faulty: the file is made anew although it is there. *)
LookPastFile(t) ==
    /\ pc[t] = "look"
    /\ up[box[t]] # "gone"
    /\ Goto(t, IF box[t] \in hasX THEN "open" ELSE "start")
    /\ UNCHANGED <<env, up, xauth, verb, faults, ghosts>>

(* Faulty: a directory in place of the file is not removed. *)
LookWithoutRmdir(t) ==
    /\ pc[t] = "look"
    /\ IF up[box[t]] = "gone" THEN Fail(t)
       ELSE Goto(t, IF Mountable(box[t]) THEN "start" ELSE "create")
    /\ UNCHANGED <<env, up, xauth, verb, faults, ghosts>>

(* A file is taken as it is, with whatever is in it. *)
Look(t) ==
    /\ pc[t] = "look"
    /\ \/ Fault /\ (Fail(t) \/ Raise(t))
       \/ up[box[t]] = "gone" /\ Fail(t) /\ UNCHANGED faults
       \/ /\ up[box[t]] # "gone" /\ UNCHANGED faults
          /\ Goto(t, CASE Mountable(box[t]) -> "start"
                       [] xauth[box[t]] \in {"dir", "held"} -> "rmdir"
                       [] OTHER -> "create")
    /\ UNCHANGED <<env, up, xauth, verb, ghosts>>

Rmdir(t) ==
    /\ pc[t] = "rmdir"
    /\ IF xauth[box[t]] = "dir"
         THEN Path(box[t], "missing") /\ Goto(t, "create")
         ELSE Fail(t) /\ UNCHANGED xauth
    /\ UNCHANGED <<env, up, verb, faults, ghosts>>

(* create_file_if_not_exists looks again and then opens for writing, which *)
(* empties a file made in between.                                         *)
Create(t) ==
    /\ pc[t] = "create"
    /\ Goto(t, IF xauth[box[t]] \in {"empty", "filled"} THEN "fill" ELSE "open")
    /\ UNCHANGED <<env, up, xauth, verb, faults, ghosts>>

Open(t) ==
    /\ pc[t] = "open"
    /\ \/ /\ xauth[box[t]] \notin {"dir", "held"}
          /\ Path(box[t], "empty") /\ Goto(t, "fill") /\ UNCHANGED faults
       \/ xauth[box[t]] \in {"dir", "held"} /\ Fail(t) /\ UNCHANGED <<xauth, faults>>
       \/ Fault /\ Fail(t) /\ UNCHANGED xauth
    /\ UNCHANGED <<env, up, verb, ghosts>>

Remove(t) ==
    IF xauth[box[t]] \in {"empty", "filled"}
      THEN Path(box[t], "missing") /\ Fail(t)
      ELSE Raise(t) /\ UNCHANGED xauth

(* Faulty: the file stays when xauth failed. *)
FillKeepsFile(t) ==
    /\ pc[t] = "fill"
    /\ \/ Path(box[t], "filled") /\ Goto(t, "start") /\ UNCHANGED <<faults, cut>>
       \/ Fault /\ Fail(t) /\ UNCHANGED <<xauth, cut>>
    /\ UNCHANGED <<env, up, verb, misread, met, saw>>

(* The pipeline has the exit code of its last command: without a display   *)
(* nothing is merged, and that is a success.                               *)
Fill(t) ==
    /\ pc[t] = "fill"
    /\ \/ /\ xauth[box[t]] \notin {"dir", "held"}
          /\ Path(box[t], "filled") /\ Goto(t, "start")
          /\ cut' = cut \ {box[t]} /\ UNCHANGED faults
       \/ Fault /\ Goto(t, "start") /\ cut' = cut \cup {box[t]} /\ UNCHANGED xauth
       \/ Fault /\ Remove(t) /\ UNCHANGED cut
       \/ xauth[box[t]] \in {"dir", "held"} /\ Remove(t) /\ UNCHANGED <<cut, faults>>
    /\ UNCHANGED <<env, up, verb, misread, met, saw>>

-----------------------------------------------------------------------------
(* Docker makes a directory for a mount that is not there, as root, and    *)
(* cannot mount a directory on the file in the container.                  *)
Unmountable(b) ==
    IF xauth[b] = "missing" THEN Path(b, "dir") \/ Path(b, "held") ELSE UNCHANGED xauth

(* docker start; for a container that runs it does nothing. *)
Start(t) ==
    /\ pc[t] = "start"
    /\ LET b == box[t] IN
       \/ /\ up[b] = "running" \/ (up[b] = "stopped" /\ Mountable(b))
          /\ up' = [up EXCEPT ![b] = "running"]
          /\ Started(t) /\ Saw(t, "up") /\ UNCHANGED <<xauth, faults>>
       \/ /\ up[b] = "stopped" /\ ~Mountable(b)
          /\ Unmountable(b) /\ Fail(t) /\ UNCHANGED <<up, saw, faults>>
       \/ up[b] = "gone" /\ Fail(t) /\ UNCHANGED <<up, xauth, saw, faults>>
       \/ Fault /\ Fail(t) /\ UNCHANGED <<up, xauth, saw>>
    /\ UNCHANGED <<env, verb, misread, cut, met>>

(* docker exec: the shell is entered, or the container is down again. *)
Exec(t) ==
    /\ pc[t] = "exec"
    /\ End(t, IF up[box[t]] = "running" THEN "done" ELSE "failed")
    /\ UNCHANGED <<env, up, xauth, verb, faults, ghosts>>

Step(t) ==
    \/ StopCheck(t) \/ Stop(t) \/ StartCheck(t)
    \/ Look(t) \/ Rmdir(t) \/ Create(t) \/ Open(t) \/ Fill(t)
    \/ Start(t) \/ Exec(t)

-----------------------------------------------------------------------------
(* Ctrl-C. *)
Interrupt(t) ==
    /\ Active(t) /\ Fault
    /\ End(t, "interrupted")
    /\ cut' = IF pc[t] = "fill" THEN cut \cup {box[t]} ELSE cut
    /\ UNCHANGED <<env, up, xauth, verb, misread, met, saw>>

(* The computer restarts: no verb runs, /tmp is empty. *)
Reboot ==
    /\ Fault
    /\ pc' = [t \in Term |-> "idle"]
    /\ result' = [t \in Term |-> IF Active(t) THEN "interrupted" ELSE result[t]]
    /\ up' = [b \in Box |-> IF up[b] = "running" THEN "stopped" ELSE up[b]]
    /\ xauth' = [b \in Box |-> "missing"]
    /\ cut' = {}
    /\ UNCHANGED <<env, verb, misread, met, saw>>

(* docker start from outside of rtw, as an editor does to attach. *)
StartOutside(b) ==
    /\ up[b] = "stopped" /\ Fault
    /\ IF Mountable(b) THEN up' = [up EXCEPT ![b] = "running"] /\ UNCHANGED xauth
                       ELSE Unmountable(b) /\ UNCHANGED up
    /\ UNCHANGED <<env, pc, verb, result, ghosts>>

(* The container stops by itself, or is deleted. *)
StopOutside(b) ==
    /\ up[b] # "gone" /\ Fault
    /\ \/ up' = [up EXCEPT ![b] = "gone"]
       \/ up[b] = "running" /\ up' = [up EXCEPT ![b] = "stopped"]
    /\ UNCHANGED <<env, xauth, pc, verb, result, ghosts>>

(* "Please remove it manually and try again." *)
RemoveByHand(b) ==
    /\ xauth[b] = "held"
    /\ Path(b, "missing")
    /\ UNCHANGED <<env, up, pc, verb, result, faults, ghosts>>

Next ==
    \/ \E t \in Term : (\E v \in Verbs : Type(t, v)) \/ Step(t) \/ Interrupt(t)
    \/ \E b \in Box : StartOutside(b) \/ StopOutside(b) \/ RemoveByHand(b)
    \/ Reboot

Spec == Init /\ [][Next]_vars

(* A program that runs ends, and the user asks again for a start. *)
LiveSpec ==
    /\ Spec
    /\ \A t \in Term : WF_vars(Step(t)) /\ SF_vars(Type(t, "start"))

-----------------------------------------------------------------------------
(* The type invariant. *)
TypeOK ==
    /\ box \in [Term -> Box \cup {NoBox}]
    /\ up \in [Box -> {"gone", "stopped", "running"}]
    /\ hasX \subseteq Box
    /\ xauth \in [Box -> {"missing", "dir", "held", "empty", "filled"}]
    /\ pc \in [Term -> Steps \cup {"idle"}]
    /\ verb \in [Term -> Verbs]
    /\ result \in [Term -> {"none", "done", "failed", "exception", "interrupted"}]
    /\ faults \in 0..MaxFaults
    /\ misread \subseteq Term /\ cut \subseteq Box /\ met \subseteq Term
    /\ saw \in [Term -> SUBSET {"down", "up"}]
    /\ \A t \in Term : Active(t) => box[t] \in Box

(* A container that a verb starts gets a filled .xauth file, although no   *)
(* step of the start looks into the file: the only exceptions are a file   *)
(* whose filling was cut short or found no display, which is never filled  *)
(* later, and another verb at work on the same container.                  *)
StartsWithCookie ==
    [][\A t \in Term :
        pc[t] = "start" /\ pc'[t] # "start" /\ box[t] \in hasX
        /\ up[box[t]] = "stopped" /\ up'[box[t]] = "running"
          => xauth[box[t]] = "filled" \/ box[t] \in cut \/ t \in met]_vars

(* A verb that works alone on its container never takes away the cookie    *)
(* that is in the file: the probes before open(..., "w") and os.remove are *)
(* enough as long as no second verb runs.                                  *)
KeepsCookie ==
    [][\A t \in Term \ met :
        Step(t) /\ xauth[box[t]] = "filled" => xauth'[box[t]] = "filled"]_vars

(* A stop or restart that ends well left the container down at some moment *)
(* and an enter, start or restart left it running, whatever was done to    *)
(* the container from outside; only an API error taken for "not running"   *)
(* makes a stop, and a restart, end well without doing anything.           *)
DoneMeansDone ==
    \A t \in Term : result[t] = "done" /\ ~Active(t) =>
        /\ verb[t] \in Stoppers => "down" \in saw[t] \/ t \in misread
        /\ verb[t] # "stop" => "up" \in saw[t]

(* A workspace whose container is down gets it back by `rtw docker start'  *)
(* typed again and again, after restarts of the computer too; it takes     *)
(* the user's hand only if docker left a directory that rmdir refuses.     *)
ComesBack ==
    \A b \in Box :
        up[b] = "stopped" /\ (\E t \in Term : box[t] = b)
            ~> up[b] # "stopped" \/ xauth[b] = "held"
=============================================================================

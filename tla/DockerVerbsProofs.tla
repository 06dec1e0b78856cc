--------------------------- MODULE DockerVerbsProofs ---------------------------
(* Theorems about the docker verbs, for every number of terminals,          *)
(* containers and failures.                                                 *)
EXTENDS DockerVerbs, TLAPS

StartSteps == {"start_check", "look", "rmdir", "create", "open", "fill", "start", "exec"}

(* What has happened when a verb is at a step. *)
StepOK ==
    \A t \in Term :
        /\ pc[t] \in {"stop_check", "stop"} => verb[t] \in Stoppers
        /\ pc[t] \in StartSteps => verb[t] # "stop"
        /\ pc[t] \in StartSteps /\ verb[t] = "restart" => "down" \in saw[t] \/ t \in misread
        /\ pc[t] = "exec" => verb[t] = "enter" /\ "up" \in saw[t]

Alone(t) == \A u \in Term \ {t} : ~(Active(u) /\ box[u] = box[t])

(* A verb that met no other one is alone, and the file it is about to make *)
(* holds no cookie.                                                        *)
AloneOK ==
    \A t \in Term \ met :
        /\ Active(t) => Alone(t)
        /\ pc[t] \in {"create", "open", "fill"} => xauth[box[t]] # "filled"

(* An empty file is about to be filled, or was left behind. *)
EmptyOK ==
    \A b \in Box : xauth[b] = "empty" =>
        b \in cut \/ \E u \in Term : pc[u] = "fill" /\ box[u] = b

IInv == TypeOK /\ StepOK /\ DoneMeansDone /\ AloneOK /\ EmptyOK

-----------------------------------------------------------------------------
(* The initial states satisfy the invariant. *)
LEMMA InitInv == Init => IInv
BY DockerAssumption
DEF Init, IInv, TypeOK, StepOK, DoneMeansDone, AloneOK, EmptyOK, Alone, Active, Steps, StartSteps,
    Verbs, Stoppers

(* Every step keeps the types. *)
LEMMA NextType == TypeOK /\ [Next]_vars => TypeOK'
<1> SUFFICES ASSUME TypeOK, [Next]_vars PROVE TypeOK'
  OBVIOUS
<1> USE DockerAssumption DEF TypeOK, Active, Steps, env, ghosts, Fault, Goto, End, Fail, Raise, Saw,
        Path, Verbs, Stoppers
<1>1. ASSUME NEW t \in Term, NEW v \in Verbs, Type(t, v) PROVE TypeOK'
  BY <1>1 DEF Type, Others
<1>2. ASSUME NEW t \in Term, StopCheck(t) PROVE TypeOK'
  BY <1>2 DEF StopCheck, SeesRunning, SeesDown, QueryRaises, Stopped
<1>3. ASSUME NEW t \in Term, Stop(t) PROVE TypeOK'
  BY <1>3 DEF Stop, Stopped
<1>4. ASSUME NEW t \in Term, StartCheck(t) PROVE TypeOK'
  BY <1>4 DEF StartCheck, SeesRunning, SeesDown, QueryRaises, Started
<1>5. ASSUME NEW t \in Term, Look(t) PROVE TypeOK'
  BY <1>5 DEF Look
<1>6. ASSUME NEW t \in Term, Rmdir(t) PROVE TypeOK'
  BY <1>6 DEF Rmdir
<1>7. ASSUME NEW t \in Term, Create(t) PROVE TypeOK'
  BY <1>7 DEF Create
<1>8. ASSUME NEW t \in Term, Open(t) PROVE TypeOK'
  BY <1>8 DEF Open
<1>9. ASSUME NEW t \in Term, Fill(t) PROVE TypeOK'
  BY <1>9 DEF Fill, Remove
<1>10. ASSUME NEW t \in Term, Start(t) PROVE TypeOK'
  BY <1>10 DEF Start, Started, Unmountable
<1>11. ASSUME NEW t \in Term, Exec(t) PROVE TypeOK'
  BY <1>11 DEF Exec
<1>12. ASSUME NEW t \in Term, Interrupt(t) PROVE TypeOK'
  BY <1>12 DEF Interrupt
<1>13. ASSUME Reboot PROVE TypeOK'
  BY <1>13 DEF Reboot
<1>14. ASSUME NEW b \in Box, StartOutside(b) PROVE TypeOK'
  BY <1>14 DEF StartOutside, Unmountable
<1>15. ASSUME NEW b \in Box, StopOutside(b) PROVE TypeOK'
  BY <1>15 DEF StopOutside
<1>16. ASSUME NEW b \in Box, RemoveByHand(b) PROVE TypeOK'
  BY <1>16 DEF RemoveByHand
<1>17. ASSUME UNCHANGED vars PROVE TypeOK'
  BY <1>17 DEF vars
<1> QED
  BY <1>1, <1>2, <1>3, <1>4, <1>5, <1>6, <1>7, <1>8, <1>9, <1>10, <1>11, <1>12, <1>13, <1>14,
     <1>15, <1>16, <1>17 DEF Next, Step

(* Every step keeps the record of what the verb did. *)
LEMMA NextDone == IInv /\ [Next]_vars => (StepOK /\ DoneMeansDone)'
<1> SUFFICES ASSUME IInv, [Next]_vars PROVE (StepOK /\ DoneMeansDone)'
  OBVIOUS
<1> TypeOK /\ StepOK /\ DoneMeansDone
  BY DEF IInv
<1> USE DEF TypeOK, StepOK, DoneMeansDone, Active, StartSteps, env, ghosts, Goto, End, Fail, Raise,
        Saw, Verbs, Stoppers
<1>1. ASSUME NEW t \in Term, NEW v \in Verbs, Type(t, v) PROVE (StepOK /\ DoneMeansDone)'
  BY <1>1 DEF Type
<1>2. ASSUME NEW t \in Term, StopCheck(t) PROVE (StepOK /\ DoneMeansDone)'
  BY <1>2 DEF StopCheck, SeesRunning, SeesDown, QueryRaises, Stopped, Fault
<1>3. ASSUME NEW t \in Term, Stop(t) PROVE (StepOK /\ DoneMeansDone)'
  BY <1>3 DEF Stop, Stopped
<1>4. ASSUME NEW t \in Term, StartCheck(t) PROVE (StepOK /\ DoneMeansDone)'
  BY <1>4 DEF StartCheck, SeesRunning, SeesDown, QueryRaises, Started
<1>5. ASSUME NEW t \in Term, Look(t) \/ Rmdir(t) \/ Create(t) \/ Open(t) \/ Fill(t)
      PROVE (StepOK /\ DoneMeansDone)'
  BY <1>5 DEF Look, Rmdir, Create, Open, Fill, Remove
<1>6. ASSUME NEW t \in Term, Start(t) PROVE (StepOK /\ DoneMeansDone)'
  BY <1>6 DEF Start, Started
<1>7. ASSUME NEW t \in Term, Exec(t) PROVE (StepOK /\ DoneMeansDone)'
  BY <1>7 DEF Exec
<1>8. ASSUME NEW t \in Term, Interrupt(t) PROVE (StepOK /\ DoneMeansDone)'
  BY <1>8 DEF Interrupt
<1>9. ASSUME Reboot PROVE (StepOK /\ DoneMeansDone)'
  BY <1>9 DEF Reboot
<1>10. ASSUME NEW b \in Box, StartOutside(b) \/ StopOutside(b) \/ RemoveByHand(b)
       PROVE (StepOK /\ DoneMeansDone)'
  BY <1>10 DEF StartOutside, StopOutside, RemoveByHand
<1>11. ASSUME UNCHANGED vars PROVE (StepOK /\ DoneMeansDone)'
  BY <1>11 DEF vars
<1> QED
  BY <1>1, <1>2, <1>3, <1>4, <1>5, <1>6, <1>7, <1>8, <1>9, <1>10, <1>11 DEF Next, Step

(* Every step keeps what a lone verb may rely on. *)
LEMMA NextAlone == IInv /\ [Next]_vars => AloneOK'
<1> SUFFICES ASSUME IInv, [Next]_vars PROVE AloneOK'
  OBVIOUS
<1> TypeOK /\ AloneOK
  BY DEF IInv
<1> USE DEF TypeOK, AloneOK, Alone, Active, env, ghosts, Goto, End, Fail, Raise, Path
<1>1. ASSUME NEW t \in Term, NEW v \in Verbs, Type(t, v) PROVE AloneOK'
  BY <1>1 DEF Type, Others
<1>2. ASSUME NEW t \in Term, StopCheck(t) \/ Stop(t) \/ StartCheck(t) PROVE AloneOK'
  BY <1>2 DEF StopCheck, Stop, StartCheck, SeesRunning, SeesDown, QueryRaises, Stopped, Started
<1>3. ASSUME NEW t \in Term, Look(t) PROVE AloneOK'
  BY <1>3 DEF Look, Mountable
<1>4. ASSUME NEW t \in Term, Rmdir(t) PROVE AloneOK'
  BY <1>4 DEF Rmdir
<1>5. ASSUME NEW t \in Term, Create(t) PROVE AloneOK'
  BY <1>5 DEF Create
<1>6. ASSUME NEW t \in Term, Open(t) PROVE AloneOK'
  BY <1>6 DEF Open
<1>7. ASSUME NEW t \in Term, Fill(t) PROVE AloneOK'
  BY <1>7 DEF Fill, Remove
<1>8. ASSUME NEW t \in Term, Start(t) PROVE AloneOK'
  BY <1>8 DEF Start, Started, Unmountable
<1>9. ASSUME NEW t \in Term, Exec(t) \/ Interrupt(t) PROVE AloneOK'
  BY <1>9 DEF Exec, Interrupt
<1>10. ASSUME Reboot PROVE AloneOK'
  BY <1>10 DEF Reboot
<1>11. ASSUME NEW b \in Box, StartOutside(b) \/ StopOutside(b) \/ RemoveByHand(b) PROVE AloneOK'
  BY <1>11 DEF StartOutside, StopOutside, RemoveByHand, Unmountable
<1>12. ASSUME UNCHANGED vars PROVE AloneOK'
  BY <1>12 DEF vars
<1> QED
  BY <1>1, <1>2, <1>3, <1>4, <1>5, <1>6, <1>7, <1>8, <1>9, <1>10, <1>11, <1>12 DEF Next, Step

(* Every step keeps the reason for an empty file. *)
LEMMA NextEmpty == IInv /\ [Next]_vars => EmptyOK'
<1> SUFFICES ASSUME IInv, [Next]_vars PROVE EmptyOK'
  OBVIOUS
<1> TypeOK /\ EmptyOK
  BY DEF IInv
<1> USE DEF TypeOK, EmptyOK, Active, env, ghosts, Goto, End, Fail, Raise, Path
<1>1. ASSUME NEW t \in Term, NEW v \in Verbs, Type(t, v) PROVE EmptyOK'
  BY <1>1 DEF Type
<1>2. ASSUME NEW t \in Term, StopCheck(t) \/ Stop(t) \/ StartCheck(t) PROVE EmptyOK'
  BY <1>2 DEF StopCheck, Stop, StartCheck, SeesRunning, SeesDown, QueryRaises, Stopped, Started
<1>3. ASSUME NEW t \in Term, Look(t) \/ Rmdir(t) \/ Create(t) \/ Open(t) PROVE EmptyOK'
  BY <1>3 DEF Look, Rmdir, Create, Open
<1>4. ASSUME NEW t \in Term, Fill(t) PROVE EmptyOK'
  BY <1>4 DEF Fill, Remove
<1>5. ASSUME NEW t \in Term, Start(t) PROVE EmptyOK'
  BY <1>5 DEF Start, Started, Unmountable
<1>6. ASSUME NEW t \in Term, Exec(t) \/ Interrupt(t) PROVE EmptyOK'
  BY <1>6 DEF Exec, Interrupt
<1>7. ASSUME Reboot PROVE EmptyOK'
  BY <1>7 DEF Reboot
<1>8. ASSUME NEW b \in Box, StartOutside(b) \/ StopOutside(b) \/ RemoveByHand(b) PROVE EmptyOK'
  BY <1>8 DEF StartOutside, StopOutside, RemoveByHand, Unmountable
<1>9. ASSUME UNCHANGED vars PROVE EmptyOK'
  BY <1>9 DEF vars
<1> QED
  BY <1>1, <1>2, <1>3, <1>4, <1>5, <1>6, <1>7, <1>8, <1>9 DEF Next, Step

(* The invariant holds in every reachable state. *)
LEMMA Invariant == Spec => []IInv
<1>1. IInv /\ [Next]_vars => IInv'
  BY NextType, NextDone, NextAlone, NextEmpty DEF IInv
<1> QED
  BY InitInv, <1>1, PTL DEF Spec

-----------------------------------------------------------------------------
(* The state of the docker verbs is well typed. *)
THEOREM TypeCorrect == Spec => []TypeOK
<1>1. IInv => TypeOK
  BY DEF IInv
<1> QED
  BY Invariant, <1>1, PTL

(* A verb that ends well did what it is for, but for a misread API error.  *)
THEOREM DoneIsDone == Spec => []DoneMeansDone
<1>1. IInv => DoneMeansDone
  BY DEF IInv
<1> QED
  BY Invariant, <1>1, PTL

(* A verb at work alone starts the container with a filled .xauth file,    *)
(* or with one that was left empty before.                                 *)
THEOREM CookieAtStart == Spec => StartsWithCookie
<1> DEFINE A == \A t \in Term :
        pc[t] = "start" /\ pc'[t] # "start" /\ box[t] \in hasX
        /\ up[box[t]] = "stopped" /\ up'[box[t]] = "running"
          => xauth[box[t]] = "filled" \/ box[t] \in cut \/ t \in met
<1>1. IInv /\ [Next]_vars => [A]_vars
  <2> SUFFICES ASSUME IInv, Next, NEW t \in Term, pc[t] = "start", pc'[t] # "start",
                      box[t] \in hasX, up[box[t]] = "stopped", up'[box[t]] = "running", t \notin met
               PROVE xauth[box[t]] = "filled" \/ box[t] \in cut
    OBVIOUS
  <2>1. Mountable(box[t])
    <3>1. ASSUME NEW u \in Term, Step(u), u # t PROVE FALSE
      BY <3>1 DEF IInv, TypeOK, Step, StopCheck, Stop, StartCheck, Look, Rmdir, Create, Open, Fill,
         Start, Exec, Goto, End, Fail, Raise, SeesRunning, SeesDown, QueryRaises, Stopped, Started, Remove
    <3>2. ASSUME Step(t) PROVE Mountable(box[t])
      BY <3>2 DEF IInv, TypeOK, Step, StopCheck, Stop, StartCheck, Look, Rmdir, Create, Open, Fill,
         Start, Exec
    <3>3. ASSUME NEW u \in Term, NEW v \in Verbs, Type(u, v) PROVE FALSE
      BY <3>3 DEF Type
    <3>4. ASSUME NEW u \in Term, Interrupt(u) PROVE FALSE
      BY <3>4 DEF Interrupt
    <3>5. ASSUME NEW b \in Box, StartOutside(b) \/ StopOutside(b) \/ RemoveByHand(b) PROVE FALSE
      BY <3>5 DEF StartOutside, StopOutside, RemoveByHand
    <3>6. ASSUME Reboot PROVE FALSE
      BY <3>6 DEF Reboot, IInv, TypeOK
    <3> QED
      BY <3>1, <3>2, <3>3, <3>4, <3>5, <3>6 DEF Next
  <2>2. xauth[box[t]] \in {"empty", "filled"}
    BY <2>1 DEF Mountable
  <2>3. ASSUME NEW u \in Term, pc[u] = "fill", box[u] = box[t] PROVE FALSE
    BY <2>3 DEF IInv, AloneOK, Alone, Active
  <2> QED
    BY <2>2, <2>3 DEF IInv, EmptyOK, TypeOK, Active
<1> QED
  BY Invariant, <1>1, PTL DEF Spec, StartsWithCookie

(* A verb at work alone never takes the cookie away. *)
THEOREM CookieKept == Spec => KeepsCookie
<1> DEFINE A == \A t \in Term \ met :
        Step(t) /\ xauth[box[t]] = "filled" => xauth'[box[t]] = "filled"
<1>1. IInv => [A]_vars
  <2> SUFFICES ASSUME IInv, NEW t \in Term \ met, Step(t), xauth[box[t]] = "filled"
               PROVE xauth'[box[t]] = "filled"
    OBVIOUS
  <2>1. pc[t] \notin {"create", "open", "fill"}
    BY DEF IInv, AloneOK
  <2> QED
    BY <2>1 DEF Step, StopCheck, Stop, StartCheck, Look, Rmdir, Create, Open, Fill, Start, Exec,
       Mountable, Unmountable
<1> QED
  BY Invariant, <1>1, PTL DEF Spec, KeepsCookie
=============================================================================

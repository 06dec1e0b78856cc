---------------------------- MODULE ShellUseProofs ----------------------------
(***************************************************************************)
(* Theorems about terminals and `rtw workspace use', for any number of     *)
(* terminals, process ids, workspaces and variables, and any time.         *)
(***************************************************************************)
EXTENDS ShellUse, TLAPS

(* Open terminals differ in their process ids; a use that runs has read a  *)
(* workspace, and no prompt is due meanwhile.                              *)
Apart ==
    /\ \A s, t \in live : pid[s] = pid[t] => s = t
    /\ \A s \in Shell : loaded[s] # NoPromise =>
          s \in live /\ ~due[s] /\ loaded[s].ws \in Ws

(* No file and no remembered time is younger than the clock, and a         *)
(* terminal remembers no later time than that of its last sourcing.        *)
Times ==
    /\ \A p \in Pid : script[p].mtime <= clock
    /\ \A s \in Shell : cached[s] <= sourcedAt[s] /\ sourcedAt[s] <= clock

(* A script of a terminal comes from its own use or from an earlier        *)
(* terminal.                                                               *)
Origin ==
    \A s \in live : cur[s] # NoWs \/ script[pid[s]].ws # NoWs =>
        asked[s].ws # NoWs \/ pid[s] \in reused

(* What was promised in a later second is in force, or is in a script that *)
(* the prompt that is due will source; a script left empty changes nothing.*)
Promised(s) == script[pid[s]].ws = asked[s].ws /\ script[pid[s]].vars = asked[s].vars
Empty(s) == script[pid[s]].ws = NoWs /\ script[pid[s]].vars = NoEnv

PromiseKept ==
    \A s \in live : late[s] =>
        /\ asked[s].ws \in Ws
        /\ \/ Empty(s) /\ Kept(s)
           \/ Promised(s) /\ (Kept(s) \/ (due[s] /\ Younger(s)))

(* A script that is younger than the last one sourced was written since.   *)
Announced == \A s \in live : Younger(s) => pending[s]

IInv == TypeOK /\ Apart /\ Times /\ Origin /\ PromiseKept /\ Announced

-----------------------------------------------------------------------------
LEMMA EnvTypes ==
    /\ NoEnv \in Env /\ NoPromise \in Promise /\ NoScript \in Script
    /\ \A x \in Script : x.ws \in Ws \cup {NoWs} /\ x.vars \in Env /\ x.mtime \in Nat
    /\ \A x \in Promise : x.ws \in Ws \cup {NoWs} /\ x.vars \in Env
BY ShellAssumption DEF Env, NoEnv, NoPromise, Promise, NoScript, Script

(* Exporting changes nothing the second time, and nothing without values. *)
LEMMA ExportedFacts ==
    \A e, f \in Env :
        /\ Exported(e, f) \in Env
        /\ Exported(Exported(e, f), f) = Exported(e, f)
        /\ Exported(e, NoEnv) = e
        /\ Exported(NoEnv, f) = f
<1> SUFFICES ASSUME NEW e \in Env, NEW f \in Env
             PROVE  /\ Exported(e, f) \in Env
                    /\ Exported(Exported(e, f), f) = Exported(e, f)
                    /\ Exported(e, NoEnv) = e
                    /\ Exported(NoEnv, f) = f
  OBVIOUS
<1>1. Exported(e, f) \in Env
  BY DEF Exported, Env
<1>2. Exported(Exported(e, f), f) = Exported(e, f)
  BY DEF Exported
<1>3. Exported(e, NoEnv) = e
  BY DEF Exported, Env, NoEnv
<1>4. Exported(NoEnv, f) = f
  BY DEF Exported, Env, NoEnv
<1> QED
  BY <1>1, <1>2, <1>3, <1>4

LEMMA InitInv == Init => IInv
<1> SUFFICES ASSUME Init PROVE IInv
  OBVIOUS
<1>1. TypeOK
  BY EnvTypes, ShellAssumption DEF Init, TypeOK, store
<1> QED
  BY <1>1, EnvTypes, ShellAssumption
  DEF Init, IInv, Apart, Times, Origin, PromiseKept, Announced, NoScript

(* Every step keeps the types. *)
LEMMA NextTypes == TypeOK /\ [Next]_vars => TypeOK'
<1> SUFFICES ASSUME TypeOK, [Next]_vars PROVE TypeOK'
  OBVIOUS
<1> USE ShellAssumption DEF store, shellEnv, ghosts
<1>1. ASSUME Tick PROVE TypeOK'
  BY <1>1 DEF Tick, TypeOK
<1>2. ASSUME LoseFolder PROVE TypeOK'
  BY <1>2 DEF LoseFolder, TypeOK
<1>3. ASSUME NEW s \in Shell, Open(s) PROVE TypeOK'
  BY <1>3, EnvTypes DEF Open, TypeOK
<1>4. ASSUME NEW s \in Shell, Close(s) PROVE TypeOK'
  BY <1>4 DEF Close, TypeOK
<1>5. ASSUME NEW s \in Shell, Edit(s) PROVE TypeOK'
  <2>1. config' \in [Ws -> Env]
    BY <1>5 DEF Edit, TypeOK, Env
  <2> QED
    BY <1>5, <2>1 DEF Edit, CommandEnds, TypeOK
<1>6. ASSUME NEW s \in Shell, Export(s) PROVE TypeOK'
  <2>1. env' \in [Shell -> Env] /\ trail' \in [Shell -> Env]
    BY <1>6 DEF Export, TypeOK, Env
  <2> QED
    BY <1>6, <2>1 DEF Export, CommandEnds, TypeOK
<1>7. ASSUME NEW s \in Shell, UseLoads(s) PROVE TypeOK'
  <2>1. loaded' \in [Shell -> Promise]
    BY <1>7 DEF UseLoads, TypeOK, Promise
  <2> QED
    BY <1>7, <2>1 DEF UseLoads, TypeOK
<1>8. ASSUME NEW s \in Shell, Use(s) PROVE TypeOK'
  <2>1. script' \in [Pid -> Script]
    BY <1>8, EnvTypes DEF Use, ScriptPid, TypeOK, Script
  <2>2. Exported(trail[s], loaded[s].vars) \in Env
    BY EnvTypes, ExportedFacts DEF TypeOK
  <2>3. trail' \in [Shell -> Env]
    BY <1>8, <2>2 DEF Use, TypeOK
  <2> QED
    BY <1>8, <2>1, <2>3, EnvTypes DEF Use, CommandEnds, TypeOK
<1>9. ASSUME NEW s \in Shell, UseGivesUp(s) PROVE TypeOK'
  BY <1>9, EnvTypes DEF UseGivesUp, CommandEnds, TypeOK
<1>10. ASSUME NEW s \in Shell, UseFails(s) PROVE TypeOK'
  <2>1. script' \in [Pid -> Script]
    BY <1>10, EnvTypes DEF UseFails, ScriptPid, TypeOK, Script, NoScript
  <2> QED
    BY <1>10, <2>1, EnvTypes DEF UseFails, CommandEnds, TypeOK
<1>11. ASSUME NEW s \in Shell, SourceExports(s)
       PROVE  cur' \in [Shell -> Ws \cup {NoWs}] /\ env' \in [Shell -> Env]
  <2>1. Exported(env[s], script[pid[s]].vars) \in Env
    BY EnvTypes, ExportedFacts DEF TypeOK
  <2> QED
    BY <1>11, <2>1, EnvTypes DEF SourceExports, TypeOK
<1>12. ASSUME NEW s \in Shell, PromptSkips(s) PROVE TypeOK'
  BY <1>12 DEF PromptSkips, TypeOK
<1>13. ASSUME NEW s \in Shell, PromptSources(s) PROVE TypeOK'
  BY <1>11, <1>13 DEF PromptSources, SourcedTime, TypeOK, Script
<1>14. ASSUME NEW s \in Shell, PromptStuck(s) PROVE TypeOK'
  BY <1>11, <1>14 DEF PromptStuck, TypeOK
<1>15. ASSUME UNCHANGED vars PROVE TypeOK'
  BY <1>15 DEF vars, TypeOK
<1> QED
  BY <1>1, <1>2, <1>3, <1>4, <1>5, <1>6, <1>7, <1>8, <1>9, <1>10, <1>12, <1>13, <1>14, <1>15
  DEF Next

-----------------------------------------------------------------------------
(* What a step of one terminal leaves alone in the others. *)
LEMMA OthersKept ==
    ASSUME IInv, NEW s \in Shell,
           Close(s) \/ Edit(s) \/ Export(s) \/ UseLoads(s) \/ Use(s) \/ UseGivesUp(s)
           \/ UseFails(s) \/ PromptSkips(s) \/ PromptSources(s) \/ PromptStuck(s)
    PROVE  /\ UNCHANGED <<pid, clock, reused>> /\ live' \in {live, live \ {s}}
           /\ \A t \in Shell \ {s} :
                 UNCHANGED <<cur[t], env[t], cached[t], due[t], loaded[t], asked[t],
                             sourcedAt[t], late[t], pending[t]>>
           /\ \A t \in live \ {s} : script'[pid[t]] = script[pid[t]]
<1> TypeOK /\ Apart
  BY DEF IInv
<1> USE DEF store, shellEnv, ghosts, CommandEnds, SourceExports, AtPrompt, Using, Prompting, ScriptPid
<1>1. CASE Use(s) \/ UseFails(s)
  <2>1. \A t \in live \ {s} : pid[t] # pid[s]
    BY <1>1 DEF Use, UseFails, Apart, TypeOK
  <2> QED
    BY <1>1, <2>1 DEF Use, UseFails, TypeOK
<1>2. CASE Close(s) \/ Edit(s) \/ Export(s) \/ UseLoads(s) \/ UseGivesUp(s)
  BY <1>2 DEF Close, Edit, Export, UseLoads, UseGivesUp, TypeOK
<1>3. CASE PromptSkips(s) \/ PromptSources(s) \/ PromptStuck(s)
  BY <1>3 DEF PromptSkips, PromptSources, PromptStuck, TypeOK
<1> QED
  BY <1>1, <1>2, <1>3

(* The parts of the invariant that speak of one terminal. *)
One(s) ==
    /\ loaded[s] # NoPromise => s \in live /\ ~due[s] /\ loaded[s].ws \in Ws
    /\ cached[s] <= sourcedAt[s] /\ sourcedAt[s] <= clock
    /\ s \in live =>
         /\ cur[s] # NoWs \/ script[pid[s]].ws # NoWs => asked[s].ws # NoWs \/ pid[s] \in reused
         /\ late[s] =>
              /\ asked[s].ws \in Ws
              /\ \/ Empty(s) /\ Kept(s)
                 \/ Promised(s) /\ (Kept(s) \/ (due[s] /\ Younger(s)))
         /\ Younger(s) => pending[s]

Global ==
    /\ \A s, t \in live : pid[s] = pid[t] => s = t
    /\ \A p \in Pid : script[p].mtime <= clock

LEMMA Parts == TypeOK => (IInv <=> Global /\ \A s \in Shell : One(s))
BY DEF IInv, TypeOK, Global, One, Apart, Times, Origin, PromiseKept, Announced

LEMMA PartsNext == TypeOK' => (IInv' <=> Global' /\ \A s \in Shell : One(s)')
BY DEF IInv, TypeOK, Global, One, Apart, Times, Origin, PromiseKept, Announced

(* A terminal of which nothing changes stays as it was. *)
LEMMA OneKept ==
    ASSUME TypeOK, NEW t \in Shell, One(t), clock <= clock', clock' \in Nat,
           UNCHANGED pid, reused \subseteq reused', t \in live' <=> t \in live,
           UNCHANGED <<cur[t], env[t], cached[t], due[t], loaded[t], asked[t],
                       sourcedAt[t], late[t], pending[t]>>,
           t \in live => UNCHANGED script[pid[t]]
    PROVE  One(t)'
<1>1. sourcedAt[t] \in Nat /\ clock \in Nat
  BY ShellAssumption DEF TypeOK
<1>2. (loaded[t] # NoPromise => t \in live /\ ~due[t] /\ loaded[t].ws \in Ws)'
  BY DEF One
<1>3. (cached[t] <= sourcedAt[t] /\ sourcedAt[t] <= clock)'
  BY <1>1 DEF One
<1>4. t \in live => UNCHANGED Empty(t) /\ UNCHANGED Promised(t) /\ UNCHANGED Kept(t) /\ UNCHANGED Younger(t)
  BY DEF Empty, Promised, Kept, Younger
<1> QED
  BY <1>2, <1>3, <1>4 DEF One

(* What sourcing a script does. *)
LEMMA Sourced ==
    ASSUME IInv, NEW s \in Shell, s \in live, SourceExports(s), UNCHANGED <<script, pid, asked>>
    PROVE  /\ Empty(s) => UNCHANGED <<cur[s], env[s]>>
           /\ Promised(s) /\ asked[s].ws \in Ws => Kept(s)'
           /\ cur'[s] # NoWs => cur[s] # NoWs \/ script[pid[s]].ws # NoWs
<1>1. script[pid[s]].vars \in Env /\ env[s] \in Env /\ asked[s].vars \in Env
  BY EnvTypes DEF IInv, TypeOK
<1>2. cur'[s] = (IF script[pid[s]].ws = NoWs THEN cur[s] ELSE script[pid[s]].ws)
  BY DEF SourceExports, IInv, TypeOK
<1>3. env'[s] = [k \in Key |-> IF script[pid[s]].vars[k] = Unset THEN env[s][k] ELSE script[pid[s]].vars[k]]
  BY DEF SourceExports, Exported, IInv, TypeOK
<1>4. ASSUME Empty(s) PROVE UNCHANGED <<cur[s], env[s]>>
  <2>1. env'[s] = [k \in Key |-> env[s][k]]
    BY <1>3, <1>4 DEF Empty, NoEnv
  <2> QED
    BY <1>1, <1>2, <1>4, <2>1 DEF Empty, Env
<1>5. ASSUME Promised(s), asked[s].ws \in Ws PROVE Kept(s)'
  BY <1>2, <1>3, <1>5, ShellAssumption DEF Promised, Kept
<1> QED
  BY <1>2, <1>4, <1>5

(* An action of a terminal keeps the parts of all, if it keeps its own. *)
LEMMA ActionInv ==
    ASSUME IInv, NEW s \in Shell, TypeOK',
           Close(s) \/ Edit(s) \/ Export(s) \/ UseLoads(s) \/ Use(s) \/ UseGivesUp(s)
           \/ UseFails(s) \/ PromptSkips(s) \/ PromptSources(s) \/ PromptStuck(s),
           One(s)', \A p \in Pid : script'[p].mtime \in {script[p].mtime, clock}
    PROVE  IInv'
<1>1. TypeOK /\ Global /\ \A t \in Shell : One(t)
  BY Parts DEF IInv
<1>2. Global'
  <2>1. clock' = clock /\ clock \in Nat /\ pid' = pid /\ live' \subseteq live
    BY <1>1, OthersKept DEF TypeOK
  <2> QED
    BY <1>1, <2>1 DEF Global
<1>3. ASSUME NEW t \in Shell \ {s} PROVE One(t)'
  <2>1. clock' = clock /\ clock \in Nat /\ reused' = reused
    BY <1>1, OthersKept DEF TypeOK
  <2> QED
    BY <1>1, <1>3, <2>1, OthersKept, OneKept
<1> QED
  BY <1>2, <1>3, PartsNext

LEMMA NextInv == IInv /\ [Next]_vars => IInv'
<1> SUFFICES ASSUME IInv, [Next]_vars PROVE IInv'
  OBVIOUS
<1>t. TypeOK'
  BY NextTypes DEF IInv
<1>p. TypeOK /\ Global /\ \A t \in Shell : One(t)
  BY Parts DEF IInv
<1>n. clock \in Nat /\ \A t \in Shell : cached[t] \in Nat /\ sourcedAt[t] \in Nat
  BY <1>p, ShellAssumption DEF TypeOK
<1> USE DEF store, shellEnv, ghosts
<1>1. ASSUME Tick PROVE IInv'
  <2>1. clock' \in Nat /\ clock <= clock'
    BY <1>1, <1>n DEF Tick
  <2>2. \A t \in Shell : One(t)'
    BY <1>1, <1>p, <2>1, OneKept DEF Tick
  <2>3. Global'
    BY <1>1, <1>n, <1>p, <2>1, EnvTypes DEF Tick, Global, TypeOK
  <2> QED
    BY <1>t, <2>2, <2>3, PartsNext
<1>2. ASSUME LoseFolder PROVE IInv'
  <2>1. \A t \in Shell : One(t)'
    BY <1>2, <1>n, <1>p, OneKept DEF LoseFolder
  <2>2. Global'
    BY <1>2, <1>p DEF LoseFolder, Global
  <2> QED
    BY <1>t, <2>1, <2>2, PartsNext
<1>3. ASSUME NEW s \in Shell, Open(s) PROVE IInv'
  <2>1. PICK p \in Pid : /\ \A t \in live : pid[t] # p
                         /\ pid' = [pid EXCEPT ![s] = p]
                         /\ reused' = IF script[p] # NoScript THEN reused \cup {p} ELSE reused
                         /\ pending' = [pending EXCEPT ![s] = script[p] # NoScript]
    BY <1>3 DEF Open
  <2>2. pid'[s] = p /\ \A t \in Shell \ {s} : pid'[t] = pid[t]
    BY <1>p, <2>1 DEF TypeOK
  <2>3. Global'
    BY <1>3, <1>p, <2>1, <2>2 DEF Open, Global, TypeOK
  <2>4. One(s)'
    <3>1. loaded[s] = NoPromise /\ s \notin live
      BY <1>3, <1>p DEF Open, One
    <3>2. cached'[s] = 0 /\ sourcedAt'[s] = 0 /\ cur'[s] = NoWs /\ late'[s] = FALSE
      BY <1>3, <1>p DEF Open, TypeOK
    <3>3. pending'[s] = (script[p] # NoScript) /\ (script[p] # NoScript => p \in reused')
      BY <1>p, <2>1 DEF TypeOK
    <3>4. UNCHANGED <<script, loaded, clock>>
      BY <1>3 DEF Open
    <3>5. script[p].ws # NoWs \/ script[p].mtime > 0 => script[p] # NoScript
      BY DEF NoScript
    <3>6. Younger(s)' => pending'[s]
      BY <2>2, <3>2, <3>3, <3>4, <3>5 DEF Younger
    <3>7. cur'[s] # NoWs \/ script'[pid'[s]].ws # NoWs => pid'[s] \in reused'
      BY <2>2, <3>2, <3>3, <3>4, <3>5
    <3> QED
      BY <1>n, <3>1, <3>2, <3>4, <3>6, <3>7 DEF One
  <2>5. ASSUME NEW t \in Shell \ {s} PROVE One(t)'
    <3>1. UNCHANGED <<cur[t], env[t], cached[t], due[t], loaded[t], asked[t], sourcedAt[t],
                      late[t], pending[t], pid[t]>>
      BY <1>3, <1>p, <2>1, <2>2 DEF Open, TypeOK
    <3>2. UNCHANGED <<script, clock>> /\ reused \subseteq reused' /\ (t \in live' <=> t \in live)
      BY <1>3, <2>1 DEF Open
    <3> QED
      BY <1>p, <3>1, <3>2 DEF One, Empty, Promised, Kept, Younger
  <2> QED
    BY <1>t, <2>3, <2>4, <2>5, PartsNext
<1>4. ASSUME NEW s \in Shell, Close(s) PROVE IInv'
  <2>1. One(s)'
    BY <1>4, <1>p DEF Close, AtPrompt, One
  <2> QED
    BY <1>4, <1>t, <2>1, ActionInv DEF Close
<1>5. ASSUME NEW s \in Shell, Edit(s) PROVE IInv'
  <2>1. One(s)'
    BY <1>5, <1>p DEF Edit, CommandEnds, AtPrompt, One, Empty, Promised, Kept, Younger, TypeOK
  <2> QED
    BY <1>5, <1>t, <2>1, ActionInv DEF Edit
<1>6. ASSUME NEW s \in Shell, Export(s) PROVE IInv'
  <2>1. One(s)'
    BY <1>6, <1>p DEF Export, CommandEnds, AtPrompt, One, Younger, TypeOK
  <2> QED
    BY <1>6, <1>t, <2>1, ActionInv DEF Export
<1>7. ASSUME NEW s \in Shell, UseLoads(s) PROVE IInv'
  <2>1. One(s)'
    <3>1. s \in live /\ ~due[s] /\ loaded'[s].ws \in Ws
      BY <1>7, <1>p DEF UseLoads, AtPrompt, TypeOK
    <3> QED
      BY <1>7, <1>p, <3>1 DEF UseLoads, One, Empty, Promised, Kept, Younger
  <2> QED
    BY <1>7, <1>t, <2>1, ActionInv DEF UseLoads
<1>8. ASSUME NEW s \in Shell, UseGivesUp(s) PROVE IInv'
  <2>1. One(s)'
    BY <1>8, <1>p DEF UseGivesUp, Using, CommandEnds, One, Empty, Promised, Kept, Younger, TypeOK
  <2> QED
    BY <1>8, <1>t, <2>1, ActionInv DEF UseGivesUp
<1>9. ASSUME NEW s \in Shell, Use(s) PROVE IInv'
  <2>1. /\ loaded[s].ws \in Ws /\ s \in live /\ ~due[s]
        /\ cached[s] <= sourcedAt[s] /\ sourcedAt[s] <= clock
    BY <1>9, <1>p DEF Use, Using, One
  <2>2. script'[pid[s]] = [ws |-> loaded[s].ws, vars |-> loaded[s].vars, mtime |-> clock]
    BY <1>9, <1>p DEF Use, ScriptPid, TypeOK
  <2>3. /\ asked'[s] = loaded[s] /\ loaded'[s] = NoPromise /\ due'[s] = TRUE /\ pending'[s] = TRUE
        /\ late'[s] = (clock > sourcedAt[s])
    BY <1>9, <1>p DEF Use, CommandEnds, TypeOK
  <2>4. UNCHANGED <<clock, live, pid, cur, env, cached, sourcedAt, reused>>
    BY <1>9 DEF Use
  <2>5. Promised(s)' /\ (clock > sourcedAt[s] => Younger(s)')
    BY <1>n, <2>1, <2>2, <2>3, <2>4 DEF Promised, Younger
  <2>6. One(s)'
    BY <1>n, <2>1, <2>2, <2>3, <2>4, <2>5, ShellAssumption DEF One
  <2>7. \A p \in Pid : script'[p].mtime \in {script[p].mtime, clock}
    BY <1>9, <1>p DEF Use, TypeOK
  <2> QED
    BY <1>9, <1>t, <2>6, <2>7, ActionInv
<1>10. ASSUME NEW s \in Shell, UseFails(s) PROVE IInv'
  <2>1. s \in live /\ ~due[s] /\ cached[s] <= sourcedAt[s] /\ sourcedAt[s] <= clock
    BY <1>10, <1>p DEF UseFails, Using, One
  <2>2. script'[pid[s]].ws = NoWs /\ script'[pid[s]].vars = NoEnv
    BY <1>10, <1>p DEF UseFails, ScriptPid, NoScript, TypeOK
  <2>3. loaded'[s] = NoPromise /\ due'[s] = TRUE /\ pending'[s] = TRUE
    BY <1>10, <1>p DEF UseFails, CommandEnds, TypeOK
  <2>4. UNCHANGED <<clock, live, pid, cur, env, cached, asked, sourcedAt, late, reused>>
    BY <1>10 DEF UseFails
  <2>5. Empty(s)' /\ (Kept(s) <=> Kept(s)')
    BY <2>2, <2>4 DEF Empty, Kept
  <2>6. One(s)'
    BY <1>p, <2>1, <2>2, <2>3, <2>4, <2>5 DEF One
  <2>7. \A p \in Pid : script'[p].mtime \in {script[p].mtime, clock}
    BY <1>10, <1>p DEF UseFails, NoScript, TypeOK
  <2> QED
    BY <1>10, <1>t, <2>6, <2>7, ActionInv
<1>11. ASSUME NEW s \in Shell, PromptSkips(s) PROVE IInv'
  <2>1. One(s)'
    BY <1>11, <1>p DEF PromptSkips, Prompting, One, Empty, Promised, Kept, Younger, TypeOK
  <2> QED
    BY <1>11, <1>t, <2>1, ActionInv DEF PromptSkips
<1>12. ASSUME NEW s \in Shell, PromptSources(s) PROVE IInv'
  <2>1. s \in live /\ due[s] /\ loaded[s] = NoPromise
    BY <1>12, <1>p DEF PromptSources, Prompting, One
  <2>2. UNCHANGED <<script, pid, asked, live, loaded, late, reused, clock>> /\ SourceExports(s)
    BY <1>12 DEF PromptSources
  <2>3. cached'[s] = script[pid[s]].mtime /\ sourcedAt'[s] = clock
    BY <1>12, <1>p DEF PromptSources, SourcedTime, TypeOK
  <2>4. script[pid[s]].mtime <= clock /\ script[pid[s]].mtime \in Nat
    BY <1>p, EnvTypes DEF Global, TypeOK
  <2>5. ~Younger(s)'
    BY <2>2, <2>3, <2>4 DEF Younger
  <2>6. late[s] => asked[s].ws \in Ws /\ Kept(s)' /\ (Empty(s)' \/ Promised(s)')
    <3>1. CASE Empty(s) /\ Kept(s)
      BY <1>p, <2>1, <2>2, <3>1, Sourced DEF One, Kept, Empty
    <3>2. CASE Promised(s)
      BY <1>p, <2>1, <2>2, <3>2, Sourced DEF One, Promised
    <3> QED
      BY <1>p, <2>1, <3>1, <3>2 DEF One
  <2>7. One(s)'
    BY <1>n, <1>p, <2>1, <2>2, <2>3, <2>4, <2>5, <2>6, Sourced DEF One
  <2> QED
    BY <1>12, <1>t, <2>2, <2>7, ActionInv
<1>13. ASSUME NEW s \in Shell, PromptStuck(s) PROVE IInv'
  <2>1. s \in live /\ due[s] /\ loaded[s] = NoPromise
    BY <1>13, <1>p DEF PromptStuck, Prompting, One
  <2>2. /\ UNCHANGED <<script, pid, asked, loaded, late, reused, clock, cached, sourcedAt, due, pending>>
        /\ SourceExports(s)
    BY <1>13 DEF PromptStuck
  <2>3. Younger(s)' <=> Younger(s)
    BY <2>2 DEF Younger
  <2>4. late[s] => asked[s].ws \in Ws /\ Kept(s)' /\ (Empty(s)' \/ Promised(s)')
    <3>1. CASE Empty(s) /\ Kept(s)
      BY <1>p, <2>1, <2>2, <3>1, Sourced DEF One, Kept, Empty
    <3>2. CASE Promised(s)
      BY <1>p, <2>1, <2>2, <3>2, Sourced DEF One, Promised
    <3> QED
      BY <1>p, <2>1, <3>1, <3>2 DEF One
  <2>5. One(s)'
    BY <1>n, <1>p, <2>1, <2>2, <2>3, <2>4, Sourced DEF One
  <2> QED
    BY <1>13, <1>t, <2>2, <2>5, ActionInv
<1>14. ASSUME UNCHANGED vars PROVE IInv'
  <2>1. \A t \in Shell : One(t)'
    BY <1>14, <1>n, <1>p, OneKept DEF vars
  <2>2. Global'
    BY <1>14, <1>p DEF vars, Global
  <2> QED
    BY <1>t, <2>1, <2>2, PartsNext
<1> QED
  BY <1>1, <1>2, <1>3, <1>4, <1>5, <1>6, <1>7, <1>8, <1>9, <1>10, <1>11, <1>12, <1>13, <1>14
  DEF Next

LEMMA Invariant == Spec => []IInv
BY InitInv, NextInv, PTL DEF Spec

-----------------------------------------------------------------------------
(* What was given to a terminal is in its environment, or in a script that *)
(* its next prompt will source; at a prompt no script is left to source.   *)
Traced(s) ==
    /\ ~due[s] => ~Younger(s)
    /\ trail[s] = IF Younger(s) THEN Exported(env[s], script[pid[s]].vars) ELSE env[s]

TraceInv ==
    /\ clock # 0
    /\ \A p \in Pid : script[p].mtime = 0 => script[p].vars = NoEnv
    /\ \A s \in live : Traced(s)

(* A step of one terminal does not touch the trace of another. *)
LEMMA TraceOfOthers ==
    ASSUME IInv, NEW s \in Shell, NEW t \in live \ {s}, Traced(t),
           Close(s) \/ Edit(s) \/ Export(s) \/ UseLoads(s) \/ Use(s) \/ UseGivesUp(s)
           \/ UseFails(s) \/ PromptSkips(s) \/ PromptSources(s) \/ PromptStuck(s)
    PROVE  Traced(t)'
<1>1. t \in Shell /\ t # s
  BY DEF IInv, TypeOK
<1>2. UNCHANGED <<pid, env[t], cached[t], due[t], script[pid[t]]>>
  BY <1>1, OthersKept
<1>3. trail'[t] = trail[t]
  <2>1. CASE Use(s) \/ Export(s)
    BY <1>1, <2>1 DEF Use, Export, IInv, TypeOK
  <2>2. CASE ~(Use(s) \/ Export(s))
    BY <2>2 DEF Close, Edit, UseLoads, UseGivesUp, UseFails, PromptSkips, PromptSources,
       PromptStuck, ghosts
  <2> QED
    BY <2>1, <2>2
<1> QED
  BY <1>2, <1>3 DEF Traced, Younger

LEMMA TraceStep ==
    ASSUME IInv, TraceInv, [Next]_vars
    PROVE  TraceInv'
<1>t. TypeOK /\ Apart
  BY DEF IInv
<1>n. /\ clock \in Nat /\ clock # 0
      /\ \A s \in Shell : cached[s] \in Nat /\ cached[s] <= clock
      /\ \A p \in Pid : script[p].mtime \in Nat /\ script[p].mtime <= clock
                          /\ script[p].vars \in Env
  BY EnvTypes, ShellAssumption DEF IInv, TypeOK, Times, TraceInv
<1> USE DEF store, shellEnv, ghosts
<1>1. CASE Tick \/ LoseFolder \/ UNCHANGED vars
  <2>1. UNCHANGED <<script, live, pid, env, cached, due, trail>> /\ clock' \in {clock, clock + 1}
    BY <1>1 DEF Tick, LoseFolder, vars
  <2> QED
    BY <1>n, <2>1 DEF TraceInv, Traced, Younger
<1>2. ASSUME NEW s \in Shell, Open(s) PROVE TraceInv'
  <2>1. PICK p \in Pid : /\ \A t \in live : pid[t] # p
                         /\ pid' = [pid EXCEPT ![s] = p]
                         /\ trail' = [trail EXCEPT ![s] = script[p].vars]
    BY <1>2 DEF Open
  <2>2. /\ UNCHANGED <<script, clock>> /\ s \notin live /\ live' = live \cup {s}
        /\ pid'[s] = p /\ trail'[s] = script[p].vars
        /\ cached'[s] = 0 /\ env'[s] = NoEnv /\ due'[s] = TRUE
    BY <1>2, <1>t, <2>1 DEF Open, TypeOK
  <2>3. \A t \in live : UNCHANGED <<pid[t], env[t], cached[t], due[t], trail[t]>>
    BY <1>2, <1>t, <2>1 DEF Open, TypeOK
  <2>4. Younger(s)' <=> script[p].mtime # 0
    BY <1>n, <2>2 DEF Younger
  <2>5. trail'[s] = IF Younger(s)' THEN Exported(env[s], script[pid[s]].vars)' ELSE env'[s]
    BY <1>n, <2>2, <2>4, ExportedFacts, EnvTypes DEF TraceInv
  <2> QED
    BY <2>2, <2>3, <2>5 DEF TraceInv, Traced, Younger
<1>3. ASSUME NEW s \in Shell,
             Close(s) \/ Edit(s) \/ Export(s) \/ UseLoads(s) \/ Use(s) \/ UseGivesUp(s)
             \/ UseFails(s) \/ PromptSkips(s) \/ PromptSources(s) \/ PromptStuck(s),
             s \in live' => Traced(s)',
             \A p \in Pid : script'[p].mtime = 0 => script'[p].vars = NoEnv
      PROVE  TraceInv'
  <2>1. clock' = clock /\ live' \in {live, live \ {s}}
    BY <1>3, OthersKept
  <2>2. \A t \in live \ {s} : Traced(t)'
    BY <1>3, TraceOfOthers DEF TraceInv
  <2> QED
    BY <1>3, <1>n, <2>1, <2>2 DEF TraceInv
<1>4. ASSUME NEW s \in Shell, Close(s) PROVE TraceInv'
  BY <1>3, <1>4 DEF Close, TraceInv
<1>5. ASSUME NEW s \in Shell, Edit(s) \/ UseLoads(s) \/ UseGivesUp(s) PROVE TraceInv'
  <2>1. UNCHANGED <<script, live, pid, env, cached, trail>> /\ due'[s] \in {due[s], TRUE}
    BY <1>5, <1>t DEF Edit, UseLoads, UseGivesUp, CommandEnds, TypeOK
  <2>2. s \in live => Traced(s)'
    BY <2>1 DEF TraceInv, Traced, Younger
  <2> QED
    BY <1>3, <1>5, <2>1, <2>2 DEF TraceInv
<1>6. ASSUME NEW s \in Shell, Export(s) PROVE TraceInv'
  <2>1. PICK k \in Key, v \in Val : /\ env' = [env EXCEPT ![s][k] = v]
                                    /\ trail' = [trail EXCEPT ![s][k] = v]
    BY <1>6 DEF Export
  <2>2. UNCHANGED <<script, live, pid, cached>> /\ s \in live /\ ~due[s] /\ due'[s] = TRUE
    BY <1>6, <1>t DEF Export, AtPrompt, CommandEnds, TypeOK
  <2>3. ~Younger(s) /\ env[s] = trail[s]
    BY <2>2 DEF TraceInv, Traced
  <2>4. env'[s] = trail'[s]
    BY <1>t, <2>1, <2>3 DEF TypeOK
  <2>5. Traced(s)'
    BY <2>2, <2>3, <2>4 DEF Traced, Younger
  <2> QED
    BY <1>3, <1>6, <2>2, <2>5 DEF TraceInv
<1>7. ASSUME NEW s \in Shell, Use(s) PROVE TraceInv'
  <2>1. /\ s \in live /\ ~due[s]
        /\ script' = [script EXCEPT ![pid[s]] =
                        [ws |-> loaded[s].ws, vars |-> loaded[s].vars, mtime |-> clock]]
        /\ trail'[s] = IF clock > cached[s] THEN Exported(trail[s], loaded[s].vars) ELSE trail[s]
        /\ UNCHANGED <<live, pid, env, cached>> /\ due'[s] = TRUE
    BY <1>7, <1>t DEF Use, ScriptPid, Using, CommandEnds, TypeOK, Apart
  <2>2. script'[pid[s]].mtime = clock /\ script'[pid[s]].vars = loaded[s].vars
    BY <1>t, <2>1 DEF TypeOK
  <2>3. env[s] = trail[s]
    BY <2>1 DEF TraceInv, Traced
  <2>4. Younger(s)' <=> clock > cached[s]
    BY <2>1, <2>2 DEF Younger
  <2>5. Traced(s)'
    BY <2>1, <2>2, <2>3, <2>4 DEF Traced
  <2>6. \A p \in Pid : script'[p].mtime = 0 => script'[p].vars = NoEnv
    BY <1>n, <1>t, <2>1 DEF TraceInv, TypeOK
  <2> QED
    BY <1>3, <1>7, <2>5, <2>6
<1>8. ASSUME NEW s \in Shell, UseFails(s) PROVE TraceInv'
  <2>1. /\ s \in live /\ ~due[s]
        /\ script' = [script EXCEPT ![pid[s]] = [NoScript EXCEPT !.mtime = clock]]
        /\ UNCHANGED <<live, pid, env, cached, trail>> /\ due'[s] = TRUE
    BY <1>8, <1>t DEF UseFails, ScriptPid, Using, CommandEnds, TypeOK, Apart
  <2>2. script'[pid[s]].vars = NoEnv
    BY <1>t, <2>1 DEF TypeOK, NoScript
  <2>3. env[s] = trail[s] /\ env[s] \in Env
    BY <1>t, <2>1 DEF TraceInv, Traced, TypeOK
  <2>4. Traced(s)'
    BY <2>1, <2>2, <2>3, ExportedFacts DEF Traced
  <2>5. \A p \in Pid : script'[p].mtime = 0 => script'[p].vars = NoEnv
    BY <1>n, <1>t, <2>1, <2>2 DEF TraceInv, TypeOK
  <2> QED
    BY <1>3, <1>8, <2>4, <2>5
<1>9. ASSUME NEW s \in Shell, PromptSkips(s) PROVE TraceInv'
  <2>1. UNCHANGED <<script, live, pid, env, cached, trail>> /\ s \in live /\ ~Younger(s)
    BY <1>9 DEF PromptSkips, Prompting
  <2>2. Traced(s)'
    BY <2>1 DEF TraceInv, Traced, Younger
  <2> QED
    BY <1>3, <1>9, <2>1, <2>2 DEF TraceInv
<1>10. ASSUME NEW s \in Shell, PromptSources(s) PROVE TraceInv'
  <2>1. /\ s \in live /\ Younger(s) /\ UNCHANGED <<script, live, pid, trail>>
        /\ cached'[s] = script[pid[s]].mtime
        /\ env'[s] = Exported(env[s], script[pid[s]].vars)
    BY <1>10, <1>t DEF PromptSources, Prompting, SourceExports, SourcedTime, TypeOK
  <2>2. ~Younger(s)'
    BY <1>n, <1>t, <2>1 DEF Younger, TypeOK
  <2>3. Traced(s)'
    BY <2>1, <2>2 DEF TraceInv, Traced
  <2> QED
    BY <1>3, <1>10, <2>1, <2>3 DEF TraceInv
<1>11. ASSUME NEW s \in Shell, PromptStuck(s) PROVE TraceInv'
  <2>1. /\ s \in live /\ due[s] /\ Younger(s) /\ UNCHANGED <<script, pid, cached, due, trail>>
        /\ env'[s] = Exported(env[s], script[pid[s]].vars)
    BY <1>11, <1>t DEF PromptStuck, Prompting, SourceExports, TypeOK
  <2>2. script[pid[s]].vars \in Env /\ env[s] \in Env
    BY <1>n, <1>t DEF TypeOK
  <2>3. Younger(s)' /\ Exported(env[s], script[pid[s]].vars)' = Exported(env[s], script[pid[s]].vars)
    BY <2>1, <2>2, ExportedFacts DEF Younger
  <2>4. Traced(s)'
    BY <2>1, <2>3 DEF TraceInv, Traced
  <2> QED
    BY <1>3, <1>11, <2>1, <2>4 DEF TraceInv
<1> QED
  BY <1>1, <1>2, <1>4, <1>5, <1>6, <1>7, <1>8, <1>9, <1>10, <1>11 DEF Next

-----------------------------------------------------------------------------
(* The types are kept. *)
THEOREM TypeCorrect == Spec => []TypeOK
<1>1. IInv => TypeOK
  BY DEF IInv
<1> QED
  BY Invariant, <1>1, PTL

(* A use in a later second than the last sourcing is in force at the next  *)
(* prompt and stays so, whatever the other terminals do, however often a   *)
(* later use fails.                                                        *)
THEOREM LaterUseWorks == Spec => []LaterUseTakesEffect
<1>1. IInv => LaterUseTakesEffect
  BY DEF IInv, PromiseKept, LaterUseTakesEffect, AtPrompt
<1> QED
  BY Invariant, <1>1, PTL

(* No terminal gets the workspace of another one that is open. *)
THEOREM WorkspacesAreOwn == Spec => []OwnWorkspaceOnly
<1>1. IInv => OwnWorkspaceOnly
  BY DEF IInv, Origin, OwnWorkspaceOnly
<1> QED
  BY Invariant, <1>1, PTL

(* At a prompt the variables of a terminal are what it found, exported and *)
(* used, in that order, and nothing else.                                  *)
THEOREM VariablesTraced == Spec => []VariablesAccountedFor
<1>1. Init => TraceInv
  BY DEF Init, TraceInv, NoScript
<1>2. IInv /\ TraceInv /\ [Next]_vars => TraceInv'
  BY TraceStep
<1>3. TraceInv => VariablesAccountedFor
  BY DEF TraceInv, Traced, VariablesAccountedFor, AtPrompt
<1> QED
  BY Invariant, <1>1, <1>2, <1>3, PTL DEF Spec

(* A prompt without a new script leaves the variables alone. *)
THEOREM PromptsKeepExports == Spec => ExportsSurvivePrompts
<1>1. ASSUME IInv, Next, NEW s \in Shell, Prompting(s), ~pending[s] PROVE env'[s] = env[s]
  <2>1. ~Younger(s) /\ s \in live /\ due[s]
    BY <1>1 DEF IInv, Announced, Prompting
  <2>2. ASSUME NEW t \in Shell, SourceExports(t), t # s PROVE env'[s] = env[s]
    BY <1>1, <2>2 DEF SourceExports, IInv, TypeOK
  <2>3. CASE Tick \/ LoseFolder
    BY <2>3 DEF Tick, LoseFolder, shellEnv
  <2>4. ASSUME NEW t \in Shell, Open(t) \/ Export(t) PROVE env'[s] = env[s]
    BY <1>1, <2>1, <2>4 DEF Open, Export, AtPrompt, IInv, TypeOK
  <2>5. ASSUME NEW t \in Shell, Close(t) \/ Edit(t) \/ UseLoads(t) \/ Use(t) \/ UseGivesUp(t)
                                \/ UseFails(t) \/ PromptSkips(t)
        PROVE  env'[s] = env[s]
    BY <2>5 DEF Close, Edit, UseLoads, Use, UseGivesUp, UseFails, PromptSkips, shellEnv
  <2>6. ASSUME NEW t \in Shell, PromptSources(t) \/ PromptStuck(t) PROVE env'[s] = env[s]
    BY <2>1, <2>2, <2>6 DEF PromptSources, PromptStuck
  <2> QED
    BY <1>1, <2>3, <2>4, <2>5, <2>6 DEF Next
<1>2. IInv /\ [Next]_vars => [\A s \in Shell : Prompting(s) /\ ~pending[s] => env'[s] = env[s]]_vars
  BY <1>1
<1> QED
  BY Invariant, <1>2, PTL DEF Spec, ExportsSurvivePrompts

=============================================================================

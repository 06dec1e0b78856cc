-------------------------- MODULE PluginSystemProofs --------------------------
(* Theorems about the plugin system, for every set of registered commands   *)
(* and verbs and every version.                                             *)
EXTENDS PluginDispatch, TLAPS

(* A caret range holds the versions that are not older and agree in the    *)
(* first number that is not 0, or in the second one.                       *)
LEMMA CaretRange ==
    ASSUME NEW p \in Version, NEW v \in Version
    PROVE  Satisfies(p, v) <=> /\ ~Less(p, v)
                               /\ v.major = p.major
                               /\ p.major = 0 => v.minor = p.minor
BY DEF Satisfies, Less, UpperBound, Version

Pcs == {"mute", "parse", "load", "final", "main", "exit"}

(* The types an argument needs. *)
ArgsOK ==
    /\ args.help \in {0, 1, 2, 3}
    /\ \A l \in Level : Name(l) \in Group(l) \cup {NoName, Unknown}
    /\ Name(1) \notin Command \ Alias => Name(2) = NoName
    /\ args.help = 2 => Name(1) # NoName

StateOK ==
    /\ state \in [Extension -> {"untried", "loaded", "broken"}]
    /\ asks \in [Extension -> Versions \cup {Point}]
    /\ level \in Level /\ pc \in Pcs
    /\ todo \subseteq Group(level) /\ live \subseteq Extension
    /\ muted \subseteq {1, 2, 3} /\ listed \in [Level -> SUBSET (Command \cup Verb)]
    /\ shown \subseteq {1, 2, 3}
    /\ exit \in {"none", "success", "usage", "failure", "interrupted", "traceback"}
    /\ main \in {"ok", "KeyboardInterrupt", "RuntimeError", "exception"}
    /\ args \in {a \in Arguments : CommandLine(a)}

(* What is known of an extension when it has been tried, and what has been *)
(* tried at each step.                                                     *)
LiveOK ==
    /\ \A x \in Extension : x \in live <=> Usable(x)
    /\ \A n \in todo : state[<<level, n>>] = "untried"
    /\ level = 1 => \A n \in Verb : state[<<2, n>>] = "untried"
    /\ pc \in {"mute", "parse"} => \A n \in Group(level) : state[<<level, n>>] = "untried"
    /\ pc = "load" /\ Selected(level) => \A n \in todo : n = Name(level)
    /\ pc = "load" /\ Selected(level) =>
          Name(level) \in Group(level)
          /\ (Name(level) \in todo \/ state[<<level, Name(level)>>] # "untried")

IInv == StateOK /\ LiveOK /\ OnlySelectedLoaded

-----------------------------------------------------------------------------
LEMMA ArgsTypes == args \in {a \in Arguments : CommandLine(a)} => ArgsOK
BY DEF ArgsOK, Arguments, CommandLine, Name, Group, Level

(* The initial states satisfy the invariant. *)
LEMMA InitInv == Init => IInv
BY PluginAssumption
DEF Init, IInv, StateOK, LiveOK, OnlySelectedLoaded, Usable, Pcs, Level, Group, Extension

(* Every step keeps the types. *)
LEMMA NextState == IInv /\ [Next]_vars => StateOK'
<1> SUFFICES ASSUME IInv, [Next]_vars PROVE StateOK'
  OBVIOUS
<1> ArgsOK /\ StateOK
  BY ArgsTypes DEF IInv, StateOK
<1> USE PluginAssumption DEF StateOK, Pcs, Level, Exit, Help, input, plugins, progress
<1>1. ASSUME Mute PROVE StateOK'
  BY <1>1 DEF Mute, Group
<1>2. ASSUME Parse PROVE StateOK'
  <2>1. todo' \subseteq Group(level)
    BY <1>2 DEF Parse, Needed, Invalid, Selected, ArgsOK
  <2>2. (\A l \in shown' : l \in shown \/ l = 1) /\ muted' = {}
    BY <1>2 DEF Parse, Unmute
  <2>3. pc' \in {"load", "exit"} /\ exit' \in {"none", "success", "usage"} \cup {exit}
    BY <1>2 DEF Parse
  <2>4. UNCHANGED <<args, main, state, asks, live, level, listed>>
    BY <1>2 DEF Parse
  <2>5. shown' \subseteq {1, 2, 3} /\ muted' \subseteq {1, 2, 3}
    BY <2>2
  <2> QED
    BY <2>1, <2>3, <2>4, <2>5 DEF Group
<1>3. ASSUME NEW n \in Command \cup Verb, Load(n) PROVE StateOK'
  <2>1. <<level, n>> \in Extension
    BY <1>3 DEF Load, Group, Extension
  <2> QED
    BY <1>3, <2>1 DEF Load, Outcome, Group
<1>4. ASSUME List PROVE StateOK'
  <2>1. listed' \in [Level -> SUBSET (Command \cup Verb)]
    <3>1. \A h : Alive(level) \ h \in SUBSET (Command \cup Verb)
      BY DEF Alive, Group
    <3>2. CASE UNCHANGED listed
      BY <3>2
    <3>3. CASE \E h : listed' = [listed EXCEPT ![level] = Alive(level) \ h]
      BY <3>1, <3>3
    <3> QED
      BY <1>4, <3>2, <3>3 DEF List
  <2> QED
    BY <1>4, <2>1 DEF List, Loaded, Group
<1>5. ASSUME Select PROVE StateOK'
  BY <1>5 DEF Select, Loaded, Group
<1>6. ASSUME Final PROVE StateOK'
  <2>1. \A l \in shown' : l \in shown \/ (l = args.help /\ l # 0)
    BY <1>6 DEF Final
  <2>2. pc' \in {"main", "exit"} /\ exit' \in {"none", "success", "usage"} \cup {exit}
    BY <1>6 DEF Final
  <2>3. UNCHANGED <<args, main, state, asks, live, level, todo, listed, muted>>
    BY <1>6 DEF Final
  <2>4. shown' \subseteq {1, 2, 3}
    BY <2>1 DEF ArgsOK
  <2> QED
    BY <2>2, <2>3, <2>4 DEF Group
<1>7. ASSUME Main PROVE StateOK'
  BY <1>7 DEF Main, NoVerb, Group
<1>8. ASSUME UNCHANGED vars PROVE StateOK'
  BY <1>8 DEF vars, Group
<1> QED
  BY <1>1, <1>2, <1>3, <1>4, <1>5, <1>6, <1>7, <1>8 DEF Next, Ended

(* Every step keeps what is known of the extensions. *)
LEMMA NextLive == IInv /\ [Next]_vars => (LiveOK /\ OnlySelectedLoaded)'
<1> SUFFICES ASSUME IInv, [Next]_vars PROVE (LiveOK /\ OnlySelectedLoaded)'
  OBVIOUS
<1> ArgsOK /\ StateOK /\ LiveOK /\ OnlySelectedLoaded
  BY ArgsTypes DEF IInv, StateOK
<1> USE DEF Exit, Help, input, plugins, progress, Level
<1>1. ASSUME Mute PROVE (LiveOK /\ OnlySelectedLoaded)'
  BY <1>1 DEF Mute, LiveOK, OnlySelectedLoaded, Usable, Group, Name, Selected
<1>2. ASSUME Parse PROVE (LiveOK /\ OnlySelectedLoaded)'
  <2>1. todo' \subseteq Group(level) \/ todo' = todo
    BY <1>2 DEF Parse, Needed, Invalid, Selected, ArgsOK, StateOK
  <2>2. UNCHANGED <<args, state, asks, live, level, main>>
    BY <1>2 DEF Parse
  <2>3. pc' = "load" /\ Selected(level) => todo' = {Name(level)} /\ Name(level) \in Group(level)
    BY <1>2 DEF Parse, Needed, Invalid, Selected, ArgsOK, StateOK
  <2>4. \A n \in Group(level) : state[<<level, n>>] = "untried"
    BY <1>2 DEF Parse, LiveOK
  <2>5. pc' \in {"exit", "load"}
    BY <1>2 DEF Parse
  <2>6. OnlySelectedLoaded'
    BY <2>2 DEF OnlySelectedLoaded, Name, Selected
  <2> QED
    BY <2>1, <2>2, <2>3, <2>4, <2>5, <2>6 DEF LiveOK, Usable, Group, Name, Selected
<1>3. ASSUME NEW n \in Command \cup Verb, Load(n) PROVE (LiveOK /\ OnlySelectedLoaded)'
  <2> DEFINE x == <<level, n>>
  <2>1. n \in Group(level) /\ x \in Extension /\ x \notin live
    BY <1>3 DEF Load, StateOK, LiveOK, Group, Extension, Usable
  <2>2. PICK v \in Versions, how \in {"loaded", "broken"} :
           /\ state' = [state EXCEPT ![x] = how] /\ asks' = [asks EXCEPT ![x] = v]
           /\ live' = IF how = "loaded" /\ Satisfies(Point, v) THEN live \cup {x} ELSE live
    BY <1>3 DEF Load, Outcome
  <2>3. UNCHANGED <<args, level, pc>> /\ todo' = todo \ {n} /\ pc = "load"
    BY <1>3 DEF Load
  <2>4. state' [x] = how /\ asks'[x] = v
    BY <2>1, <2>2 DEF StateOK
  <2>5. \A y \in Extension \ {x} : state'[y] = state[y] /\ asks'[y] = asks[y] /\ (y \in live' <=> y \in live)
    BY <2>2 DEF StateOK
  <2>6. \A y \in Extension : y \in live' <=> Usable(y)'
    <3>1. CASE how = "loaded" /\ Satisfies(Point, v)
      <4>1. state'[x] = "loaded" /\ Satisfies(Point, asks'[x])
        BY <2>4, <3>1
      <4>2. live' = live \cup {x}
        BY <2>2, <3>1
      <4> QED
        BY <2>5, <4>1, <4>2 DEF LiveOK, Usable
    <3>2. CASE ~(how = "loaded" /\ Satisfies(Point, v))
      <4>1. ~(state'[x] = "loaded" /\ Satisfies(Point, asks'[x]))
        BY <2>4, <3>2
      <4>2. live' = live
        BY <2>2, <3>2
      <4> QED
        BY <2>1, <2>5, <4>1, <4>2 DEF LiveOK, Usable
    <3> QED
      BY <3>1, <3>2
  <2>7. \A m \in Group(level) \ {n} : <<level, m>> \in Extension \ {x}
    BY DEF Group, Extension, StateOK
  <2>8. \A m \in todo' : state'[<<level, m>>] = "untried"
    BY <2>3, <2>5, <2>7 DEF LiveOK, StateOK
  <2>9. level = 1 => \A m \in Verb : state'[<<2, m>>] = "untried"
    <3>1. \A m \in Verb : <<2, m>> \in Extension /\ (level = 1 => <<2, m>> # x)
      BY DEF Extension
    <3> QED
      BY <2>5, <3>1 DEF LiveOK
  <2>10. Selected(level) => n = Name(level)
    BY <1>3, <2>3 DEF Load, LiveOK
  <2>11. OnlySelectedLoaded'
    <3> SUFFICES ASSUME NEW y \in Extension, Selected(y[1]), y[2] # Name(y[1])
                 PROVE state'[y] = "untried"
      BY <2>3 DEF OnlySelectedLoaded, Selected, Name
    <3>1. y # x
      BY <2>10
    <3> QED
      BY <3>1, <2>5 DEF OnlySelectedLoaded
  <2>12. Name(level) \in Group(level) /\ Name(level) # n => state'[<<level, Name(level)>>] = state[<<level, Name(level)>>]
    BY <2>5, <2>7
  <2>13. LiveOK'
    BY <2>1, <2>3, <2>4, <2>6, <2>8, <2>9, <2>10, <2>12 DEF LiveOK, Name, Selected, Group
  <2> QED
    BY <2>11, <2>13
<1>4. ASSUME List \/ Select PROVE (LiveOK /\ OnlySelectedLoaded)'
  <2>1. UNCHANGED <<args, state, asks, live, todo>> /\ todo = {}
    BY <1>4 DEF List, Select, Loaded
  <2>2. level' = level \/ (level = 1 /\ level' = 2)
    BY <1>4 DEF List, Select
  <2>3. pc' \in {"exit", "final"} \/ (pc' = "mute" /\ level = 1 /\ level' = 2)
    BY <1>4 DEF List, Select
  <2> QED
    BY <2>1, <2>2, <2>3 DEF LiveOK, OnlySelectedLoaded, Usable, Group, Name, Selected
<1>5. ASSUME Final \/ Main PROVE (LiveOK /\ OnlySelectedLoaded)'
  <2>1. UNCHANGED <<args, state, asks, live, todo, level>> /\ pc' \in {"exit", "main"}
    BY <1>5 DEF Final, Main, NoVerb
  <2> QED
    BY <2>1 DEF LiveOK, OnlySelectedLoaded, Usable, Group, Name, Selected
<1>6. ASSUME UNCHANGED vars PROVE (LiveOK /\ OnlySelectedLoaded)'
  BY <1>6 DEF vars, LiveOK, OnlySelectedLoaded, Usable, Group, Name, Selected
<1> QED
  BY <1>1, <1>2, <1>3, <1>4, <1>5, <1>6 DEF Next, Ended

(* How far a run has come: nothing is shown, run or decided before the     *)
(* end, help is not muted once the parsers are there, and behind the last  *)
(* level everything selected has an instance.                              *)
Course ==
    /\ pc # "exit" => shown = {} /\ ran = {} /\ exit = "none"
    /\ pc = "parse" /\ level = 1 => 1 \in muted
    /\ pc \in {"load", "final", "main"} => muted = {}
    /\ pc = "main" => args.help = 0 /\ args.good
    /\ level = 2 => Selected(1) /\ Name(1) \notin Alias
    /\ pc \in {"final", "main"} /\ Selected(level) =>
          level = Last /\ <<level, Name(level)>> \in live

(* The end of a run: the help that was asked for, a failure that has a     *)
(* reason, the help of a level where nothing is selected, or main.         *)
Fails(l) == ~Selected(l) \/ ~Works(l)

End ==
    pc = "exit" =>
        \/ ran = {} /\ shown = {args.help} /\ args.help # 0
        \/ ran = {} /\ exit \in {"usage", "traceback"} /\ (~args.good \/ Fails(1) \/ Fails(Last))
        \/ ran = {} /\ args.help = 0 /\ shown # {} /\ (Fails(1) \/ Fails(Last))
        \/ /\ args.help = 0 /\ ran = {<<Last, Name(Last)>>} /\ ran \subseteq live
           /\ exit = "success" => main = "ok"

CInv == Course /\ End

(* Every step keeps the course. *)
LEMMA NextCourse == IInv /\ CInv /\ [Next]_vars => CInv'
<1> SUFFICES ASSUME IInv, CInv, [Next]_vars PROVE CInv'
  OBVIOUS
<1> ArgsOK /\ StateOK /\ LiveOK /\ Course /\ End
  BY ArgsTypes DEF IInv, StateOK, CInv
<1> USE DEF Exit, Help, input, plugins, progress, Level, CInv
<1>l. Last \in {1, 2} /\ (level = 1 \/ Last = level)
  BY DEF Last, StateOK, Course
<1>1. ASSUME Mute PROVE CInv'
  BY <1>1 DEF Mute, Course, End, Selected, Name, Last
<1>2. ASSUME Parse PROVE CInv'
  <2>1. UNCHANGED <<args, main, state, asks, live, level>> /\ muted' = {} /\ pc = "parse"
    BY <1>2 DEF Parse, Unmute
  <2>2. CASE args.help = 1 /\ 1 \notin muted /\ Help(1)
    BY <2>1, <2>2 DEF Course, End, Selected, Name, Last
  <2>3. CASE Invalid /\ Exit("usage") /\ UNCHANGED <<shown, ran>>
    <3>1. Fails(level) /\ (level = 1 \/ level = Last)
      BY <1>l, <2>3 DEF Fails, Works, Invalid
    <3>2. (Fails(1) \/ Fails(Last))'
      BY <2>1, <3>1 DEF Fails, Works, Usable, Selected, Name, Last
    <3> QED
      BY <2>1, <2>3, <3>2 DEF Course, End, Selected, Name
  <2>4. CASE pc' = "load" /\ UNCHANGED <<shown, ran, exit>>
    BY <2>1, <2>4 DEF Course, End, Selected, Name
  <2> QED
    BY <1>2, <2>2, <2>3, <2>4 DEF Parse
<1>3. ASSUME NEW n \in Command \cup Verb, Load(n) PROVE CInv'
  BY <1>3 DEF Load, Course, End, Selected, Name
<1>4. ASSUME List PROVE CInv'
  <2>1. UNCHANGED <<args, main, state, asks, live, level, shown, ran, muted>> /\ pc = "load"
    BY <1>4 DEF List, Loaded
  <2>2. Fails(level)' /\ ~Selected(level)'
    BY <1>4, <2>1 DEF List, Fails, Selected, Name
  <2>3. (pc' = "final" /\ exit' = exit) \/ (pc' = "exit" /\ exit' = "traceback" /\ level = 1)
    BY <1>4 DEF List
  <2> QED
    BY <2>1, <2>2, <2>3 DEF Course, End, Selected, Name, Last
<1>5. ASSUME Select PROVE CInv'
  <2>1. UNCHANGED <<args, main, state, asks, live, shown, ran, muted>> /\ pc = "load" /\ todo = {}
    BY <1>5 DEF Select, Loaded
  <2>2. CASE <<level, Name(level)>> \notin live /\ Exit("traceback") /\ UNCHANGED level
    <3>1. Fails(level) /\ (level = 1 \/ level = Last)
      <4>1. <<level, Name(level)>> \in Extension /\ state[<<level, Name(level)>>] # "untried"
        BY <1>5, <2>1 DEF Select, LiveOK, Extension, Group, StateOK
      <4> QED
        BY <1>l, <2>2, <4>1 DEF LiveOK, Fails, Works
    <3>2. (Fails(1) \/ Fails(Last))'
      BY <2>1, <2>2, <3>1 DEF Fails, Works, Usable, Selected, Name, Last
    <3> QED
      BY <2>1, <2>2, <3>2 DEF Course, End, Selected, Name
  <2>3. CASE level = 1 /\ Name(1) \notin Alias /\ level' = 2 /\ pc' = "mute" /\ UNCHANGED exit
    BY <1>5, <2>1, <2>3 DEF Select, Course, End, Selected, Name
  <2>4. CASE /\ <<level, Name(level)>> \in live /\ ~(level = 1 /\ Name(1) \notin Alias)
             /\ pc' = "final" /\ UNCHANGED <<level, exit>>
    BY <1>l, <2>1, <2>4 DEF Course, End, Selected, Name, Last
  <2> QED
    BY <1>5, <2>2, <2>3, <2>4 DEF Select
<1>6. ASSUME Final PROVE CInv'
  <2>1. UNCHANGED <<args, main, state, asks, live, level, muted>> /\ pc = "final"
    BY <1>6 DEF Final
  <2>2. CASE args.help # 0 /\ Help(args.help)
    BY <2>1, <2>2 DEF Course, End, Selected, Name, Last
  <2>3. CASE ~args.good /\ Exit("usage") /\ UNCHANGED <<shown, ran>>
    BY <2>1, <2>3 DEF Course, End, Selected, Name, Last
  <2>4. CASE args.help = 0 /\ args.good /\ pc' = "main" /\ UNCHANGED <<shown, ran, exit>>
    BY <2>1, <2>4 DEF Course, End, Selected, Name, Last
  <2> QED
    BY <1>6, <2>1, <2>2, <2>3, <2>4 DEF Final, Course
<1>7. ASSUME Main PROVE CInv'
  <2>1. UNCHANGED <<args, main, state, asks, live, level, muted>> /\ pc = "main" /\ pc' = "exit"
    BY <1>7 DEF Main, NoVerb
  <2>2. (Fails(1) <=> Fails(1)') /\ (Fails(Last) <=> Fails(Last)')
    BY <2>1 DEF Fails, Works, Usable, Selected, Name, Last
  <2>3. CASE ~Selected(1) /\ Help(1)
    <3>1. Fails(1)
      BY <2>3 DEF Fails
    <3> QED
      BY <2>1, <2>2, <2>3, <3>1 DEF Course, End, Selected, Name, Last
  <2>4. CASE ~Selected(Last) /\ NoVerb
    <3>1. Fails(Last)
      BY <2>4 DEF Fails
    <3> QED
      BY <2>1, <2>2, <2>4, <3>1 DEF Course, End, NoVerb, Selected, Name, Last
  <2>5. CASE /\ Selected(1) /\ Selected(Last) /\ ran' = ran \cup {<<Last, Name(Last)>>}
             /\ exit' = "success" => main = "ok"
    <3>1. ran' = {<<Last, Name(Last)>>} /\ <<Last, Name(Last)>> \in live
      BY <1>l, <2>1, <2>5 DEF Course, StateOK
    <3> QED
      BY <2>1, <2>5, <3>1 DEF Course, End, Selected, Name, Last
  <2>6. Selected(1) /\ Selected(Last) /\ ran' = ran \cup {<<Last, Name(Last)>>}
           => (exit' = "success" => main = "ok") \/ NoVerb
    BY <1>7 DEF Main
  <2> QED
    BY <1>7, <2>3, <2>4, <2>5, <2>6 DEF Main
<1>8. ASSUME UNCHANGED vars PROVE CInv'
  BY <1>8 DEF vars, Course, End, Fails, Works, Usable, Selected, Name, Last
<1> QED
  BY <1>1, <1>2, <1>3, <1>4, <1>5, <1>6, <1>7, <1>8 DEF Next, Ended

(* The list of the last level that was reached holds what is alive, and a  *)
(* list that is shown is that one.                                         *)
Lists ==
    /\ level = 1 => listed[2] = {}
    /\ pc \in {"final", "main"} /\ ~Selected(level) =>
          listed[level] = Alive(level) \ (IF level = 1 THEN Hidden ELSE {})
    /\ ListIsComplete

(* A list that is shown is complete.                                       *)
LEMMA ShownIsComplete ==
    ASSUME IInv, Course, Lists, pc \in {"final", "main"}, NEW l \in Level, ~Selected(l),
           l = 2 => Selected(1), NEW n \in Group(l)
    PROVE  n \in listed[l] <=> Usable(<<l, n>>) /\ (l = 1 => n \notin Hidden)
<1>1. StateOK /\ LiveOK
  BY DEF IInv
<1>2. <<l, n>> \in Extension
  BY DEF Level, Group, Extension
<1>3. CASE level = l
  BY <1>1, <1>2, <1>3 DEF LiveOK, Lists, Alive, Group
<1>4. CASE level = 1 /\ l = 2
  BY <1>1, <1>4 DEF LiveOK, Lists, Usable, Group
<1>5. CASE level = 2 /\ l = 1
  BY <1>5 DEF Course
<1> QED
  BY <1>1, <1>3, <1>4, <1>5 DEF StateOK, Level

(* Every step keeps the lists. *)
LEMMA NextLists == IInv /\ CInv /\ Lists /\ [Next]_vars => Lists'
<1> SUFFICES ASSUME IInv, CInv, Lists, [Next]_vars PROVE Lists'
  OBVIOUS
<1> ArgsOK /\ StateOK /\ LiveOK /\ Course
  BY ArgsTypes DEF IInv, StateOK, CInv
<1> USE DEF Exit, Help, input, plugins, progress, Level
<1>2. ASSUME UNCHANGED <<args, listed>>, shown' = {}, pc' \notin {"final", "main"},
             level' = level \/ level' = 2
      PROVE  Lists'
  BY <1>2 DEF Lists, ListIsComplete
<1>3. ASSUME Mute PROVE Lists'
  BY <1>2, <1>3 DEF Mute, Course
<1>4. ASSUME Parse PROVE Lists'
  <2>1. UNCHANGED <<args, state, asks, live, level, listed>> /\ pc = "parse"
    BY <1>4 DEF Parse
  <2>2. CASE 1 \notin muted /\ Help(1)
    <3>1. shown' = {1} /\ Selected(1)' /\ pc' = "exit"
      BY <2>1, <2>2 DEF Course, StateOK, Selected, Name
    <3> QED
      BY <2>1, <3>1 DEF Lists, ListIsComplete
  <2>3. CASE UNCHANGED shown /\ pc' \in {"exit", "load"}
    BY <1>2, <2>1, <2>3 DEF Course
  <2> QED
    BY <1>4, <2>2, <2>3 DEF Parse
<1>5. ASSUME NEW n \in Command \cup Verb, Load(n) PROVE Lists'
  BY <1>2, <1>5 DEF Load, Course
<1>6. ASSUME List PROVE Lists'
  <2>1. UNCHANGED <<args, state, asks, live, level, shown>> /\ shown' = {} /\ pc' \in {"final", "exit"}
    BY <1>6 DEF List, Loaded, Course
  <2>2. pc' = "final" => listed' = [listed EXCEPT ![level] = Alive(level) \ (IF level = 1 THEN Hidden ELSE {})]
    BY <1>6 DEF List
  <2>3. pc' = "exit" => listed' = listed
    BY <1>6 DEF List
  <2>4. level = 1 => listed'[2] = {}
    BY <2>2, <2>3, <2>1 DEF Lists, StateOK
  <2>5. pc' = "final" => listed'[level] = Alive(level) \ (IF level = 1 THEN Hidden ELSE {})
    BY <2>2 DEF StateOK
  <2>6. Alive(level)' = Alive(level)
    BY <2>1 DEF Alive, Group
  <2> QED
    BY <2>1, <2>4, <2>5, <2>6 DEF Lists, ListIsComplete
<1>7. ASSUME Select PROVE Lists'
  <2>1. UNCHANGED <<args, listed, shown>> /\ Selected(level) /\ shown' = {}
    BY <1>7 DEF Select, Loaded, Course
  <2>2. (level' = level /\ pc' \in {"exit", "final"}) \/ (level' = 2 /\ pc' = "mute")
    BY <1>7 DEF Select
  <2> QED
    BY <2>1, <2>2 DEF Lists, ListIsComplete, Selected, Name
<1>8. ASSUME Final \/ Main PROVE Lists'
  <2>1. UNCHANGED <<args, state, asks, live, level, listed>> /\ pc \in {"final", "main"}
    BY <1>8 DEF Final, Main, NoVerb
  <2>2. UNCHANGED shown \/ (pc' = "exit" /\ \E h \in {1, 2, 3} : shown' = {h} /\ (h = 2 => Selected(1)))
    <3>1. ASSUME Final PROVE UNCHANGED shown \/ (pc' = "exit" /\ shown' = {args.help} /\ args.help # 0)
      BY <3>1 DEF Final, Course
    <3>2. ASSUME Main
          PROVE  UNCHANGED shown \/ (pc' = "exit" /\ (shown' = {1} \/ (shown' = {2} /\ Selected(1))))
      BY <3>2 DEF Main, NoVerb, Course
    <3> QED
      BY <1>8, <3>1, <3>2 DEF ArgsOK, Selected
  <2>3. Alive(level)' = Alive(level)
    BY <2>1 DEF Alive, Group
  <2>4. ListIsComplete'
    <3>1. CASE UNCHANGED shown
      BY <2>1, <3>1 DEF Lists, ListIsComplete, Usable, Selected, Name
    <3>2. ASSUME NEW h \in {1, 2, 3}, shown' = {h}, h = 2 => Selected(1) PROVE ListIsComplete'
      <4> SUFFICES ASSUME h \in Level, ~Selected(h), NEW n \in Group(h)
                   PROVE  (n \in listed[h] <=> Usable(<<h, n>>) /\ (h = 1 => n \notin Hidden))
        BY <2>1, <3>2 DEF ListIsComplete, Usable, Selected, Name, Group
      <4> QED
        BY <2>1, <3>2, ShownIsComplete DEF CInv
    <3> QED
      BY <2>2, <3>1, <3>2
  <2>5. pc' \in {"main", "exit"}
    BY <1>8 DEF Final, Main, NoVerb
  <2> QED
    BY <2>1, <2>3, <2>4, <2>5 DEF Lists, Selected, Name
<1>9. ASSUME UNCHANGED vars PROVE Lists'
  BY <1>9 DEF vars, Lists, ListIsComplete, Alive, Usable, Selected, Name, Group
<1> QED
  BY <1>3, <1>4, <1>5, <1>6, <1>7, <1>8, <1>9 DEF Next, Ended

LEMMA Invariant == Spec => [](IInv /\ CInv /\ Lists)
<1>1. Init => CInv /\ Lists
  BY DEF Init, CInv, Course, End, Lists, ListIsComplete, Level
<1>2. IInv /\ CInv /\ Lists /\ [Next]_vars => (IInv /\ CInv /\ Lists)'
  BY NextState, NextLive, NextCourse, NextLists DEF IInv
<1> QED
  BY InitInv, <1>1, <1>2, PTL DEF Spec

-----------------------------------------------------------------------------
(* The types are kept; what ran has an instance. *)
THEOREM TypeCorrect == Spec => []TypeOK
<1>1. IInv /\ CInv => TypeOK
  <2>1. {1, 2, 3} = 1..3
    OBVIOUS
  <2>2. ASSUME CInv PROVE ran \subseteq live
    BY <2>2 DEF CInv, Course, End
  <2>3. ASSUME IInv PROVE StateOK
    BY <2>3 DEF IInv
  <2> QED
    BY <2>1, <2>2, <2>3 DEF TypeOK, StateOK, Pcs
<1> QED
  BY Invariant, <1>1, PTL

(* Whatever other extensions do, one that works and is named runs. *)
THEOREM NamedExtensionRuns == Spec => []SelectedRuns
<1>1. CInv => SelectedRuns
  <2>1. Last \in {1, 2} /\ 1 \in 1..Last /\ Last \in 1..Last
    BY DEF Last
  <2> QED
    BY <2>1 DEF CInv, End, SelectedRuns, Fails
<1> QED
  BY Invariant, <1>1, PTL

(* No sibling of a selected extension is loaded. *)
THEOREM SiblingsAreNotLoaded == Spec => []OnlySelectedLoaded
<1>1. IInv => OnlySelectedLoaded
  BY DEF IInv
<1> QED
  BY Invariant, <1>1, PTL

(* Help that is asked for is shown and nothing runs. *)
THEOREM HelpIsNotLost == Spec => []HelpIsShown
<1>1. CInv => HelpIsShown
  BY DEF CInv, Course, End, HelpIsShown
<1> QED
  BY Invariant, <1>1, PTL

(* The lists of extensions are complete. *)
THEOREM ListsAreComplete == Spec => []ListIsComplete
<1>1. Lists => ListIsComplete
  BY DEF Lists
<1> QED
  BY Invariant, <1>1, PTL

(* A success is the help or what was asked for. *)
THEOREM SuccessIsReal == Spec => []SuccessMeansDone
<1>1. CInv => SuccessMeansDone
  BY DEF CInv, Course, End, SuccessMeansDone
<1> QED
  BY Invariant, <1>1, PTL

(* Only compatible extensions are used. *)
THEOREM OnlyCompatible == Spec => []CompatibleOnly
<1>1. IInv => CompatibleOnly
  <2> SUFFICES ASSUME IInv, NEW x \in live
               PROVE  /\ ~Less(Point, asks[x]) /\ asks[x].major = Point.major
                      /\ Point.major = 0 => asks[x].minor = Point.minor
    BY DEF CompatibleOnly
  <2>1. x \in Extension /\ Satisfies(Point, asks[x])
    BY DEF IInv, StateOK, LiveOK, Usable
  <2>2. Point \in Version /\ asks[x] \in Version
    BY <2>1, PluginAssumption DEF IInv, StateOK
  <2> QED
    BY <2>1, <2>2, CaretRange
<1> QED
  BY Invariant, <1>1, PTL

-----------------------------------------------------------------------------
(* What the first level has left for the second, and what has been tried   *)
(* when nothing is named.                                                  *)
Reached ==
    /\ level = 2 => Name(1) \in Command /\ <<1, Name(1)>> \in live
    /\ pc = "load" /\ ~Selected(level) =>
          \A n \in Group(level) : n \in todo \/ state[<<level, n>>] # "untried"

(* Every step keeps what was reached. *)
LEMMA NextReached == IInv /\ CInv /\ Reached /\ [Next]_vars => Reached'
<1> SUFFICES ASSUME IInv, CInv, Reached, [Next]_vars PROVE Reached'
  OBVIOUS
<1> ArgsOK /\ StateOK /\ LiveOK /\ Course
  BY ArgsTypes DEF IInv, StateOK, CInv
<1> USE DEF input, plugins, progress, Exit, Help
<1>1. ASSUME NEW n \in Command \cup Verb, Load(n) PROVE Reached'
  <2>1. n \in Group(level) /\ UNCHANGED <<args, level, pc>> /\ todo' = todo \ {n}
    BY <1>1 DEF Load, StateOK
  <2>2. live \subseteq live' /\ \E how \in {"loaded", "broken"} :
                                  state' = [state EXCEPT ![<<level, n>>] = how]
    BY <1>1 DEF Load, Outcome
  <2>3. \A m \in Group(level) : <<level, m>> \in Extension
    BY DEF Group, Extension, StateOK, Level
  <2>4. \A m \in Group(level) : m # n => state'[<<level, m>>] = state[<<level, m>>]
    BY <2>2, <2>3 DEF StateOK
  <2>5. state'[<<level, n>>] # "untried"
    BY <2>1, <2>2, <2>3 DEF StateOK
  <2>6. QED
    BY <1>1, <2>1, <2>2, <2>4, <2>5 DEF Reached, Selected, Name, Group
<1>2. ASSUME Parse PROVE Reached'
  <2>1. UNCHANGED <<args, state, live, level>> /\ pc' \in {"load", "exit"}
    BY <1>2 DEF Parse
  <2>2. pc' = "load" => todo' = Needed
    BY <1>2 DEF Parse
  <2>3. QED
    BY <2>1, <2>2 DEF Reached, Needed, Selected, Name, Group
<1>3. ASSUME Select PROVE Reached'
  <2>1. UNCHANGED <<args, state, live>> /\ pc' # "load" /\ Selected(level)
    BY <1>3 DEF Select
  <2>2. level' = level \/ (level' = 2 /\ level = 1 /\ <<1, Name(1)>> \in live)
    BY <1>3 DEF Select
  <2>3. <<1, Name(1)>> \in live => Name(1) \in Command
    BY DEF StateOK, Extension
  <2>4. QED
    BY <2>1, <2>2, <2>3 DEF Reached, Name
<1>4. ASSUME Mute \/ List \/ Final \/ Main PROVE Reached'
  <2>1. UNCHANGED <<args, live, level>> /\ pc' # "load"
    BY <1>4 DEF Mute, List, Final, Main, NoVerb
  <2>2. QED
    BY <2>1 DEF Reached, Name
<1>5. ASSUME UNCHANGED vars PROVE Reached'
  BY <1>5 DEF vars, Reached, Selected, Name, Group
<1> QED
  BY <1>1, <1>2, <1>3, <1>4, <1>5 DEF Next, Ended

DInv == IInv /\ CInv /\ Reached

LEMMA DispatchInvariant == Spec => []DInv
<1>1. Init => CInv /\ Reached
  BY DEF Init, CInv, Course, End, Reached
<1>2. DInv /\ [Next]_vars => DInv'
  BY NextState, NextLive, NextCourse, NextReached DEF IInv, DInv
<1> QED
  BY InitInv, <1>1, <1>2, PTL DEF Spec, DInv

(* What Dispatch knows of an extension. *)
LEMMA KnownIs ==
    ASSUME DInv, NEW l \in Level, NEW n \in Group(l)
    PROVE  /\ <<l, n>> \in Extension
           /\ Known[<<l, n>>] = "untried" <=> state[<<l, n>>] = "untried"
           /\ Known[<<l, n>>] = "works" <=> <<l, n>> \in live
           /\ Known[<<l, n>>] = "fails" <=>
                 state[<<l, n>>] # "untried" /\ <<l, n>> \notin live
<1>1. <<l, n>> \in Extension
  BY DEF Level, Group, Extension
<1>2. <<l, n>> \in live <=> Usable(<<l, n>>)
  BY <1>1 DEF DInv, IInv, LiveOK
<1>3. QED
  BY <1>1, <1>2 DEF Known, Usable

(* The same for the names of the command line. *)
LEMMA NamedIs ==
    ASSUME DInv, NEW l \in Level, <<l, Name(l)>> \in live
    PROVE  D!Is(l, "works")
<1>1. Name(l) \in Group(l)
  BY DEF DInv, IInv, StateOK, Extension, Group, Level
<1>2. QED
  BY <1>1, KnownIs DEF D!Is, D!Name, D!Group, Name, Group

(* Before the end no answer is given. *)
LEMMA NotYetAnswered ==
    ASSUME DInv, pc # "exit"
    PROVE  Given = D!NoAnswer
BY DEF DInv, CInv, Course, Given, D!NoAnswer

(* Steps that find out nothing and do not end the run are not seen. *)
LEMMA Unseen ==
    ASSUME UNCHANGED <<args, main, state, asks, shown, ran, exit>>
    PROVE  UNCHANGED D!vars
<1>1. Known' = Known
  BY DEF Known, Usable
<1>2. Given' = Given
  BY DEF Given, Last, Name
<1>3. QED
  BY <1>1, <1>2 DEF D!vars

(* A help is the answer when it is printed. *)
LEMMA HelpAnswers ==
    ASSUME DInv, pc # "exit", NEW l \in 1..3, Help(l),
           UNCHANGED <<args, main, state, asks>>
    PROVE  D!Answer("help", l, "success")
<1>1. Given = D!NoAnswer /\ Known' = Known
  BY NotYetAnswered DEF Known, Usable
<1>2. shown' = {l} /\ ran' = {} /\ exit' = "success"
  BY DEF DInv, CInv, Course, Help, Exit
<1>3. (CHOOSE h \in shown' : TRUE) = l
  BY <1>2
<1>4. Given' = [kind |-> "help", level |-> l, exit |-> "success"]
  BY <1>2, <1>3 DEF Given
<1>5. QED
  BY <1>1, <1>4 DEF D!Answer

(* So is an error of rtw itself. *)
LEMMA ErrorAnswers ==
    ASSUME DInv, pc # "exit", NEW how \in {"usage", "traceback"}, Exit(how),
           UNCHANGED <<args, main, state, asks, shown, ran>>
    PROVE  D!Answer("refused", 0, how)
<1>1. Given = D!NoAnswer /\ Known' = Known
  BY NotYetAnswered DEF Known, Usable
<1>2. shown' = {} /\ ran' = {} /\ exit' = how
  BY DEF DInv, CInv, Course, Exit
<1>3. Given' = [kind |-> "refused", level |-> 0, exit |-> how]
  BY <1>2 DEF Given
<1>4. QED
  BY <1>1, <1>3 DEF D!Answer

(* Loading an extension is trying it, and it was needed. *)
LEMMA LoadTries ==
    ASSUME DInv, NEW n \in Command \cup Verb, Load(n)
    PROVE  D!Try(<<level, n>>) /\ <<level, n>> \in Extension
<1> DEFINE x == <<level, n>>
<1> StateOK /\ LiveOK /\ Course /\ Reached
  BY DEF DInv, IInv, CInv
<1>1. n \in Group(level) /\ n \in todo /\ pc = "load"
  BY DEF Load, StateOK
<1>2. x \in Extension /\ Known[x] = "untried"
  BY <1>1, KnownIs DEF LiveOK, StateOK
<1>3. Selected(level) => n = Name(level)
  BY <1>1 DEF LiveOK
<1>4. level = 2 => D!Is(1, "works") /\ Name(1) \notin Alias
  BY NamedIs DEF Reached, Course, Level
<1>5. \E k \in {"works", "fails"} : Known' = [Known EXCEPT ![x] = k]
  <2>1. PICK how \in {"loaded", "broken"}, v \in Versions : Outcome(x, how, v)
    BY DEF Load
  <2>2. \A y \in Extension : y # x => state'[y] = state[y] /\ asks'[y] = asks[y]
    BY <2>1 DEF Outcome, StateOK
  <2>3. state'[x] # "untried"
    BY <1>2, <2>1 DEF Outcome, StateOK
  <2>4. \A y \in Extension : y # x => Known'[y] = Known[y]
    BY <2>2 DEF Known, Usable
  <2>5. Known'[x] \in {"works", "fails"}
    BY <1>2, <2>3 DEF Known
  <2>6. Known' = [y \in Extension |-> Known'[y]]
    BY DEF Known
  <2>7. Known = [y \in Extension |-> Known[y]]
    BY DEF Known
  <2>8. Known' = [Known EXCEPT ![x] = Known'[x]]
    BY <1>2, <2>4, <2>6, <2>7
  <2>9. QED
    BY <2>5, <2>8
<1>6. UNCHANGED <<args, main>> /\ Given = D!NoAnswer /\ Given' = Given
  BY <1>1, NotYetAnswered DEF Load, Given, Last, Name, input
<1>7. QED
  BY <1>1, <1>2, <1>3, <1>4, <1>5, <1>6 DEF D!Try, D!Selected, D!Name, Selected, Name

(* An argument that names nothing is refused when it is reached. *)
LEMMA ParseSimulates ==
    ASSUME DInv, Parse
    PROVE  [D!Next]_(D!vars)
<1> USE DEF input, plugins, progress
<1> StateOK /\ Course /\ Reached
  BY DEF DInv, IInv, CInv
<1>1. pc = "parse" /\ UNCHANGED <<args, main, state, asks>>
  BY DEF Parse
<1>2. CASE args.help = 1 /\ Help(1)
  <2>1. D!Answer("help", 1, "success")
    BY <1>1, <1>2, HelpAnswers
  <2>2. D!Help(1)
    BY <1>2, <2>1 DEF D!Help
  <2>3. QED
    BY <2>2 DEF D!Next
<1>3. CASE Invalid /\ Exit("usage") /\ UNCHANGED <<shown, ran>>
  <2>1. D!Answer("refused", 0, "usage")
    BY <1>1, <1>3, ErrorAnswers
  <2>2. Name(1) = Unknown \/ (D!Is(1, "works") /\ Name(2) = Unknown)
    BY <1>3, NamedIs DEF Invalid, StateOK, Level, Reached
  <2>3. D!RefuseArguments
    BY <2>1, <2>2 DEF D!RefuseArguments, D!Name, Name
  <2>4. QED
    BY <2>3 DEF D!Next
<1>4. CASE UNCHANGED <<shown, ran, exit>>
  BY <1>1, <1>4, Unseen
<1>5. QED
  BY <1>2, <1>3, <1>4 DEF Parse

(* The end without a list, or without the named extension, has its reason. *)
LEMMA SelectSimulates ==
    ASSUME DInv, List \/ Select
    PROVE  [D!Next]_(D!vars)
<1> USE DEF input, plugins, progress
<1> StateOK /\ LiveOK /\ Reached
  BY DEF DInv, IInv, CInv
<1>1. /\ pc = "load" /\ todo = {}
      /\ UNCHANGED <<args, main, state, asks, shown, ran>>
  BY DEF List, Select, Loaded
<1>2. CASE UNCHANGED exit
  BY <1>1, <1>2, Unseen
<1>3. CASE List /\ Exit("traceback")
  <2>1. D!Answer("refused", 0, "traceback")
    BY <1>1, <1>3, ErrorAnswers
  <2>2. /\ level = 1 /\ ~Selected(1)
        /\ Alive(1) # {} /\ Alive(1) \subseteq Hidden
    BY <1>1, <1>3 DEF List, Exit, Loaded
  <2>3. \A n \in Command \ Hidden : Known[<<1, n>>] = "fails"
    <3> SUFFICES ASSUME NEW n \in Command \ Hidden PROVE Known[<<1, n>>] = "fails"
      OBVIOUS
    <3>1. n \in Group(1) /\ <<1, n>> \notin live
      BY <2>2 DEF Group, Alive
    <3>2. state[<<1, n>>] # "untried"
      BY <1>1, <2>2, <3>1 DEF Reached
    <3>3. QED
      BY <3>1, <3>2, KnownIs DEF Level
  <2>4. \E n \in Hidden \cap Command : Known[<<1, n>>] = "works"
    <3>1. PICK n \in Alive(1) : n \in Hidden
      BY <2>2
    <3>2. n \in Group(1) /\ <<1, n>> \in live
      BY <3>1 DEF Alive
    <3>3. QED
      BY <3>1, <3>2, KnownIs DEF Group, Level
  <2>5. D!RefuseExtension
    BY <2>1, <2>2, <2>3, <2>4 DEF D!RefuseExtension, D!Selected, D!Name, Selected, Name
  <2>6. QED
    BY <2>5 DEF D!Next
<1>4. CASE Select /\ <<level, Name(level)>> \notin live /\ Exit("traceback")
  <2>1. D!Answer("refused", 0, "traceback")
    BY <1>1, <1>4, ErrorAnswers
  <2>2. Name(level) \in Group(level) /\ state[<<level, Name(level)>>] # "untried"
    BY <1>1, <1>4 DEF Select, LiveOK
  <2>3. D!Is(level, "fails")
    BY <1>4, <2>2, KnownIs DEF StateOK, D!Is, D!Name, D!Group, Name, Group
  <2>4. D!RefuseExtension
    BY <2>1, <2>3 DEF D!RefuseExtension, D!Level, StateOK, Level
  <2>5. QED
    BY <2>4 DEF D!Next
<1>5. QED
  BY <1>2, <1>3, <1>4 DEF List, Select

(* Behind the last level, the names that were given work. *)
LEMMA BehindLast ==
    ASSUME DInv, pc \in {"final", "main"}
    PROVE  /\ Selected(1) => D!Is(1, "works")
           /\ Selected(1) /\ Selected(Last) => D!Is(Last, "works")
           /\ args.help = 3 => Selected(1) /\ D!Is(2, "works")
           /\ args.help = 2 => Selected(1)
<1> StateOK /\ Course /\ Reached
  BY DEF DInv, IInv, CInv
<1>1. level = 1 /\ Selected(1) => Last = 1 /\ <<1, Name(1)>> \in live
  BY DEF Course
<1>2. level = 2 => Last = 2 /\ Selected(1) /\ <<1, Name(1)>> \in live
  BY DEF Course, Reached, Last
<1>3. level = 2 /\ Selected(2) => <<2, Name(2)>> \in live
  BY DEF Course
<1>4. \A l \in Level : <<l, Name(l)>> \in live => D!Is(l, "works")
  BY NamedIs
<1>5. level \in {1, 2} /\ 1 \in Level /\ 2 \in Level
  BY DEF StateOK, Level
<1>6. /\ args.help = 3 => Selected(2) /\ Selected(1) /\ Name(1) \notin Alias
      /\ args.help = 2 => Selected(1)
  <2>1. CommandLine(args)
    BY DEF StateOK
  <2>2. args.help = 3 => Name(2) # NoName /\ Name(1) \in Command \ Alias
    BY <2>1 DEF CommandLine, Name
  <2>3. args.help = 2 => Name(1) # NoName
    BY <2>1 DEF CommandLine, Name
  <2>4. QED
    BY <2>2, <2>3, PluginAssumption DEF Selected
<1>7. args.help = 3 => level = 2
  BY <1>1, <1>5, <1>6 DEF Last
<1>8. QED
  BY <1>1, <1>2, <1>3, <1>4, <1>5, <1>6, <1>7

(* Wrong arguments are refused, and help is printed with all parsers. *)
LEMMA FinalSimulates ==
    ASSUME DInv, Final
    PROVE  [D!Next]_(D!vars)
<1> USE DEF input, plugins, progress
<1>1. pc = "final" /\ UNCHANGED <<args, main, state, asks>>
  BY DEF Final
<1>2. args.help \in {0, 1, 2, 3}
  BY ArgsTypes DEF DInv, IInv, StateOK, ArgsOK
<1>3. CASE args.help # 0 /\ Help(args.help)
  <2>1. args.help \in 1..3
    BY <1>2, <1>3
  <2>2. D!Answer("help", args.help, "success")
    BY <1>1, <1>3, <2>1, HelpAnswers
  <2>3. /\ args.help > 1 => D!Is(1, "works")
        /\ args.help > 2 => D!Is(2, "works")
    BY <1>1, <1>2, BehindLast
  <2>4. D!Help(args.help)
    BY <2>2, <2>3 DEF D!Help
  <2>5. QED
    BY <2>1, <2>4 DEF D!Next
<1>4. CASE ~args.good /\ Exit("usage") /\ UNCHANGED <<shown, ran>>
  <2>1. D!Answer("refused", 0, "usage")
    BY <1>1, <1>4, ErrorAnswers
  <2>2. QED
    BY <1>4, <2>1 DEF D!RefuseArguments, D!Next
<1>5. CASE UNCHANGED <<shown, ran, exit>>
  BY <1>1, <1>5, Unseen
<1>6. QED
  BY <1>3, <1>4, <1>5 DEF Final

(* main answers with a help, or with the end of the extension. *)
LEMMA MainSimulates ==
    ASSUME DInv, Main
    PROVE  [D!Next]_(D!vars)
<1> USE DEF input, plugins, progress
<1> Course
  BY DEF DInv, CInv
<1>1. /\ pc = "main" /\ args.help = 0 /\ args.good /\ Last \in {1, 2}
      /\ UNCHANGED <<args, main, state, asks>>
  BY DEF Main, Course, Last
<1>2. CASE ~Selected(1) /\ Help(1)
  <2>1. D!Answer("help", 1, "success")
    BY <1>1, <1>2, HelpAnswers
  <2>2. D!Help(1)
    BY <1>1, <1>2, <2>1 DEF D!Help, D!Level, D!Selected, D!Name, Selected, Name
  <2>3. QED
    BY <2>2 DEF D!Next
<1>3. CASE Selected(1) /\ ~Selected(Last) /\ Help(2)
  <2>1. D!Answer("help", 2, "success")
    BY <1>1, <1>3, HelpAnswers
  <2>2. D!Is(1, "works") /\ Last = 2
    BY <1>1, <1>3, BehindLast
  <2>3. D!Help(2)
    BY <1>1, <1>3, <2>1, <2>2 DEF D!Help, D!Level, D!Selected, D!Name, Selected, Name
  <2>4. QED
    BY <2>3 DEF D!Next
<1>4. CASE Selected(1) /\ Selected(Last) /\ ran' = ran \cup {<<Last, Name(Last)>>}
  <2> DEFINE how == CASE main = "ok" -> "success"
                      [] main = "KeyboardInterrupt" -> "interrupted"
                      [] main = "RuntimeError" -> "failure"
                      [] OTHER -> "traceback"
  <2>1. exit' = how \/ Help(1) \/ Help(2)
    BY <1>4 DEF Main, NoVerb, Exit
  <2>2. ran' # {} /\ ~UNCHANGED ran
    BY <1>1, <1>4 DEF Course
  <2>3. exit' = how /\ how # "none"
    BY <2>1, <2>2 DEF Help
  <2>4. Given = D!NoAnswer /\ Known' = Known /\ Last' = Last
    BY <1>1, NotYetAnswered DEF Known, Usable, Last, Name
  <2>5. Given' = [kind |-> "run", level |-> Last, exit |-> how]
    BY <2>2, <2>3, <2>4 DEF Given
  <2>6. D!Answer("run", Last, how)
    BY <1>1, <2>4, <2>5 DEF D!Answer
  <2>7. D!Is(1, "works") /\ D!Is(Last, "works")
    BY <1>1, <1>4, BehindLast
  <2>8. D!Last = Last
    BY DEF D!Last, D!Name, Last, Name
  <2>9. D!Run
    BY <1>1, <2>6, <2>7, <2>8 DEF D!Run
  <2>10. QED
    BY <2>9 DEF D!Next
<1>5. QED
  BY <1>2, <1>3, <1>4 DEF Main, NoVerb

(* Each step of a run is a step of Dispatch, or is not seen. *)
LEMMA StepSimulates ==
    ASSUME DInv, [Next]_vars
    PROVE  [D!Next]_(D!vars)
<1>1. CASE Mute \/ UNCHANGED vars
  BY <1>1, Unseen DEF Mute, vars, input, plugins, progress
<1>2. CASE \E n \in Command \cup Verb : Load(n)
  BY <1>2, LoadTries DEF D!Next, D!Extension, Extension
<1>3. QED
  BY <1>1, <1>2, ParseSimulates, SelectSimulates, FinalSimulates, MainSimulates
     DEF Next, Ended

(* For any extensions and versions, a run finds out what it needs to know, *)
(* each extension at most once, and gives the one answer that the command  *)
(* line and the extensions it names call for.                              *)
THEOREM RunsAnswerAsPromised == Spec => AnswersAsPromised
<1>1. Init => D!Init
  <2> SUFFICES ASSUME Init PROVE D!Init
    OBVIOUS
  <2>1. Known = [x \in Extension |-> "untried"]
    BY DEF Init, Known
  <2>2. Given = D!NoAnswer
    BY DEF Init, Given, D!NoAnswer
  <2>3. QED
    BY <2>1, <2>2 DEF Init, D!Init, D!Extension, Extension
<1>2. DInv /\ [Next]_vars => [D!Next]_(D!vars)
  BY StepSimulates
<1>3. QED
  BY DispatchInvariant, <1>1, <1>2, PTL DEF Spec, AnswersAsPromised, D!Spec
=============================================================================

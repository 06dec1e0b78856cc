---------------------------- MODULE LegacyRcProofs ----------------------------
(***************************************************************************)
(* Theorems about LegacyRc, for every finite set of names, whichever of    *)
(* them begin with others, and any number of set-ups, updates and faults.  *)
(***************************************************************************)
EXTENDS LegacyRc, FiniteSetTheorems, SequenceTheorems, TLAPS

(* A function in the file, without the bounds of the instance. *)
Fun == [name : Name, old : Nat, kind : Kind, id : Nat]

(* What was counted so far; an update that has begun is counted and has    *)
(* not copied the file yet.                                                *)
CountOK ==
    /\ setups \in 0..MaxSetup /\ updates \in 0..MaxUpdates /\ faults \in 0..MaxFaults
    /\ upd \in {"idle", "pull", "pop", "rc"}
    /\ upd # "idle" => updates # 0

Pending == IF upd = "idle" THEN 0 ELSE 1
Count == setups + updates - Pending

(* Each function is as old as the set-ups that renamed it, no two have the *)
(* same key, and the last one of a name is the one without OLD_, unless it *)
(* was renamed with the function of a shorter name.                        *)
RcOK ==
    /\ rc \in Seq(Fun)
    /\ latest \in [Name -> 0..MaxSetup] /\ shadowed \subseteq Name
    /\ \A i \in 1..Len(rc) : rc[i].id \in 1..setups /\ rc[i].old + rc[i].id <= setups
    /\ \A i, j \in 1..Len(rc) : rc[i].name = rc[j].name /\ rc[i].old = rc[j].old => i = j
    /\ \A n \in Name : latest[n] # 0 =>
          \E i \in 1..Len(rc) :
             rc[i].name = n /\ rc[i].id = latest[n] /\ (n \notin shadowed => rc[i].old = 0)
    /\ \A n \in shadowed :
          latest[n] # 0 /\ \A i \in 1..Len(rc) : rc[i].name = n => rc[i].old > 0

(* No backup has a higher number than there are backups and other files of *)
(* the prefix.                                                             *)
Numbered == Copies <= Count /\ \A i \in 1..MaxVer : bkp[i] # 0 => i <= Copies + extra

SavedOK ==
    /\ exported \in BOOLEAN /\ unsaved \in BOOLEAN
    /\ extra \in Nat /\ extra <= faults
    /\ ver \in Nat /\ 1 <= ver /\ ver <= 1 + Count + faults
    /\ bkp \in [1..MaxVer -> 0..MaxVer + 1]
    /\ replaced \subseteq 1..MaxVer + 1
    /\ unsaved \/ Numbered
    /\ EveryVersionSaved

(* Between the stash and the pop the clone has no local changes, and the   *)
(* stash has those there were, or the stash failed.                        *)
CloneOK ==
    /\ tree \in BOOLEAN /\ stash \in Seq({"mine", "older"}) /\ conflict \in BOOLEAN
    /\ trouble \subseteq {"stash", "pop", "interrupt"}
    /\ before.tree \in BOOLEAN /\ before.stash \in Seq({"mine", "older"})
    /\ upd \in {"pull", "pop"} =>
          \/ /\ ~tree
             /\ before.tree => stash = <<"mine">> \o before.stash
             /\ ~before.tree => stash = before.stash
          \/ "stash" \in trouble /\ tree = before.tree /\ stash = before.stash
    /\ LocalChangesReturn

(* What port has read stays what it compares with, and its report is true. *)
PortOK ==
    /\ pc \in {"idle", "choose", "store", "ended", "raised"}
    /\ script \in [Key -> 0..MaxSetup] /\ config \in [Key -> 0..MaxSetup + 1]
    /\ todo \in Seq(Key) /\ (pc = "store" => todo # <<>>)
    /\ ported \subseteq Key /\ asked \subseteq Key
    /\ pc \in {"idle", "choose"} => asked = {} /\ ported = {}
    /\ pc = "idle" => touched = {}
    /\ pc = "choose" => \A k \in Key \ touched : config[k] = found[k]
    /\ ReportIsTrue

IInv == CountOK /\ RcOK /\ SavedOK /\ CloneOK /\ PortOK

-----------------------------------------------------------------------------
(* The initial states satisfy the invariant. *)
LEMMA InitInv == Init => IInv
<1> SUFFICES ASSUME Init PROVE IInv
  OBVIOUS
<1> USE LegacyAssumption
<1>1. CountOK
  BY DEF Init, CountOK
<1>2. RcOK
  <2>1. rc = <<>> /\ Len(rc) = 0 /\ rc \in Seq(Fun)
    BY EmptySeq DEF Init
  <2> QED
    BY <2>1 DEF Init, RcOK
<1>3. SavedOK
  <2>1. Count = 0 /\ MaxVer + 1 \in Nat /\ extra = 0 /\ extra <= faults
    BY DEF Init, Count, Pending, MaxVer
  <2>2. bkp \in [1..MaxVer -> 0..MaxVer + 1]
    BY <2>1 DEF Init
  <2>3. Numbered
    <3>1. bkp = [i \in 1..MaxVer |-> 0]
      BY DEF Init
    <3>2. {i \in DOMAIN bkp : bkp[i] # 0} = {}
      BY <3>1
    <3>3. Copies = 0
      BY <3>2, FS_EmptySet DEF Copies
    <3> QED
      BY <2>1, <3>1, <3>3 DEF Numbered
  <2>4. ver \in Nat /\ 1 <= ver /\ ver <= 1 + Count + faults
    BY <2>1 DEF Init
  <2>5. exported \in BOOLEAN /\ unsaved \in BOOLEAN /\ replaced \subseteq 1..MaxVer + 1
    BY DEF Init
  <2>6. EveryVersionSaved
    BY DEF Init, EveryVersionSaved
  <2> QED
    BY <2>1, <2>2, <2>3, <2>4, <2>5, <2>6 DEF SavedOK
<1>4. CloneOK
  <2>1. stash \in Seq({"mine", "older"})
    <3>1. <<"older">> \in Seq({"mine", "older"})
      OBVIOUS
    <3> QED
      BY <3>1, EmptySeq DEF Init
  <2>2. tree \in BOOLEAN /\ before = [tree |-> tree, stash |-> stash]
    BY DEF Init
  <2>3. before.tree = tree /\ before.stash = stash
    BY <2>2
  <2> QED
    BY <2>1, <2>2, <2>3 DEF Init, CloneOK, LocalChangesReturn
<1>5. PortOK
  <2>1. todo \in Seq(Key)
    BY DEF Init
  <2> QED
    BY <2>1 DEF Init, PortOK, ReportIsTrue
<1> QED
  BY <1>1, <1>2, <1>3, <1>4, <1>5 DEF IInv

(* Every step counts right. *)
LEMMA NextCount ==
    ASSUME IInv, [Next]_vars
    PROVE  CountOK'
<1> USE LegacyAssumption DEF CountOK
<1> CountOK
  BY DEF IInv
<1>1. Fault => faults' \in 0..MaxFaults
  BY DEF Fault
<1>2. ASSUME NEW n \in Name, SetUp(n) PROVE CountOK'
  BY <1>1, <1>2 DEF SetUp, CopyRc, clone
<1>3. CASE Stash
  BY <1>1, <1>3 DEF Stash, setup
<1>4. CASE Pull \/ Pop \/ InterruptUpdate \/ Resolve
  BY <1>1, <1>4 DEF Pull, Pop, InterruptUpdate, Resolve, setup
<1>5. CASE AddExports
  BY <1>1, <1>5 DEF AddExports, CopyRc, setup
<1>6. CASE Store
  BY <1>1, <1>6 DEF Store, setup, clone
<1>7. ASSUME Fault, UNCHANGED <<setup, clone>> PROVE CountOK'
  BY <1>1, <1>7 DEF setup, clone
<1>8. ASSUME UNCHANGED <<setup, clone, faults>> PROVE CountOK'
  BY <1>8 DEF setup, clone
<1> QED
  BY <1>2, <1>3, <1>4, <1>5, <1>6, <1>7, <1>8
  DEF Next, EditByHand, DeleteBackup, ExtraFile, ExtraFileGone, PortRaises, PortReads, Choose, UnknownName, OtherCommand,
      PortAgain, vars

-----------------------------------------------------------------------------
(* The functions *)

(* Another number of OLD_ makes another function of the same name. *)
LEMMA OldSet ==
    ASSUME NEW g \in Fun, NEW o \in Nat
    PROVE  /\ [g EXCEPT !.old = o] \in Fun
           /\ [g EXCEPT !.old = o].name = g.name
           /\ [g EXCEPT !.old = o].id = g.id
           /\ [g EXCEPT !.old = o].old = o
BY DEF Fun

(* What a set-up of n makes of the OLD_ of a function. *)
Older(g, n) == IF g.name \in Covers[n] THEN g.old + 1 ELSE g.old

(* A set-up renames the functions of its name and of the longer ones, and  *)
(* adds its own.                                                           *)
LEMMA RenamedIs ==
    ASSUME rc \in Seq(Fun), NEW n \in Name, NEW f \in Fun
    PROVE  /\ Renamed(n, f) \in Seq(Fun)
           /\ Len(Renamed(n, f)) = Len(rc) + 1
           /\ Renamed(n, f)[Len(rc) + 1] = f
           /\ \A i \in 1..Len(rc) :
                 /\ Renamed(n, f)[i].name = rc[i].name
                 /\ Renamed(n, f)[i].id = rc[i].id
                 /\ Renamed(n, f)[i].old = Older(rc[i], n)
<1> DEFINE r == [i \in DOMAIN rc |-> [rc[i] EXCEPT !.old = Older(rc[i], n)]]
<1>1. Len(rc) \in Nat /\ DOMAIN rc = 1..Len(rc) /\ \A i \in 1..Len(rc) : rc[i] \in Fun
  BY LenProperties
<1>2. \A g \in Fun : Older(g, n) \in Nat
  BY DEF Fun, Older
<1>3. \A i \in 1..Len(rc) :
         /\ r[i] \in Fun /\ r[i].name = rc[i].name /\ r[i].id = rc[i].id
         /\ r[i].old = Older(rc[i], n)
  BY <1>1, <1>2, OldSet
<1>4. r \in [1..Len(rc) -> Fun]
  BY <1>1, <1>3
<1>5. Renamed(n, f) = Append(r, f)
  BY DEF Renamed, Older
<1> HIDE DEF r
<1>6. r \in Seq(Fun) /\ Len(r) = Len(rc)
  BY <1>1, <1>4, SeqDef, LenProperties
<1>7. /\ Append(r, f) \in Seq(Fun) /\ Len(Append(r, f)) = Len(rc) + 1
      /\ Append(r, f)[Len(rc) + 1] = f
      /\ \A i \in 1..Len(rc) : Append(r, f)[i] = r[i]
  BY <1>1, <1>6, AppendProperties
<1> QED
  BY <1>3, <1>5, <1>7

(* A set-up keeps what is known of the functions.                          *)
LEMMA SetUpRc ==
    ASSUME IInv, NEW n \in Name, SetUp(n)
    PROVE  RcOK'
<1> USE LegacyAssumption
<1> DEFINE f == [name |-> n, old |-> 0, kind |-> "whole", id |-> setups + 1]
           len == Len(rc)
<1>1. /\ RcOK /\ setups \in Nat /\ setups < MaxSetup /\ setups' = setups + 1
      /\ latest' = [latest EXCEPT ![n] = setups + 1]
      /\ shadowed' = (shadowed \ {n}) \cup {m \in Covers[n] \ {n} : latest[m] # 0}
  BY DEF IInv, CountOK, SetUp
<1>2. f \in Fun
  BY <1>1 DEF Fun, Kind
<1>3. rc \in Seq(Fun) /\ rc' = Renamed(n, f)
  BY <1>1 DEF RcOK, SetUp
<1>4. len \in Nat /\ \A i \in 1..len : rc[i] \in Fun
  BY <1>3, LenProperties
<1>5. /\ rc' \in Seq(Fun) /\ Len(rc') = len + 1 /\ rc'[len + 1] = f
      /\ \A i \in 1..len :
            rc'[i].name = rc[i].name /\ rc'[i].id = rc[i].id /\ rc'[i].old = Older(rc[i], n)
  BY <1>2, <1>3, RenamedIs
<1>6. ASSUME NEW i \in 1..len
      PROVE  /\ rc'[i].name = rc[i].name /\ rc'[i].id = rc[i].id
             /\ rc'[i].old = IF rc[i].name \in Covers[n] THEN rc[i].old + 1 ELSE rc[i].old
             /\ rc[i].old \in Nat
  BY <1>4, <1>5 DEF Fun, Older
<1>7. rc'[len + 1].name = n /\ rc'[len + 1].id = setups + 1 /\ rc'[len + 1].old = 0
  BY <1>5
<1> HIDE DEF f
<1>8. \A i \in 1..len : rc[i].id \in 1..setups /\ rc[i].old + rc[i].id <= setups
  BY <1>1 DEF RcOK
<1>9. latest' \in [Name -> 0..MaxSetup] /\ shadowed' \subseteq Name
  BY <1>1 DEF RcOK
<1>10. \A i \in 1..len + 1 : rc'[i].id \in 1..setups' /\ rc'[i].old + rc'[i].id <= setups'
  <2> TAKE i \in 1..len + 1
  <2>1. CASE i = len + 1
    BY <1>1, <1>7, <2>1
  <2>2. CASE i \in 1..len
    BY <1>1, <1>6, <1>8, <2>2
  <2> QED
    BY <1>4, <2>1, <2>2
<1>11. \A i, j \in 1..len + 1 : rc'[i].name = rc'[j].name /\ rc'[i].old = rc'[j].old => i = j
  <2> TAKE i, j \in 1..len + 1
  <2>1. CASE i \in 1..len /\ j \in 1..len
    <3>1. rc[i].name = rc[j].name /\ rc[i].old = rc[j].old => i = j
      BY <1>1, <2>1 DEF RcOK
    <3> QED
      BY <1>6, <2>1, <3>1
  <2>2. CASE i = len + 1 /\ j \in 1..len
    BY <1>6, <1>7, <2>2
  <2>3. CASE j = len + 1 /\ i \in 1..len
    BY <1>6, <1>7, <2>3
  <2> QED
    BY <1>4, <2>1, <2>2, <2>3
<1>12. ASSUME NEW m \in Name, latest'[m] # 0
       PROVE  \E i \in 1..len + 1 :
                 /\ rc'[i].name = m /\ rc'[i].id = latest'[m]
                 /\ (m \notin shadowed' => rc'[i].old = 0)
  <2>1. CASE m = n
    BY <1>1, <1>4, <1>7, <2>1 DEF RcOK
  <2>2. CASE m # n
    <3>1. latest'[m] = latest[m]
      BY <1>1, <2>2 DEF RcOK
    <3>2. PICK i \in 1..len : rc[i].name = m /\ rc[i].id = latest[m]
                              /\ (m \notin shadowed => rc[i].old = 0)
      BY <1>1, <1>12, <3>1 DEF RcOK
    <3>3. m \notin shadowed' => m \notin shadowed /\ m \notin Covers[n]
      BY <1>1, <1>12, <2>2, <3>1
    <3> QED
      BY <1>4, <1>6, <3>1, <3>2, <3>3
  <2> QED
    BY <2>1, <2>2
<1>13. ASSUME NEW m \in shadowed'
       PROVE  latest'[m] # 0 /\ \A i \in 1..len + 1 : rc'[i].name = m => rc'[i].old > 0
  <2>1. m # n /\ m \in Name
    BY <1>1, <1>9
  <2>2. latest'[m] = latest[m]
    BY <1>1, <2>1 DEF RcOK
  <2>3. CASE m \in Covers[n] /\ latest[m] # 0
    <3>1. \A i \in 1..len : rc[i].name = m => rc'[i].old > 0
      BY <1>6, <2>3
    <3> QED
      BY <1>4, <1>6, <1>7, <2>1, <2>2, <2>3, <3>1
  <2>4. CASE m \in shadowed
    <3>1. latest[m] # 0 /\ \A i \in 1..len : rc[i].name = m => rc[i].old > 0
      BY <1>1, <2>4 DEF RcOK
    <3> QED
      BY <1>4, <1>6, <1>7, <2>1, <2>2, <3>1
  <2> QED
    BY <1>1, <2>3, <2>4
<1> QED
  BY <1>5, <1>9, <1>10, <1>11, <1>12, <1>13 DEF RcOK

(* An edit by hand changes the kind of a function and nothing else.        *)
LEMMA EditRc ==
    ASSUME IInv, NEW i \in DOMAIN rc, EditByHand(i)
    PROVE  RcOK'
<1>1. RcOK /\ UNCHANGED <<setups, latest, shadowed>>
  BY DEF IInv, EditByHand, setup
<1>2. rc \in Seq(Fun) /\ i \in 1..Len(rc) /\ \A j \in 1..Len(rc) : rc[j] \in Fun
  BY <1>1, LenProperties DEF RcOK
<1>3. PICK k \in {"partial", "invalid"} : rc' = [rc EXCEPT ![i] = [rc[i] EXCEPT !.kind = k]]
  BY DEF EditByHand
<1>4. [rc[i] EXCEPT !.kind = k] \in Fun
  BY <1>2 DEF Fun, Kind
<1>5. /\ rc' \in Seq(Fun) /\ Len(rc') = Len(rc)
      /\ \A j \in 1..Len(rc) : rc'[j] = IF j = i THEN [rc[i] EXCEPT !.kind = k] ELSE rc[j]
  BY <1>2, <1>3, <1>4, ExceptSeq
<1>6. \A j \in 1..Len(rc) :
         rc'[j].name = rc[j].name /\ rc'[j].id = rc[j].id /\ rc'[j].old = rc[j].old
  BY <1>2, <1>5 DEF Fun
<1>7. /\ \A j \in 1..Len(rc) : rc'[j].id \in 1..setups /\ rc'[j].old + rc'[j].id <= setups
      /\ \A j, l \in 1..Len(rc) : rc'[j].name = rc'[l].name /\ rc'[j].old = rc'[l].old => j = l
  BY <1>1, <1>6 DEF RcOK
<1>8. \A n \in Name : latest[n] # 0 =>
         \E j \in 1..Len(rc) :
            rc'[j].name = n /\ rc'[j].id = latest[n] /\ (n \notin shadowed => rc'[j].old = 0)
  BY <1>1, <1>6 DEF RcOK
<1>9. \A n \in shadowed :
         latest[n] # 0 /\ \A j \in 1..Len(rc) : rc'[j].name = n => rc'[j].old > 0
  BY <1>1, <1>6 DEF RcOK
<1>10. latest \in [Name -> 0..MaxSetup] /\ shadowed \subseteq Name
  BY <1>1 DEF RcOK
<1> QED
  BY <1>1, <1>5, <1>7, <1>8, <1>9, <1>10 DEF RcOK

(* No other step changes the functions.                                    *)
LEMMA NextRc ==
    ASSUME IInv, [Next]_vars
    PROVE  RcOK'
<1>1. ASSUME NEW n \in Name, SetUp(n) PROVE RcOK'
  BY <1>1, SetUpRc
<1>2. ASSUME NEW i \in DOMAIN rc, EditByHand(i) PROVE RcOK'
  BY <1>2, EditRc
<1>3. CASE UNCHANGED <<rc, setups, latest, shadowed>>
  BY <1>3 DEF IInv, RcOK
<1> QED
  BY <1>1, <1>2, <1>3
  DEF Next, DeleteBackup, ExtraFile, ExtraFileGone, Stash, Pull, Pop, InterruptUpdate, Resolve,
      AddExports, PortRaises, PortReads, Choose, UnknownName, Store, OtherCommand, PortAgain, vars, rcfile, setup

-----------------------------------------------------------------------------
(* The backups *)

(* There is always room for one more backup. *)
LEMMA CountBound ==
    ASSUME CountOK
    PROVE  /\ Count \in Nat /\ Count <= MaxSetup + MaxUpdates
           /\ setups < MaxSetup \/ upd # "idle" => Count < MaxSetup + MaxUpdates
           /\ 1 + Count + faults <= MaxVer + 1 /\ MaxVer \in Nat
BY LegacyAssumption DEF CountOK, Count, Pending, MaxVer

(* The backups are finitely many. *)
LEMMA CopiesType ==
    ASSUME MaxVer \in Nat, bkp \in [1..MaxVer -> 0..MaxVer + 1]
    PROVE  /\ IsFiniteSet({i \in DOMAIN bkp : bkp[i] # 0})
           /\ Copies \in Nat
<1>1. IsFiniteSet(1..MaxVer)
  BY FS_Interval
<1>2. {i \in DOMAIN bkp : bkp[i] # 0} \subseteq 1..MaxVer
  OBVIOUS
<1>3. IsFiniteSet({i \in DOMAIN bkp : bkp[i] # 0})
  BY <1>1, <1>2, FS_Subset
<1> QED
  BY <1>3, FS_CardinalityType DEF Copies

(* A copy saves the version that is about to be replaced: its number is    *)
(* not that of an older one.                                               *)
LEMMA CopySaves ==
    ASSUME CountOK, SavedOK, CopyRc, Count < MaxSetup + MaxUpdates, extra' = extra
    PROVE  /\ bkp' \in [1..MaxVer -> 0..MaxVer + 1]
           /\ replaced' \subseteq 1..MaxVer + 1
           /\ unsaved' \in BOOLEAN
           /\ unsaved' \/ (/\ Copies' <= Count + 1
                           /\ \A i \in 1..MaxVer : bkp'[i] # 0 => i <= Copies' + extra')
           /\ EveryVersionSaved'
           /\ faults' \in Nat /\ faults <= faults'
<1>1. /\ Count \in Nat /\ 1 + Count + faults <= MaxVer + 1 /\ MaxVer \in Nat
      /\ faults \in Nat /\ faults <= MaxFaults /\ ver \in 1..MaxVer + 1
      /\ extra \in Nat /\ extra <= faults
  BY CountBound DEF CountOK, SavedOK
<1>2. replaced' = replaced \cup {ver} /\ replaced' \subseteq 1..MaxVer + 1
  BY <1>1 DEF CopyRc, SavedOK
<1>3. CASE /\ bkp' = [bkp EXCEPT ![BackupNumber] = ver]
           /\ UNCHANGED <<faults, unsaved>>
  <2>1. bkp' \in [1..MaxVer -> 0..MaxVer + 1]
    <3>1. bkp \in [1..MaxVer -> 0..MaxVer + 1] /\ ver \in 0..MaxVer + 1
      BY <1>1 DEF SavedOK
    <3> QED
      BY <1>3, <3>1
  <2>2. CASE unsaved
    BY <1>1, <1>2, <1>3, <2>1, <2>2 DEF SavedOK, EveryVersionSaved
  <2>3. CASE ~unsaved
    <3> DEFINE used == {i \in DOMAIN bkp : bkp[i] # 0}
    <3>1. /\ bkp \in [1..MaxVer -> 0..MaxVer + 1] /\ Copies <= Count
          /\ \A i \in 1..MaxVer : bkp[i] # 0 => i <= Copies + extra
      BY <2>3 DEF SavedOK, Numbered
    <3>2. Copies \in Nat /\ IsFiniteSet(used) /\ Cardinality(used) = Copies
      BY <1>1, <3>1, CopiesType DEF Copies
    <3>3. BackupNumber \in 1..MaxVer /\ BackupNumber = Copies + 1 + extra
      <4>1. Copies + 1 <= MaxSetup + MaxUpdates /\ extra <= MaxFaults
        BY <1>1, <3>1, <3>2, LegacyAssumption
      <4> QED
        BY <1>1, <3>2, <4>1, LegacyAssumption DEF BackupNumber, MaxVer
    <3>4. \A i \in 1..MaxVer : bkp'[i] = IF i = BackupNumber THEN ver ELSE bkp[i]
      BY <1>3, <3>1
    <3>5. BackupNumber \notin used
      BY <1>1, <3>1, <3>2, <3>3
    <3>6. {i \in DOMAIN bkp' : bkp'[i] # 0} = used \cup {BackupNumber}
      BY <1>1, <2>1, <3>1, <3>3, <3>4
    <3>7. Copies' = Copies + 1
      <4>1. Cardinality(used \cup {BackupNumber}) = Cardinality(used) + 1
        BY <3>2, <3>5, FS_AddElement
      <4> QED
        BY <3>2, <3>6, <4>1 DEF Copies
    <3>8. /\ Copies' <= Count + 1
          /\ \A i \in 1..MaxVer : bkp'[i] # 0 => i <= Copies' + extra'
      BY <1>1, <3>1, <3>2, <3>3, <3>4, <3>7
    <3>9. ASSUME NEW v \in replaced' PROVE \E i \in 1..MaxVer : bkp'[i] = v
      <4>1. CASE v = ver
        BY <3>3, <3>4, <4>1
      <4>2. CASE v \in replaced
        <5>1. PICK i \in DOMAIN bkp : bkp[i] = v
          BY <2>3, <4>2 DEF SavedOK, EveryVersionSaved
        <5>2. i \in 1..MaxVer /\ v # 0
          BY <3>1, <4>2, <5>1 DEF SavedOK
        <5>3. i # BackupNumber
          BY <3>1, <3>5, <5>1, <5>2
        <5> QED
          BY <3>4, <5>1, <5>2, <5>3
      <4> QED
        BY <1>2, <4>1, <4>2
    <3>10. EveryVersionSaved'
      BY <2>1, <3>9 DEF EveryVersionSaved
    <3> QED
      BY <1>1, <1>2, <1>3, <2>1, <3>8, <3>10 DEF SavedOK
  <2> QED
    BY <2>2, <2>3
<1>4. CASE Fault /\ unsaved' = TRUE /\ UNCHANGED bkp
  BY <1>1, <1>2, <1>4 DEF SavedOK, EveryVersionSaved, Fault
<1> QED
  BY <1>3, <1>4 DEF CopyRc

(* The bound of the versions grows with the backups and the faults. *)
LEMMA Grow ==
    \A v, w, c, d, f, g \in Nat :
        /\ 1 <= v /\ v <= 1 + c + f /\ f <= g
        /\ \/ w = v /\ c <= d
           \/ (w = v \/ w = v + 1) /\ d = c + 1
        => 1 <= w /\ w <= 1 + d + g
OBVIOUS

(* A bound on the numbers of the backups stays one with more extra files.  *)
LEMMA Wider == \A i, c, e, f \in Nat : i <= c + e /\ e <= f => i <= c + f
OBVIOUS

(* A step that rewrites the file copies it first.                          *)
LEMMA NextSaved ==
    ASSUME IInv, [Next]_vars
    PROVE  SavedOK'
<1> CountOK /\ SavedOK /\ CountOK'
  BY NextCount DEF IInv
<1>b. Count \in Nat /\ MaxVer \in Nat /\ faults \in Nat /\ faults' \in Nat
  BY CountBound DEF CountOK
<1>v. /\ ver \in Nat /\ 1 <= ver /\ ver <= 1 + Count + faults
      /\ bkp \in [1..MaxVer -> 0..MaxVer + 1]
      /\ unsaved \/ Numbered
      /\ extra \in Nat /\ extra <= faults /\ Copies \in Nat
      /\ exported \in BOOLEAN /\ unsaved \in BOOLEAN /\ replaced \subseteq 1..MaxVer + 1
  BY <1>b, CopiesType DEF SavedOK
<1>1. ASSUME CopyRc, extra' = extra, Count < MaxSetup + MaxUpdates, Count' = Count + 1,
             ver' = ver \/ ver' = ver + 1, exported' \in BOOLEAN
      PROVE  SavedOK'
  <2>1. ver' \in Nat /\ 1 <= ver' /\ ver' <= 1 + Count' + faults'
    <3>1. faults <= faults' /\ Count' \in Nat
      BY <1>b, <1>1, CopySaves
    <3> QED
      BY <1>b, <1>v, <1>1, <3>1, Grow
  <2>2. extra' \in Nat /\ extra' <= faults'
    BY <1>b, <1>v, <1>1, CopySaves
  <2> QED
    BY <1>1, <2>1, <2>2, CopySaves DEF SavedOK, Numbered
<1>2. ASSUME UNCHANGED <<exported, ver, bkp, replaced, unsaved>>, Count <= Count', Count' \in Nat,
             faults <= faults', extra' = extra \/ (extra' = extra + 1 /\ faults' = faults + 1)
      PROVE  SavedOK'
  <2>1. ver' \in Nat /\ 1 <= ver' /\ ver' <= 1 + Count' + faults'
    BY <1>b, <1>v, <1>2, Grow
  <2>2. EveryVersionSaved'
    BY <1>2 DEF SavedOK, EveryVersionSaved
  <2>3. Copies' = Copies
    BY <1>2 DEF Copies
  <2>4. extra' \in Nat /\ extra' <= faults' /\ extra <= extra'
    BY <1>b, <1>v, <1>2
  <2>5. ASSUME Numbered PROVE Numbered'
    <3>1. Copies' <= Count'
      BY <1>b, <1>v, <1>2, <2>3, <2>5 DEF Numbered
    <3>2. ASSUME NEW i \in 1..MaxVer, bkp'[i] # 0 PROVE i <= Copies' + extra'
      <4>1. i <= Copies + extra
        BY <1>2, <2>5, <3>2 DEF Numbered
      <4>2. i \in Nat
        BY <1>b
      <4> QED
        BY <1>v, <2>3, <2>4, <4>1, <4>2, Wider
    <3>3. MaxVer' = MaxVer
      BY DEF MaxVer
    <3> QED
      BY <3>1, <3>2, <3>3 DEF Numbered
  <2> QED
    BY <1>v, <1>2, <2>1, <2>2, <2>4, <2>5 DEF SavedOK
<1>3. ASSUME NEW n \in Name, SetUp(n) PROVE SavedOK'
  <2>1. setups < MaxSetup /\ CopyRc /\ ver' = ver + 1 /\ exported' = FALSE /\ extra' = extra
    BY <1>3 DEF SetUp
  <2>2. Count' = Count + 1
    BY <1>3 DEF SetUp, clone, Count, Pending, CountOK
  <2> QED
    BY <1>1, <2>1, <2>2, CountBound
<1>4. ASSUME NEW i \in DOMAIN rc, EditByHand(i) PROVE SavedOK'
  <2>1. Count' = Count /\ faults' = faults + 1
    BY <1>4 DEF EditByHand, clone, setup, Fault, Count, Pending
  <2>2. ver' = ver + 1 /\ UNCHANGED <<exported, bkp, extra, replaced, unsaved>>
    BY <1>4 DEF EditByHand
  <2>3. Copies' = Copies
    BY <2>2 DEF Copies
  <2>4. /\ ver' \in Nat /\ 1 <= ver' /\ ver' <= 1 + Count' + faults'
        /\ extra' \in Nat /\ extra' <= faults'
    BY <1>b, <1>v, <2>1, <2>2
  <2> QED
    BY <1>v, <2>1, <2>2, <2>3, <2>4 DEF SavedOK, EveryVersionSaved, Numbered
<1>5. ASSUME NEW i \in DOMAIN bkp, DeleteBackup(i) PROVE SavedOK'
  <2>1. Count' = Count /\ faults' = faults + 1
    BY <1>5 DEF DeleteBackup, clone, setup, Fault, Count, Pending
  <2>2. /\ bkp' = [bkp EXCEPT ![i] = 0] /\ unsaved' = TRUE
        /\ UNCHANGED <<exported, ver, extra, replaced>>
    BY <1>5 DEF DeleteBackup
  <2>3. bkp' \in [1..MaxVer -> 0..MaxVer + 1]
    BY <1>b, <2>2 DEF SavedOK
  <2>4. /\ ver' \in Nat /\ 1 <= ver' /\ ver' <= 1 + Count' + faults'
        /\ extra' \in Nat /\ extra' <= faults'
    BY <1>b, <1>v, <2>1, <2>2
  <2> QED
    BY <1>v, <2>2, <2>3, <2>4 DEF SavedOK, EveryVersionSaved
<1>x. CASE ExtraFile
  <2>1. Count' = Count /\ faults' = faults + 1 /\ extra' = extra + 1
    BY <1>x DEF ExtraFile, clone, setup, Fault, Count, Pending
  <2> QED
    BY <1>b, <1>2, <1>x, <2>1 DEF ExtraFile
<1>g. CASE ExtraFileGone
  <2>1. /\ Count' = Count /\ faults' = faults /\ extra > 0 /\ extra' = extra - 1
        /\ unsaved' = TRUE /\ UNCHANGED <<exported, ver, bkp, replaced>>
    BY <1>g DEF ExtraFileGone, clone, setup, Count, Pending
  <2>2. extra' \in Nat /\ extra' <= faults'
    BY <1>b, <1>v, <2>1
  <2> QED
    BY <1>v, <2>1, <2>2 DEF SavedOK, EveryVersionSaved
<1>6. CASE Stash
  <2>1. Count' = Count
    BY <1>6 DEF Stash, setup, Count, Pending, CountOK
  <2>2. faults <= faults'
    BY <1>b, <1>6 DEF Stash, Fault
  <2> QED
    BY <1>b, <1>2, <1>6, <2>1, <2>2 DEF Stash, rcfile
<1>7. CASE Pull \/ Pop \/ Resolve
  <2>1. Count' = Count /\ faults <= faults'
    BY <1>b, <1>7 DEF Pull, Pop, Resolve, setup, Count, Pending, Fault
  <2> QED
    BY <1>b, <1>2, <1>7, <2>1 DEF Pull, Pop, Resolve, rcfile
<1>i. CASE InterruptUpdate
  <2>1. Count' = Count + 1 /\ faults <= faults'
    BY <1>b, <1>i DEF InterruptUpdate, setup, Count, Pending, Fault, CountOK
  <2> QED
    BY <1>b, <1>2, <1>i, <2>1 DEF InterruptUpdate, rcfile
<1>8. CASE AddExports
  <2>1. /\ upd # "idle" /\ CopyRc /\ (ver' = ver \/ ver' = ver + 1) /\ exported' = TRUE
        /\ extra' = extra
    BY <1>8 DEF AddExports
  <2>2. Count' = Count + 1
    BY <1>8 DEF AddExports, setup, Count, Pending, CountOK
  <2> QED
    BY <1>1, <2>1, <2>2, CountBound
<1>9. ASSUME UNCHANGED <<rcfile, setup, upd, updates, replaced, unsaved>>, faults <= faults'
      PROVE  SavedOK'
  <2>1. Count' = Count
    BY <1>9 DEF setup, Count, Pending
  <2> QED
    BY <1>b, <1>2, <1>9, <2>1 DEF rcfile
<1>10. CASE PortRaises \/ PortReads \/ UnknownName \/ Store \/ PortAgain \/ UNCHANGED vars
  BY <1>b, <1>9, <1>10
  DEF PortRaises, PortReads, UnknownName, Store, PortAgain, vars, clone, Fault
<1>11. ASSUME NEW keys, Choose(keys) PROVE SavedOK'
  BY <1>b, <1>9, <1>11 DEF Choose, clone
<1>12. ASSUME NEW k \in Key, OtherCommand(k) PROVE SavedOK'
  BY <1>b, <1>9, <1>12 DEF OtherCommand, clone, Fault
<1>13. Name \X {0} \subseteq Key
  BY LegacyAssumption DEF Key, Old
<1> QED
  BY <1>3, <1>4, <1>5, <1>x, <1>g, <1>6, <1>7, <1>i, <1>8, <1>10, <1>11, <1>12, <1>13 DEF Next

-----------------------------------------------------------------------------
(* The clone *)

(* What is put before a stash is what a pop takes. *)
LEMMA PushPop ==
    ASSUME NEW s \in Seq({"mine", "older"})
    PROVE  /\ <<"mine">> \o s \in Seq({"mine", "older"})
           /\ <<"mine">> \o s # <<>>
           /\ Tail(<<"mine">> \o s) = s
<1> DEFINE r == <<"mine">> \o s
<1>1. <<"mine">> \in Seq({"mine", "older"}) /\ Len(<<"mine">>) = 1
  OBVIOUS
<1>2. Len(s) \in Nat
  BY LenProperties
<1>3. /\ r \in Seq({"mine", "older"}) /\ Len(r) = 1 + Len(s)
      /\ \A i \in 1..1 + Len(s) : r[i] = IF i <= 1 THEN <<"mine">>[i] ELSE s[i - 1]
  BY <1>1, <1>2, ConcatProperties
<1> HIDE DEF r
<1>4. r # <<>>
  BY <1>2, <1>3, EmptySeq
<1>5. /\ Tail(r) \in Seq({"mine", "older"}) /\ Len(Tail(r)) = Len(s)
      /\ \A i \in 1..Len(s) : Tail(r)[i] = r[i + 1]
  BY <1>2, <1>3, <1>4, HeadTailProperties
<1>6. \A i \in 1..Len(s) : Tail(r)[i] = s[i]
  BY <1>2, <1>3, <1>5
<1>7. Tail(r) = s
  BY <1>5, <1>6, SeqEqual
<1> QED
  BY <1>3, <1>4, <1>7 DEF r

(* Only the steps of update-rtw change the clone.                          *)
LEMMA NextClone ==
    ASSUME IInv, [Next]_vars
    PROVE  CloneOK'
<1> CountOK /\ CloneOK
  BY DEF IInv
<1>t. /\ tree \in BOOLEAN /\ stash \in Seq({"mine", "older"}) /\ conflict \in BOOLEAN
      /\ trouble \subseteq {"stash", "pop", "interrupt"}
      /\ before.tree \in BOOLEAN /\ before.stash \in Seq({"mine", "older"})
  BY DEF CloneOK
<1>1. CASE Stash
  <2>1. before' = [tree |-> tree, stash |-> stash] /\ upd' = "pull" /\ conflict' = conflict
    BY <1>1 DEF Stash
  <2>2. before'.tree = tree /\ before'.stash = stash
    BY <2>1
  <2>3. CASE tree' = FALSE /\ trouble' = {} /\ stash' = IF tree THEN <<"mine">> \o stash ELSE stash
    <3>1. stash' \in Seq({"mine", "older"})
      BY <1>t, <2>3, PushPop
    <3> QED
      BY <1>t, <2>1, <2>2, <2>3, <3>1 DEF CloneOK, LocalChangesReturn
  <2>4. CASE trouble' = {"stash"} /\ UNCHANGED <<tree, stash>>
    BY <1>t, <2>1, <2>2, <2>4 DEF CloneOK, LocalChangesReturn
  <2> QED
    BY <1>1, <2>3, <2>4 DEF Stash
<1>2. CASE Pull
  <2>1. /\ upd = "pull" /\ upd' = "pop" /\ UNCHANGED <<tree, stash, before, trouble, updates>>
        /\ conflict' \in BOOLEAN
    BY <1>t, <1>2 DEF Pull
  <2> QED
    BY <2>1 DEF CloneOK, LocalChangesReturn
<1>3. CASE Pop
  <2>1. upd = "pop" /\ upd' = "rc" /\ UNCHANGED <<before, updates>>
    BY <1>3 DEF Pop
  <2>2. \/ /\ ~tree
           /\ before.tree => stash = <<"mine">> \o before.stash
           /\ ~before.tree => stash = before.stash
        \/ "stash" \in trouble /\ tree = before.tree /\ stash = before.stash
    BY <2>1 DEF CloneOK
  <2>3. CASE stash = <<>> /\ UNCHANGED <<tree, stash, conflict, trouble>>
    <3>1. stash = before.stash /\ tree = before.tree
      BY <1>t, <2>2, <2>3, PushPop
    <3> QED
      BY <1>t, <2>1, <2>3, <3>1 DEF CloneOK, LocalChangesReturn
  <2>4. CASE stash # <<>> /\ tree' = TRUE /\ stash' = Tail(stash) /\ UNCHANGED <<conflict, trouble>>
    <3>1. stash' \in Seq({"mine", "older"})
      BY <1>t, <2>4, HeadTailProperties
    <3>2. \/ stash' = before.stash
          \/ /\ before.stash # <<>> /\ stash' = Tail(before.stash)
             /\ ~before.tree \/ "stash" \in trouble
      BY <1>t, <2>2, <2>4, PushPop
    <3> QED
      BY <1>t, <2>1, <2>4, <3>1, <3>2 DEF CloneOK, LocalChangesReturn
  <2>5. stash = before.stash \/ (before.tree /\ stash = <<"mine">> \o before.stash)
    BY <1>t, <2>2
  <2>6. CASE trouble' = trouble \cup {"pop"} /\ UNCHANGED <<tree, stash, conflict>>
    <3>1. before.tree => tree \/ stash = <<"mine">> \o before.stash
      BY <2>2
    <3> QED
      BY <1>t, <2>1, <2>5, <2>6, <3>1 DEF CloneOK, LocalChangesReturn
  <2>7. CASE tree' = TRUE /\ conflict' = TRUE /\ UNCHANGED <<stash, trouble>>
    BY <1>t, <2>1, <2>5, <2>7 DEF CloneOK, LocalChangesReturn
  <2> QED
    BY <1>3, <2>3, <2>4, <2>6, <2>7 DEF Pop
<1>i. CASE InterruptUpdate
  <2>1. /\ upd \in {"pull", "pop"} /\ upd' = "idle" /\ trouble' = trouble \cup {"interrupt"}
        /\ UNCHANGED <<tree, stash, conflict, before, updates>>
    BY <1>i DEF InterruptUpdate
  <2>2. /\ before.tree => tree \/ stash = <<"mine">> \o before.stash
        /\ stash = before.stash \/ (before.tree /\ stash = <<"mine">> \o before.stash)
    BY <1>t, <2>1 DEF CloneOK
  <2> QED
    BY <1>t, <2>1, <2>2 DEF CloneOK, LocalChangesReturn
<1>r. CASE Resolve
  <2>1. conflict' = FALSE /\ UNCHANGED <<tree, stash, upd, before, trouble, updates>>
    BY <1>r DEF Resolve
  <2> QED
    BY <1>t, <2>1 DEF CloneOK, LocalChangesReturn
<1>4. CASE AddExports
  <2>1. /\ upd = "rc" /\ upd' = "idle"
        /\ UNCHANGED <<tree, stash, conflict, before, trouble, updates>>
    BY <1>4 DEF AddExports
  <2> QED
    BY <1>t, <2>1 DEF CloneOK, LocalChangesReturn
<1>5. CASE UNCHANGED clone
  BY <1>t, <1>5 DEF clone, CloneOK, LocalChangesReturn
<1> QED
  BY <1>1, <1>2, <1>3, <1>i, <1>r, <1>4, <1>5
  DEF Next, SetUp, EditByHand, DeleteBackup, ExtraFile, ExtraFileGone, PortRaises, PortReads, Choose, UnknownName, Store,
      OtherCommand, PortAgain, vars

-----------------------------------------------------------------------------
(* port *)

(* No two functions have one key, so what port takes for it is that one. *)
LEMMA ExtractIs ==
    ASSUME RcOK, NEW k \in Key
    PROVE  /\ \A i \in 1..Len(rc) :
                 KeyOf(rc[i]) = k /\ rc[i].name \in Wordlike /\ rc[i].kind = "whole"
                    => Extract(k) = rc[i].id
           /\ (\A i \in 1..Len(rc) :
                  ~(KeyOf(rc[i]) = k /\ rc[i].name \in Wordlike /\ rc[i].kind = "whole"))
                 => Extract(k) = 0
<1> DEFINE usable == {i \in Seen : KeyOf(rc[i]) = k /\ rc[i].kind = "whole"}
<1>1. /\ Len(rc) \in Nat /\ DOMAIN rc = 1..Len(rc)
      /\ Seen = {i \in 1..Len(rc) : rc[i].name \in Wordlike}
  BY LenProperties DEF RcOK, Seen
<1>2. Extract(k) = IF usable = {} THEN 0
                   ELSE rc[CHOOSE i \in usable : \A j \in usable : i >= j].id
  BY DEF Extract
<1>3. ASSUME NEW i \in usable PROVE usable = {i} /\ i \in Nat
  BY <1>1, <1>3 DEF RcOK, KeyOf
<1>4. ASSUME NEW i \in usable PROVE Extract(k) = rc[i].id
  <2>1. (CHOOSE l \in usable : \A j \in usable : l >= j) = i
    BY <1>3, <1>4
  <2> QED
    BY <1>2, <1>4, <2>1
<1>5. usable = {} => Extract(k) = 0
  BY <1>2
<1> QED
  BY <1>1, <1>4, <1>5

(* port reads a set-up or nothing for each key.                            *)
LEMMA ExtractType ==
    ASSUME CountOK, RcOK, NEW k \in Key
    PROVE  Extract(k) \in 0..MaxSetup
<1>1. \A i \in 1..Len(rc) : rc[i].id \in 0..MaxSetup
  BY LegacyAssumption DEF RcOK, CountOK
<1>2. 0 \in 0..MaxSetup
  BY LegacyAssumption
<1> QED
  BY <1>1, <1>2, ExtractIs

(* A finite set of keys is a list of keys. *)
LEMMA ListType ==
    ASSUME NEW keys, keys \subseteq Key
    PROVE  SetToSeq(keys) \in Seq(Key)
<1>1. IsFiniteSet(Key)
  <2>1. IsFiniteSet(0..MaxSetup) /\ IsFiniteSet(Name)
    BY LegacyAssumption, FS_Interval
  <2>2. IsFiniteSet(Name \X (0..MaxSetup))
    BY <2>1, FS_Product
  <2> QED
    BY <2>2 DEF Key, Old
<1>2. IsFiniteSet(keys)
  BY <1>1, FS_Subset
<1>3. /\ Cardinality(keys) \in Nat
      /\ \E f : f \in [1..Cardinality(keys) -> keys] /\ IsInjective(f)
  BY <1>2, FS_CardinalityType DEF ExistsBijection, Bijection, Injection
<1>4. SetToSeq(keys) \in [1..Cardinality(keys) -> keys]
  <2>1. PICK f \in [1..Cardinality(keys) -> keys] : IsInjective(f)
    BY <1>3
  <2> QED
    BY <2>1 DEF SetToSeq
<1>5. SetToSeq(keys) \in [1..Cardinality(keys) -> Key]
  BY <1>4
<1> QED
  BY <1>3, <1>5, SeqDef

(* A store changes one key, which port then reports.                       *)
LEMMA NextPort ==
    ASSUME IInv, [Next]_vars
    PROVE  PortOK'
<1> CountOK /\ RcOK /\ PortOK
  BY DEF IInv
<1>t. /\ pc \in {"idle", "choose", "store", "ended", "raised"}
      /\ script \in [Key -> 0..MaxSetup] /\ config \in [Key -> 0..MaxSetup + 1]
      /\ todo \in Seq(Key) /\ (pc = "store" => todo # <<>>)
      /\ ported \subseteq Key /\ asked \subseteq Key
      /\ pc \in {"idle", "choose"} => asked = {} /\ ported = {}
      /\ pc = "idle" => touched = {}
      /\ pc = "choose" => \A k \in Key \ touched : config[k] = found[k]
      /\ ReportIsTrue
  BY DEF PortOK
<1>m. MaxSetup \in Nat /\ 0..MaxSetup \subseteq 0..MaxSetup + 1
  BY LegacyAssumption
<1>1. CASE PortRaises
  BY <1>t, <1>1 DEF PortRaises, PortOK, ReportIsTrue
<1>2. CASE PortReads
  <2>1. script' \in [Key -> 0..MaxSetup]
    BY <1>2, ExtractType DEF PortReads
  <2>2. /\ pc = "idle" /\ pc' \in {"ended", "choose"} /\ found' = config
        /\ UNCHANGED <<todo, config, ported, asked, touched>>
    BY <1>2 DEF PortReads
  <2> QED
    BY <1>t, <2>1, <2>2 DEF PortOK, ReportIsTrue
<1>3. ASSUME NEW keys \in Seq(Key), Choose(keys) PROVE PortOK'
  <2>1. /\ pc = "choose" /\ todo' = keys /\ asked' = ToSet(keys)
        /\ pc' = IF keys = <<>> THEN "ended" ELSE "store"
        /\ UNCHANGED <<script, ported, config, found, touched>>
    BY <1>3 DEF Choose
  <2>2. asked' \subseteq Key
    BY <2>1, ElementOfSeq, LenProperties DEF ToSet
  <2>3. ReportIsTrue'
    BY <1>t, <2>1, <2>2 DEF ReportIsTrue
  <2> QED
    BY <1>t, <2>1, <2>2, <2>3 DEF PortOK
<1>4. CASE UnknownName
  BY <1>t, <1>4 DEF UnknownName, PortOK, ReportIsTrue
<1>5. CASE Store
  <2> DEFINE k == Head(todo)
  <2>1. /\ pc = "store" /\ script[k] # 0
        /\ UNCHANGED <<script, asked, found>>
    BY <1>5 DEF Store
  <2>2. k \in Key /\ Tail(todo) \in Seq(Key) /\ (Len(todo) # 1 => Tail(todo) # <<>>)
    <3>1. /\ todo \in Seq(Key) /\ todo # <<>> /\ Len(todo) \in Nat
      BY <1>t, <2>1, LenProperties
    <3>2. Head(todo) \in Key /\ Tail(todo) \in Seq(Key) /\ Len(Tail(todo)) = Len(todo) - 1
      BY <3>1, HeadTailProperties
    <3>3. Len(todo) # 1 => Len(Tail(todo)) # 0
      BY <3>1, <3>2
    <3> QED
      BY <3>2, <3>3, EmptySeq
  <2> HIDE DEF k
  <2>3. ASSUME NEW stored, NextName(stored)
        PROVE  /\ pc' \in {"ended", "store"} /\ todo' \in Seq(Key)
               /\ (pc' = "store" => todo' # <<>>) /\ ported' = ported \cup stored
    BY <2>2, <2>3 DEF NextName
  <2>4. CASE /\ config[k] = 0 /\ config' = [config EXCEPT ![k] = script[k]] /\ NextName({k})
             /\ UNCHANGED touched
    <3>1. config' \in [Key -> 0..MaxSetup + 1]
      BY <1>t, <1>m, <2>2, <2>4
    <3>2. \A j \in Key : config'[j] = IF j = k THEN script[k] ELSE config[j]
      BY <1>t, <2>2, <2>4
    <3>3. ported' = ported \cup {k} /\ ported' \subseteq Key
      BY <1>t, <2>2, <2>3, <2>4
    <3>4. ReportIsTrue'
      BY <1>t, <2>1, <2>4, <3>2, <3>3 DEF ReportIsTrue
    <3> QED
      BY <1>t, <2>1, <2>3, <2>4, <3>1, <3>3, <3>4 DEF PortOK
  <2>5. CASE NextName({}) /\ UNCHANGED <<config, touched>>
    <3>1. ported' = ported
      BY <2>5 DEF NextName
    <3>2. ReportIsTrue'
      BY <1>t, <2>1, <2>5, <3>1 DEF ReportIsTrue
    <3> QED
      BY <1>t, <2>1, <2>3, <2>5, <3>1, <3>2 DEF PortOK
  <2>6. CASE NextName({}) /\ config' = [j \in Key |-> 0] /\ touched' = Key
    <3>1. ported' = ported
      BY <2>6 DEF NextName
    <3>2. config' \in [Key -> 0..MaxSetup + 1]
      BY <1>m, <2>6
    <3>3. ReportIsTrue'
      BY <1>t, <2>1, <2>6 DEF ReportIsTrue
    <3> QED
      BY <1>t, <2>1, <2>3, <2>6, <3>1, <3>2, <3>3 DEF PortOK
  <2>7. CASE pc' = "raised" /\ UNCHANGED <<config, touched, todo, ported>>
    BY <1>t, <2>1, <2>7 DEF PortOK, ReportIsTrue
  <2> QED
    BY <1>5, <2>4, <2>5, <2>6, <2>7 DEF Store, k
<1>6. CASE PortAgain
  <2>1. todo' = <<>> /\ todo' \in Seq(Key)
    BY <1>6, EmptySeq DEF PortAgain
  <2>2. /\ pc' = "idle" /\ script' = [j \in Key |-> 0] /\ ported' = {} /\ asked' = {}
        /\ touched' = {} /\ config' = config
    BY <1>6 DEF PortAgain, NoPort
  <2>3. script' \in [Key -> 0..MaxSetup]
    BY <1>m, <2>2
  <2> QED
    BY <1>t, <2>1, <2>2, <2>3 DEF PortOK, ReportIsTrue
<1>7. ASSUME NEW k \in Key, OtherCommand(k) PROVE PortOK'
  <2>1. /\ config' = [config EXCEPT ![k] = IF config[k] = 0 THEN MaxSetup + 1 ELSE 0]
        /\ touched' = IF pc = "idle" THEN touched ELSE touched \cup {k}
        /\ UNCHANGED <<pc, script, todo, ported, asked, found>>
    BY <1>7 DEF OtherCommand
  <2>2. config' \in [Key -> 0..MaxSetup + 1]
    BY <1>t, <1>m, <2>1
  <2>3. \A j \in Key : j # k => config'[j] = config[j]
    BY <1>t, <2>1
  <2>4. ReportIsTrue'
    BY <1>t, <2>1, <2>3 DEF ReportIsTrue
  <2> QED
    BY <1>t, <2>1, <2>2, <2>3, <2>4 DEF PortOK
<1>8. CASE UNCHANGED port
  BY <1>t, <1>8 DEF port, PortOK, ReportIsTrue
<1>9. \A keys \in (SUBSET Offered) \cup {{<<n, 0>>} : n \in Name} : SetToSeq(keys) \in Seq(Key)
  <2>1. \A keys \in (SUBSET Offered) \cup {{<<n, 0>>} : n \in Name} : keys \subseteq Key
    BY <1>m DEF Offered, Key, Old
  <2> QED
    BY <2>1, ListType
<1>10. Name \X {0} \subseteq Key
  BY <1>m DEF Key, Old
<1> QED
  BY <1>1, <1>2, <1>3, <1>4, <1>5, <1>6, <1>7, <1>8, <1>9, <1>10
  DEF Next, SetUp, EditByHand, DeleteBackup, ExtraFile, ExtraFileGone, Stash, Pull, Pop,
      InterruptUpdate, Resolve, AddExports, vars

-----------------------------------------------------------------------------
(* The invariant holds in every state of every behaviour.                  *)
LEMMA Invariant == Spec => []IInv
<1>1. IInv /\ [Next]_vars => IInv'
  BY NextCount, NextRc, NextSaved, NextClone, NextPort DEF IInv
<1> QED
  BY InitInv, <1>1, PTL DEF Spec

(* The types are kept, within the bounds. *)
THEOREM TypeCorrect == Spec => []TypeOK
<1>1. IInv => TypeOK
  <2> SUFFICES ASSUME IInv PROVE TypeOK
    OBVIOUS
  <2> CountOK /\ RcOK /\ SavedOK /\ CloneOK /\ PortOK
    BY DEF IInv
  <2>1. rc \in Seq(Function)
    <3>1. Len(rc) \in Nat /\ rc \in [1..Len(rc) -> Fun]
      BY LenProperties DEF RcOK
    <3>2. ASSUME NEW i \in 1..Len(rc) PROVE rc[i] \in Function
      <4>1. rc[i] \in Fun
        BY <3>1
      <4>2. rc[i].id \in 1..setups /\ rc[i].old + rc[i].id <= setups /\ setups \in 0..MaxSetup
        BY DEF RcOK, CountOK
      <4>3. rc[i].id \in 1..MaxSetup /\ rc[i].old \in 0..MaxSetup
        BY <4>1, <4>2, LegacyAssumption DEF Fun
      <4> QED
        BY <4>1, <4>3 DEF Fun, Function, Old
    <3>3. rc \in [1..Len(rc) -> Function]
      BY <3>1, <3>2
    <3> QED
      BY <3>1, <3>3, SeqDef
  <2>2. ver \in 1..MaxVer + 1
    <3>1. Count \in Nat /\ faults \in Nat /\ MaxVer \in Nat /\ 1 + Count + faults <= MaxVer + 1
      BY CountBound DEF CountOK
    <3>2. ver \in Nat /\ 1 <= ver /\ ver <= 1 + Count + faults
      BY DEF SavedOK
    <3> QED
      BY <3>1, <3>2
  <2>3. extra \in 0..MaxFaults
    BY LegacyAssumption DEF SavedOK, CountOK
  <2> QED
    BY <2>1, <2>2, <2>3 DEF TypeOK, CountOK, RcOK, SavedOK, CloneOK, PortOK
<1> QED
  BY Invariant, <1>1, PTL

(* port finds the last set-up of each name of letters, digits and _, but   *)
(* for functions changed by hand or renamed with those of a shorter name;  *)
(* of the other names it finds none.                                       *)
THEOREM LastSetUpFound == Spec => []LastSetUpIsPorted
<1>1. IInv => LastSetUpIsPorted
  <2> SUFFICES ASSUME IInv, NEW n \in Name, latest[n] # 0
               PROVE  IF n \in Wordlike \ shadowed
                        THEN \/ Extract(<<n, 0>>) = latest[n]
                             \/ \E i \in DOMAIN rc : rc[i].id = latest[n] /\ rc[i].kind # "whole"
                        ELSE /\ Extract(<<n, 0>>) = 0
                             /\ \E i \in DOMAIN rc : rc[i].id = latest[n] /\ (n \in shadowed => rc[i].old > 0)
    BY DEF LastSetUpIsPorted
  <2>1. RcOK /\ DOMAIN rc = 1..Len(rc) /\ <<n, 0>> \in Key
    BY LenProperties, LegacyAssumption DEF IInv, RcOK, Key, Old
  <2>2. PICK i \in 1..Len(rc) : rc[i].name = n /\ rc[i].id = latest[n]
                                /\ (n \notin shadowed => rc[i].old = 0)
    BY <2>1 DEF RcOK
  <2>3. CASE n \in shadowed
    <3>1. \A j \in 1..Len(rc) : rc[j].name = n => rc[j].old > 0
      BY <2>1, <2>3 DEF RcOK
    <3>2. Extract(<<n, 0>>) = 0
      BY <2>1, <3>1, ExtractIs DEF KeyOf
    <3> QED
      BY <2>1, <2>2, <2>3, <3>1, <3>2
  <2>4. CASE n \in Wordlike \ shadowed
    <3>1. KeyOf(rc[i]) = <<n, 0>> /\ rc[i].name \in Wordlike
      BY <2>2, <2>4 DEF KeyOf
    <3> QED
      BY <2>1, <2>2, <2>4, <3>1, ExtractIs
  <2>5. CASE n \notin Wordlike /\ n \notin shadowed
    <3>1. Extract(<<n, 0>>) = 0
      BY <2>1, <2>5, ExtractIs DEF KeyOf
    <3> QED
      BY <2>1, <2>2, <2>5, <3>1
  <2> QED
    BY <2>3, <2>4, <2>5
<1> QED
  BY Invariant, <1>1, PTL

(* Every version of the file that set-up or update-rtw replaced is in a    *)
(* numbered backup, unless cp failed, or a backup or another file with     *)
(* that prefix went away.                                                  *)
THEOREM VersionsAreSaved == Spec => []EveryVersionSaved
<1>1. IInv => EveryVersionSaved
  BY DEF IInv, SavedOK
<1> QED
  BY Invariant, <1>1, PTL

(* After update-rtw the local changes are in the clone, or, after a pop    *)
(* that was refused or an interrupt, on top of the stash; an entry of the  *)
(* stash that is not theirs goes only into a clone without changes, or one *)
(* that could not be stashed.                                              *)
THEOREM ChangesComeBack == Spec => []LocalChangesReturn
<1>1. IInv => LocalChangesReturn
  BY DEF IInv, CloneOK
<1> QED
  BY Invariant, <1>1, PTL

(* What port reports as stored is stored as the file had it, and what it   *)
(* does not report was left alone, but for keys other commands changed.    *)
THEOREM ReportHolds == Spec => []ReportIsTrue
<1>1. IInv => ReportIsTrue
  BY DEF IInv, PortOK
<1> QED
  BY Invariant, <1>1, PTL
=============================================================================

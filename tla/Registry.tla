------------------------------ MODULE Registry ------------------------------
(***************************************************************************)
(* What the configuration store promises: a map from names to entries that *)
(* every command reads and changes in one atomic step.  A command that is  *)
(* refused was right to be refused, and a command changes nothing but the  *)
(* names it was given.                                                     *)
(***************************************************************************)
CONSTANTS Proc, Name, Value, NoEntry, Verbs

VARIABLES
    reg,     \* the entry of every name
    req,     \* what each command was asked
    answer   \* what each command has answered

vars == <<reg, req, answer>>

Entry == Value \cup {NoEntry}
NoRequest == [verb |-> "none", names |-> {}, value |-> NoEntry]

Request ==
    [verb : Verbs \cap {"add", "edit"}, names : {{n} : n \in Name}, value : Value]
        \cup [verb : Verbs \cap {"read"}, names : {{n} : n \in Name}, value : {NoEntry}]
        \cup [verb : Verbs \cap {"delete"}, names : SUBSET Name, value : {NoEntry}]

Known(p) == \E n \in req[p].names : reg[n] # NoEntry
Waiting(p) == req[p] # NoRequest /\ answer[p] = "none"
Answer(p, a) == answer' = [answer EXCEPT ![p] = a]

Init ==
    /\ reg \in [Name -> Entry]
    /\ req = [p \in Proc |-> NoRequest]
    /\ answer = [p \in Proc |-> "none"]

Begin(p) ==
    /\ req[p] = NoRequest
    /\ \E r \in Request : req' = [req EXCEPT ![p] = r]
    /\ UNCHANGED <<reg, answer>>

(* An add stores a new entry; it is refused only for a name that is taken. *)
Add(p) ==
    /\ Waiting(p) /\ req[p].verb = "add" /\ ~Known(p)
    /\ reg' = [n \in Name |-> IF n \in req[p].names THEN req[p].value ELSE reg[n]]
    /\ Answer(p, "accepted")
    /\ UNCHANGED req

RefuseAdd(p) ==
    /\ Waiting(p) /\ req[p].verb = "add" /\ Known(p)
    /\ Answer(p, "refused")
    /\ UNCHANGED <<reg, req>>

(* An edit replaces an entry; it is refused only for a name that is free. *)
Edit(p) ==
    /\ Waiting(p) /\ req[p].verb = "edit" /\ Known(p)
    /\ reg' = [n \in Name |-> IF n \in req[p].names THEN req[p].value ELSE reg[n]]
    /\ Answer(p, "accepted")
    /\ UNCHANGED req

(* A reader answers by the entry that is stored. *)
Read(p) ==
    /\ Waiting(p) /\ req[p].verb = "read"
    /\ Answer(p, IF Known(p) THEN "accepted" ELSE "refused")
    /\ UNCHANGED <<reg, req>>

RefuseEdit(p) ==
    /\ Waiting(p) /\ req[p].verb = "edit" /\ ~Known(p)
    /\ Answer(p, "refused")
    /\ UNCHANGED <<reg, req>>

(* A delete takes its names out one by one ... *)
Remove(p) ==
    /\ Waiting(p) /\ req[p].verb = "delete"
    /\ \E n \in req[p].names :
          reg[n] # NoEntry /\ reg' = [reg EXCEPT ![n] = NoEntry]
    /\ UNCHANGED <<req, answer>>

(* ... and says it is done when none of them is left. *)
EndDelete(p) ==
    /\ Waiting(p) /\ req[p].verb = "delete" /\ ~Known(p)
    /\ \E a \in {"accepted", "refused"} : Answer(p, a)
    /\ UNCHANGED <<reg, req>>

(* The user of an edit or a delete may give up. *)
Cancel(p) ==
    /\ Waiting(p) /\ req[p].verb \in {"edit", "delete"} /\ Known(p)
    /\ Answer(p, "cancelled")
    /\ UNCHANGED <<reg, req>>

Next ==
    \E p \in Proc :
        \/ Begin(p) \/ Add(p) \/ RefuseAdd(p) \/ Edit(p) \/ RefuseEdit(p)
        \/ Read(p) \/ Remove(p) \/ EndDelete(p) \/ Cancel(p)

Spec == Init /\ [][Next]_vars
=============================================================================

------------------------ MODULE ConfigStoreRefinement ------------------------
(***************************************************************************)
(* One rtw command at a time, never stopped half way: workspaces.yaml      *)
(* implements the atomic map of Registry.                                  *)
(***************************************************************************)
EXTENDS ConfigStore

(* While a run is filling the file, the map still is what it loaded. *)
StoredMap ==
    IF \E p \in Proc : pc[p] = "write"
      THEN base[CHOOSE p \in Proc : pc[p] = "write"]
      ELSE file.body

R == INSTANCE Registry WITH reg <- StoredMap

(* Every behaviour of the store is a behaviour of the atomic map: the      *)
(* loads, backups and truncations between are invisible, refusals are      *)
(* justified by the map, and a save changes only the names of its request. *)
ImplementsRegistry == R!Spec
=============================================================================

------------------------------- MODULE Factory ------------------------------
(***************************************************************************)
(* The factory, contracts/app/andromeda-factory: the code id of each type  *)
(* of ADO.  Its table of addresses is left out: no message adds to it, so  *)
(* that Create only ever succeeds without an effect and UpdateAddress,     *)
(* which first reads the entry it would change, always fails.              *)
(***************************************************************************)
EXTENDS Common

CONSTANTS Types, CodeIds

VARIABLE codeIds   \* CODE_ID

FactoryInit == codeIds = << >>

AddUpdateCodeId(s, type, code) ==
  /\ s \in Managers
  /\ codeIds' = With(codeIds, type, code)

FactoryStep == \E s \in Actors, type \in Types, code \in CodeIds : AddUpdateCodeId(s, type, code)
=============================================================================

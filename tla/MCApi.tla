-------------------------------- MODULE MCApi --------------------------------
(***************************************************************************)
(* Small instances of ApiReplica for TLC: the .cfg files give every        *)
(* constant its value.                                                     *)
(***************************************************************************)
EXTENDS ApiGuarantees
=============================================================================

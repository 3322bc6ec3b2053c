----------------------------- MODULE MCRegistry -----------------------------
(***************************************************************************)
(* Small instances of Registry for TLC.                                    *)
(***************************************************************************)
EXTENDS RegistryGuarantees, TLC

\* Ids, threads and values are only compared with each other.
RegistrySymmetry ==
  Permutations(Threads) \cup Permutations(Customers) \cup Permutations(Vehicles)
    \cup Permutations(Emails) \cup Permutations(Plates)
=============================================================================

----------------------------- MODULE MCAccounts -----------------------------
(***************************************************************************)
(* Instances of Accounts for TLC.                                          *)
(***************************************************************************)
EXTENDS Accounts, TLC

Symmetry == Permutations(Ids) \cup Permutations(Emails)
                \cup Permutations(Subjects) \cup Permutations(Requests)
=============================================================================

---------------------------- MODULE MCBankAccount ----------------------------
(***************************************************************************)
(* Instances of BankAccount for TLC.                                       *)
(***************************************************************************)
EXTENDS BankAccount

Symmetry == Permutations(Task) \cup Permutations(Stream)
=============================================================================

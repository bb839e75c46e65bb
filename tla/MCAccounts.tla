----------------------------- MODULE MCAccounts -----------------------------
(***************************************************************************)
(* Small instances of Accounts for TLC.  Codes, passwords and clients are  *)
(* told apart by nothing but their names.                                  *)
(***************************************************************************)
EXTENDS Accounts, TLC

Names == Permutations(Codes) \union Permutations(Passwords) \union Permutations(Clients)
=============================================================================

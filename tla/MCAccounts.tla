------------------------------- MODULE MCAccounts -------------------------------
(***************************************************************************)
(* Small instances of Accounts.                                            *)
(***************************************************************************)
EXTENDS Accounts, TLC

\* Ids of users, authenticators and calls are only compared.
Symmetry == Permutations(Users) \union Permutations(Creds) \union Permutations(Calls)
===============================================================================

------------------------------ MODULE MCTokenAccess ------------------------------
(***************************************************************************)
(* Small instances of TokenAccess.                                         *)
(***************************************************************************)
EXTENDS TokenAccess, TLC

\* Groups, names, tokens and calls are only compared.
Symmetry ==
  Permutations(Groups) \union Permutations(Names) \union Permutations(Tokens)
    \union Permutations(Calls)
===============================================================================

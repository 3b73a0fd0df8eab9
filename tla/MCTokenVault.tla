----------------------------- MODULE MCTokenVault -----------------------------
(***************************************************************************)
(* Small instances of TokenVault.                                          *)
(***************************************************************************)
EXTENDS TokenVault, TLC

\* Mappings, real tokens, request slots, processes and connections are only
\* compared, so the safety runs may permute them.
Symmetry ==
  Permutations(Tokens) \union Permutations(Reals) \union Permutations(Requests)
    \union Permutations(Instances) \union Permutations(Proxies)
===============================================================================

---------------------------- MODULE MCTokenRequests ----------------------------
(***************************************************************************)
(* Small instances of TokenRequests.                                       *)
(***************************************************************************)
EXTENDS TokenRequests, TLC

\* Requests, mappings and calls are interchangeable, and so are the managers.
Symmetry ==
  Permutations(Requests) \union Permutations(Tokens) \union Permutations(Calls)
    \union Permutations(Managers)
===============================================================================

--------------------------- MODULE MCProxyConnection ---------------------------
(***************************************************************************)
(* Small instances of ProxyConnection.                                     *)
(***************************************************************************)
EXTENDS ProxyConnection, TLC

Symmetry == Permutations(Exchanges) \union Permutations(Services)
===============================================================================

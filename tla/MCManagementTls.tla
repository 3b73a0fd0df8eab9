---------------------------- MODULE MCManagementTls ----------------------------
(***************************************************************************)
(* Small instances of ManagementTls, and with it of CaRegistry.            *)
(***************************************************************************)
EXTENDS ManagementTls, TLC

\* Which slot an operation uses makes no difference, nor which process it is.
Symmetry == Permutations(Requests \ Servers) \union Permutations(Servers)
===============================================================================

----------------------------- MODULE MCLogShipper -----------------------------
(***************************************************************************)
(* Small instances of LogShipper.                                          *)
(***************************************************************************)
EXTENDS LogShipper, TLC

\* The slots for sends are only compared.
Symmetry == Permutations(Flights)
===============================================================================

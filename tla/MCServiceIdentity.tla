--------------------------- MODULE MCServiceIdentity ---------------------------
(***************************************************************************)
(* Small instances of ServiceIdentity.                                     *)
(***************************************************************************)
EXTENDS ServiceIdentity, TLC
===============================================================================

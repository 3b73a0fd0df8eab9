---------------------------- MODULE MCClientPolicy ----------------------------
(***************************************************************************)
(* Small instances of ClientPolicy: three bits of address, and rules of    *)
(* each kind: all of IPv4, two addresses, and what is a glob although it   *)
(* has a slash, which matches one pod's name and an address that is not    *)
(* IPv4.                                                                   *)
(***************************************************************************)
EXTENDS ClientPolicy, TLC

CONSTANTS p1, p2, v6

Cidr(i, base, prefix) == [id |-> i, base |-> base, prefix |-> prefix, hits |-> {}]
Glob(i, hits) == [id |-> i, base |-> 2, prefix |-> Width + 1, hits |-> hits]

\* Two rows have one pattern.
MCRules == {Cidr(1, 5, 0), Cidr(2, 2, 2), Cidr(3, 2, 2), Glob(4, {p1, v6})}
MCFirstTable == {Cidr(2, 2, 2)}
===============================================================================

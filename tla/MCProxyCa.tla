------------------------------- MODULE MCProxyCa -------------------------------
(***************************************************************************)
(* Small instances of ProxyCa.                                             *)
(***************************************************************************)
EXTENDS ProxyCa, TLC

\* Polls, jobs and hosts are interchangeable, and so are the CAs whose keys
\* the proxy can decrypt.
Symmetry ==
  Permutations(Ticks) \union Permutations(Jobs) \union Permutations(Hosts)
    \union Permutations(Cas \ Undecryptable)
===============================================================================

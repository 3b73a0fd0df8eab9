-------------------------------- MODULE CaStore --------------------------------
(***************************************************************************)
(* What the proxies may rely on about the table ca_certificates: there is  *)
(* one CA that every reader finds, it may be replaced at any time, and     *)
(* once there is one there always is (packages/proxy/src/tls/ca.ts reads   *)
(* it with SELECT ... WHERE is_active ORDER BY created_at DESC LIMIT 1).   *)
(* CaRegistry implements it; ProxyCa is built on it.                       *)
(***************************************************************************)
CONSTANTS
  Cas,     \* certificate authorities
  NoCa     \* what a reader finds before the first one

VARIABLE current

Init == current = NoCa

Replace == \E c \in Cas : current' = c

Spec == Init /\ [][Replace]_current

===============================================================================

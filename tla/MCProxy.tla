------------------------------ MODULE MCProxy ------------------------------
(***************************************************************************)
(* Three kinds of nodes: one with three bootstrap peers and no known peer, *)
(* one with a peer that is added and removed and at most one bootstrap     *)
(* peer, and one that is up, with a proxy listener and nobody to dial.     *)
(* The host and the proxy meet only in Application.Close.                  *)
(***************************************************************************)
EXTENDS Proxy

Bootstrapping ==
  boot = "none" /\ known = {} /\ boots = Boots /\ listener = "off" /\ changes = MaxChanges
Maintaining ==
  boot = "none" /\ Cardinality(boots) <= 1 /\ listener = "off" /\ changes = 0
Proxying ==
  boot = "done" /\ listener = "open" /\ changes = MaxChanges

MCInit == Init /\ (Bootstrapping \/ Maintaining \/ Proxying)

MCSpec == MCInit /\ [][Next]_vars /\ HostFair /\ ProxyFair /\ CloseFair
=============================================================================

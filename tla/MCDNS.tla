------------------------------- MODULE MCDNS -------------------------------
(* Two peers that may share a domain name, an IPv4 and an IPv6 address.      *)
EXTENDS DNS, TLC
\* The saved peers have a domain name and an IPv6 address.
MCSaved == {c \in KnownPeer : None \notin {c.name, c.ip6}}
Symmetry == Permutations(Peers) \cup Permutations(Addr4)
=============================================================================

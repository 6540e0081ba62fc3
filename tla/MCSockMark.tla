----------------------------- MODULE MCSockMark -----------------------------
(* Instance of SockMark for TLC: both uplinks up, either one first. *)
EXTENDS SockMark

SmallTables == {[u \in Uplinks |-> u], [u \in Uplinks |-> 3 - u]}
=============================================================================

---------------------------- MODULE MC_Traversal ----------------------------
(***************************************************************************)
(* The environments of Traversal that a run takes: peers on one machine or *)
(* one LAN, and peers apart behind every pairing of five kinds of v4 NAT   *)
(* and two kinds of v6 connection, one without a NAT and without STUN.     *)
(***************************************************************************)
EXTENDS Traversal

Nat4 == {[stun |-> TRUE, map |-> "none", filter |-> "none"],
         [stun |-> TRUE, map |-> "same", filter |-> "address"],
         [stun |-> TRUE, map |-> "same", filter |-> "port"],
         [stun |-> TRUE, map |-> "perdest", filter |-> "port"],
         [stun |-> FALSE, map |-> "same", filter |-> "port"]}
Nat6 == {[stun |-> FALSE, map |-> "none", filter |-> "port"],
         [stun |-> TRUE, map |-> "same", filter |-> "address"]}
Home == {[f \in Families |-> IF f = "v4" THEN n ELSE m] : n \in Nat4, m \in Nat6}

MCNetworks ==
    [place : {"apart"}, nat : [Peers -> Home]]
    \cup [place : {"host", "lan"}, nat : [Peers -> {CHOOSE h \in Home : TRUE}]]
=============================================================================

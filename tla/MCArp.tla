------------------------------- MODULE MCArp -------------------------------
(***************************************************************************)
(* A small network for Arp: two hosts and a gateway on our subnet, fewer   *)
(* entries than there are next hops, and as few packets as let every       *)
(* worker be short of one.                                                 *)
(***************************************************************************)
EXTENDS Arp

MCIps == {"any", "ones", "a", "b", "gw", "far"}
MCMacs == {"zero", "bcast", "A", "B", "G"}
MCOnLink == {"a", "b", "gw"}
MCDests == {"a", "far", "ones"}
MCFrames ==
  {[kind |-> "reply", ip |-> "a", mac |-> "A", to_us |-> TRUE],
   [kind |-> "request", ip |-> "b", mac |-> "B", to_us |-> TRUE],
   [kind |-> "ip", ip |-> "far", mac |-> "G", to_us |-> TRUE],
   [kind |-> "ip", ip |-> "any", mac |-> "A", to_us |-> FALSE]}
=============================================================================

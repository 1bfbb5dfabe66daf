---------------------------- MODULE MCPullDelivery ----------------------------
(* Instances of PullDelivery for TLC: listeners and requests are alike. *)
EXTENDS PullDelivery, TLC

Alike == Permutations(Listeners) \cup Permutations(Requests)
===============================================================================

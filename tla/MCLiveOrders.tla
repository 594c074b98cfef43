----------------------------- MODULE MCLiveOrders -----------------------------
(* An instance of LiveOrders for TLC: commands are interchangeable.            *)
EXTENDS LiveOrders, TLC

Commands == Permutations(Traders) \cup Permutations(Watchers)
=============================================================================

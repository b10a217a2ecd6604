---------------------------- MODULE MCWebregDesk ----------------------------
(* Small instances of WebregDesk: a tick is fifteen seconds.                *)
EXTENDS WebregDesk, TLC

Alike == Permutations(Replicas) \union Permutations(Clients) \union Permutations(Owners)
=============================================================================

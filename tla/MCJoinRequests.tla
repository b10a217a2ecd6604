--------------------------- MODULE MCJoinRequests ---------------------------
(* Small instances of JoinRequests.                                         *)
EXTENDS JoinRequests

CONSTANT key

(* All usernames share one key of the advisory lock. *)
MCKeyOf == [p \in People |-> key]
=============================================================================

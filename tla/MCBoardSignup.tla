---------------------------- MODULE MCBoardSignup ----------------------------
(* Small instances of BoardSignup.                                          *)
EXTENDS BoardSignup, TLC

CONSTANTS e1, e2, mail, at, link, third, account, guest, guest2, owner, admin

(* A person with an account, and two without; one of them writes the name of *)
(* a telegram in two ways.                                                   *)
MCProfileOf == [k \in Contacts |->
  CASE k = mail -> account [] k \in {at, link} -> guest [] k = third -> guest2]
MCTargets == [e \in Events |-> {owner, admin}]
MCOneSeat == (e1 :> 1)
MCTwoEvents == (e1 :> 1 @@ e2 :> 0)

ClientSymmetry == Permutations(Clients)
=============================================================================

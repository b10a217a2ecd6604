------------------------- MODULE MCWebRegistration -------------------------
(* Small instances of WebRegistration.                                      *)
EXTENDS WebRegistration

CONSTANTS ann, bob

Person(email, tg) == [k \in Kinds |->
  CASE k = "email" -> email [] k = "tg" -> tg [] k = "phone" -> NoValue]

(* Ann with her username and without it, and Bob with an email only. *)
MCPayloads == {Person(ann, ann), Person(ann, NoValue), Person(bob, NoValue)}

Form(email, tg) == [k \in Kinds |->
  CASE k = "email" -> email [] k = "tg" -> tg [] k = "phone" -> "off"]

(* The default form, with tickets and without, and a closed event. *)
MCDefault == {[form |-> Form("required", "optional"), open |-> TRUE, tickets |-> t] : t \in BOOLEAN}
             \union {[form |-> Form("required", "optional"), open |-> FALSE, tickets |-> TRUE]}
=============================================================================

------------------------------ MODULE GuestList ------------------------------
(***************************************************************************)
(* What signing up for an event promises, without statements, locks and    *)
(* rollbacks: between its question and its answer a request takes effect   *)
(* in one step or not at all, and is answered in that step.  Who asks has  *)
(* a place, or gets one with its messages, or is turned away.              *)
(*                                                                         *)
(* One thing is not decided in that step: whether there is a seat is       *)
(* decided by the list as it was when the request was made.                *)
(***************************************************************************)
EXTENDS Naturals, FiniteSets

CONSTANTS
  Connections,  \* where requests come from, one at a time over each
  Events, Guests,
  Capacity,     \* seats of each event, 0 when they are not counted
  Channels,     \* of messages; the organizer's is "tg"
  Reasons       \* answers of a request that has no effect

VARIABLES
  place,  \* of each guest at each event: none, registered, waitlisted, cancelled
  sent,   \* messages about each guest and event, by channel
  asked,  \* the request each connection is busy with, if any
  told    \* the last answer over each connection

gvars == <<place, sent, asked, told>>

Live == {"registered", "waitlisted"}

Full(e) == Capacity[e] > 0 /\ Cardinality({g \in Guests : place[e][g] \in Live}) >= Capacity[e]

GInit ==
  /\ place = [e \in Events |-> [g \in Guests |-> "none"]]
  /\ sent = [e \in Events |-> [g \in Guests |-> [ch \in Channels |-> 0]]]
  /\ asked = [q \in Connections |-> {}]
  /\ told = [q \in Connections |-> "none"]

Ask(q, e, g) ==
  /\ asked[q] = {}
  /\ asked' = [asked EXCEPT ![q] = {[event |-> e, guest |-> g, full |-> Full(e)]}]
  /\ told' = [told EXCEPT ![q] = "none"]
  /\ UNCHANGED <<place, sent>>

Answer(q, a) ==
  /\ asked' = [asked EXCEPT ![q] = {}]
  /\ told' = [told EXCEPT ![q] = a]

(* A place for who has none, and the messages about it; the answer may get  *)
(* lost.                                                                    *)
Admit(q, r) ==
  /\ ~r.full /\ place[r.event][r.guest] \notin Live
  /\ \E status \in Live : place' = [place EXCEPT ![r.event][r.guest] = status]
  /\ \E chs \in SUBSET Channels :
       /\ "tg" \in chs
       /\ sent' = [sent EXCEPT ![r.event][r.guest] =
            [ch \in Channels |-> IF ch \in chs THEN @[ch] + 1 ELSE @[ch]]]
  /\ \E a \in {"created", "error"} : Answer(q, a)

Recognise(q, r) ==
  /\ place[r.event][r.guest] \in Live
  /\ Answer(q, "already")
  /\ UNCHANGED <<place, sent>>

TurnAway(q, r) ==
  /\ \E a \in Reasons : (a = "sold_out" => r.full) /\ Answer(q, a)
  /\ UNCHANGED <<place, sent>>

Leave(e, g) ==
  /\ place[e][g] \in Live
  /\ place' = [place EXCEPT ![e][g] = "cancelled"]
  /\ UNCHANGED <<sent, asked, told>>

GNext ==
  \/ \E q \in Connections :
       \/ \E e \in Events, g \in Guests : Ask(q, e, g)
       \/ \E r \in asked[q] : Admit(q, r) \/ Recognise(q, r) \/ TurnAway(q, r)
  \/ \E e \in Events, g \in Guests : Leave(e, g)

GSpec == GInit /\ [][GNext]_gvars
=============================================================================

--------------------------- MODULE DeliveryPromise ---------------------------
(***************************************************************************)
(* What the notification queue promises of each message, without its       *)
(* drains, pauses and batches: an accepted message is put out while it is  *)
(* owed, and is settled only after that, unless it has become pointless.   *)
(***************************************************************************)
EXTENDS Naturals

CONSTANTS Ids, Senders

VARIABLES
  debt,    \* each message: absent, owed, settled
  lapsed,  \* messages that have become pointless
  out      \* copies each sender has put out

pvars == <<debt, lapsed, out>>

PInit ==
  /\ debt = [i \in Ids |-> "absent"]
  /\ lapsed = {}
  /\ out = [s \in Senders |-> [i \in Ids |-> 0]]

Accept(i) ==
  /\ debt[i] = "absent"
  /\ debt' = [debt EXCEPT ![i] = "owed"]
  /\ UNCHANGED <<lapsed, out>>

Lapse(i) ==
  /\ lapsed' = lapsed \union {i}
  /\ UNCHANGED <<debt, out>>

PutOut(s, i) ==
  /\ debt[i] = "owed"
  /\ out' = [out EXCEPT ![s][i] = @ + 1]
  /\ UNCHANGED <<debt, lapsed>>

Settle(i) ==
  /\ debt[i] = "owed"
  /\ i \in lapsed \/ \E s \in Senders : out[s][i] > 0
  /\ debt' = [debt EXCEPT ![i] = "settled"]
  /\ UNCHANGED <<lapsed, out>>

PNext ==
  \E i \in Ids :
    Accept(i) \/ Lapse(i) \/ Settle(i) \/ \E s \in Senders : PutOut(s, i)

PSpec == PInit /\ [][PNext]_pvars
=============================================================================

----------------------------- MODULE MCCuration -----------------------------
(* Small instances of Curation.                                             *)
EXTENDS Curation, TLC

Say(feed, hidden, listed, reason) ==
  [feed |-> feed, hidden |-> hidden, listed |-> listed, reason |-> reason]

(* Hide, show, unlist with a reason and without, list, and hide and list.   *)
MCPatches ==
  {Say(Absence, "yes", Absence, Absence), Say(Absence, "no", Absence, Absence),
   Say(Absence, Absence, "no", "curator"), Say(Absence, Absence, "no", Absence),
   Say(Absence, Absence, "yes", Absence), Say("no", "yes", "yes", Absence)}

MCCards == 1..2
MCOrders == {[c \in MCCards |-> c], [c \in MCCards |-> 3 - c]}

(* Of the ids of the journal's entries only the order matters, and of the    *)
(* orders only which of the entries of one card would be the last: states    *)
(* that differ in nothing else are explored once.  MaxEntries is not reached. *)
Pending(t) == {c \in Cards : entry[t][c].id > 0}
OrderOfEntries ==
  <<{c \in Cards : journal[c].id > 0},
    [t \in Txs |-> {c \in Pending(t) : entry[t][c].id > journal[c].id}],
    [t \in Txs |-> {<<u, c>> \in Txs \X Pending(t) : entry[t][c].id > entry[u][c].id}]>>

UpToIds ==
  <<cards, [c \in Cards |-> journal[c].after], [t \in Txs |-> [c \in Cards |-> entry[t][c].after]],
    OrderOfEntries, lock, pc, todo, order, verdict, draft, drafted, patches, down, revoked>>

TxSymmetry == Permutations(Txs)
=============================================================================

--------------------------- MODULE MCNotifyOutbox ---------------------------
(* Small instances of NotifyOutbox.                                         *)
EXTENDS NotifyOutbox

CONSTANTS tg, email

(* A telegram row that is never accepted, a letter, and a telegram row. *)
MCIds == 1..3
MCChannelOf == [i \in MCIds |-> IF i = 2 THEN email ELSE tg]

(* Two rows, one of each channel. *)
MCTwo == 1..2
MCTwoChannelOf == [i \in MCTwo |-> IF i = 1 THEN tg ELSE email]
=============================================================================

---------------------------- MODULE MCReminders ----------------------------
(* Small instances of Reminders: one event that lets everybody in and one   *)
(* whose organizer approves.                                                *)
EXTENDS Reminders, TLC

MCEventOf == "ann" :> "open" @@ "bob" :> "held"
=============================================================================

---------------------------- MODULE MCReminders ----------------------------
(* Two reminders: a's for herself and b's for her. *)
EXTENDS Reminders
CONSTANTS a, b, r1, r2, c1, c2
MCFrom == [r \in Reminder |-> IF r = r1 THEN a ELSE b]
MCTo == [r \in Reminder |-> a]
=============================================================================

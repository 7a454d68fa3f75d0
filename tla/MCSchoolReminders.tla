-------------------------- MODULE MCSchoolReminders --------------------------
(* SchoolReminders on small instances: events of the first two days. *)
EXTENDS SchoolReminders

CONSTANTS e1, e2

\* e1 and e2 fall on the same day, without a time: one group.
MCDate == [e \in Events |-> 1]
MCSlot == [e \in Events |-> "day 1"]
=============================================================================

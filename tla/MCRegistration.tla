--------------------------- MODULE MCRegistration ---------------------------
(* An administrator who registers three times and a user who does twice. *)
EXTENDS Registration

CONSTANTS a1, a2, a3, u1, u2

MCEmailOf == [q \in Requests |-> IF q \in {u1, u2} THEN "jan@wp.pl" ELSE "ola@admin.pl"]
=============================================================================

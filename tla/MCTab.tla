------------------------------- MODULE MCTab -------------------------------
(***************************************************************************)
(* A small instance of Tab for TLC: a user and an admin in one tab, who    *)
(* shares a meerkat of the user already.                                   *)
(***************************************************************************)
EXTENDS Tab

CONSTANTS jan, boss, m1

MCOwnerAtStart == [m \in Meerkats |-> IF m = m1 THEN jan ELSE None]
MCAdminOf == [m \in Meerkats |-> boss]
=============================================================================

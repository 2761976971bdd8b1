-------------------------- MODULE MCClientCreator --------------------------
(***************************************************************************)
(* A small instance of ClientCreator for TLC: two users' requests and one  *)
(* without a readable JWT.                                                 *)
(***************************************************************************)
EXTENDS ClientCreator

CONSTANTS r1, r2, r3, u1, u2

MCUserOf == [r \in Requests |-> IF r = r1 THEN u1 ELSE IF r = r2 THEN u2 ELSE None]
=============================================================================

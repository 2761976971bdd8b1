---------------------------- MODULE MCPresenter ----------------------------
(***************************************************************************)
(* A small instance of Presenter for TLC.  Jan owns two meerkats, one of   *)
(* them with an admin nobody knows; somebody else's token stores readings, *)
(* and a page may ask for the logs of an id that is none.                  *)
(***************************************************************************)
EXTENDS Presenter, TLC

CONSTANTS m1, m2, stray, junk, nobody, jan, boss

Call(r, a) == [route |-> r, arg |-> a]
MCCalls == {Call("meerkatsbyuser", jan), Call("logs", jan), Call("clients", boss)}
           \cup {Call("logsformeerkat", m) : m \in {m1, stray, junk}}

MCOwnerOf == [m \in Meerkats |-> jan]
MCAdminOf == [m \in Meerkats |-> IF m = m1 THEN boss ELSE nobody]

Alike == Permutations(Requests)
=============================================================================

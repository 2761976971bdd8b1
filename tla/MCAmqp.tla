------------------------------- MODULE MCAmqp -------------------------------
(***************************************************************************)
(* A small deployment of Amqp for TLC: the authorization service with its  *)
(* two routes, central with its protected route that notifies one-way, and *)
(* the client creator, whose route calls authorization.create and waits.   *)
(***************************************************************************)
EXTENDS Amqp, TLC

CONSTANTS c1, c2, t1, authorization, central, notifier, clientcreator,
          verify, create, put, notify, newclient

Deployed == verify :> authorization @@ create :> authorization
            @@ put :> central @@ notify :> notifier
            @@ newclient :> clientcreator

MCServiceOf == [r \in Routes |-> Deployed[r]]

MCCallees ==
    [r \in Routes |->
        IF r = put /\ notify \in Routes THEN <<[to |-> notify, twoWay |-> FALSE]>>
        ELSE IF r = newclient THEN <<[to |-> create, twoWay |-> TRUE]>>
        ELSE <<>>]
=============================================================================

---------------------------- MODULE MCAmqpChain ----------------------------
(***************************************************************************)
(* The services of Backend/VigilantMeerkat.Micro.Authorization.Test: the   *)
(* protected route chained.chain calls the protected route simple.get and  *)
(* waits, so that a call verifies its token twice, at two services.  Beside*)
(* them the client creator, whose route waits for authorization.create.    *)
(***************************************************************************)
EXTENDS Amqp, TLC

CONSTANTS c1, c2, t1, authorization, chained, simple, clientcreator,
          verify, create, chain, get, newclient

MCServiceOf == verify :> authorization @@ create :> authorization
               @@ chain :> chained @@ get :> simple @@ newclient :> clientcreator

MCCallees ==
    [r \in Routes |-> IF r = chain THEN <<[to |-> get, twoWay |-> TRUE]>>
                      ELSE IF r = newclient THEN <<[to |-> create, twoWay |-> TRUE]>>
                      ELSE <<>>]
=============================================================================

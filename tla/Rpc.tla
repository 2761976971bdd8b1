-------------------------------- MODULE Rpc --------------------------------
(***************************************************************************)
(* What a call between services promises its caller, whatever the broker,  *)
(* the processes and the faults in between do: a request is acted upon at  *)
(* most once, it is either executed or refused, a protected route executes *)
(* only requests that carry a token the authorization service has issued,  *)
(* and an answer is returned only for a two-way request that was acted     *)
(* upon.  Nothing is promised about an answer ever arriving.               *)
(***************************************************************************)
EXTENDS FiniteSets

CONSTANTS AuthRoutes   \* the routes whose method carries [Authorize]

VARIABLES
    issued,     \* the requests handed to AmqpService.Call
    executed,   \* the requests whose method was invoked
    refused,    \* the requests answered "Unauthorized"
    answered,   \* the two-way requests whose Call returned
    created     \* the tokens authorization.create has stored

rpcVars == <<issued, executed, refused, answered, created>>

Acted == executed \cup refused

RpcInit ==
    /\ issued = {} /\ executed = {} /\ refused = {} /\ answered = {}
    /\ created = {}

Issue ==
    /\ \E m \in issued' : m \notin issued /\ issued' = issued \cup {m}
    /\ UNCHANGED <<executed, refused, answered, created>>

Execute ==
    /\ \E m \in issued \ Acted :
          /\ m.to \in AuthRoutes => m.token \in created
          /\ executed' = executed \cup {m}
    /\ UNCHANGED <<issued, refused, answered, created>>

Refuse ==
    /\ \E m \in issued \ Acted :
          /\ m.to \in AuthRoutes
          /\ refused' = refused \cup {m}
    /\ UNCHANGED <<issued, executed, answered, created>>

Return ==
    /\ \E m \in Acted \ answered :
          /\ m.twoWay
          /\ answered' = answered \cup {m}
    /\ UNCHANGED <<issued, executed, refused, created>>

Mint ==
    /\ \E t \in created' : t \notin created /\ created' = created \cup {t}
    /\ UNCHANGED <<issued, executed, refused, answered>>

RpcNext == Issue \/ Execute \/ Refuse \/ Return \/ Mint

Spec == RpcInit /\ [][RpcNext]_rpcVars
=============================================================================

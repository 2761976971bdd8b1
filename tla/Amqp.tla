-------------------------------- MODULE Amqp --------------------------------
(***************************************************************************)
(* Remote calls between the services of VigilantMeerkat.                   *)
(*                                                                         *)
(* A caller (Backend/Base/AmqpService.cs) publishes a request to the queue *)
(* "<microservice>.<route>" and, for a two-way call, blocks in Take() on   *)
(* the collection `response` of its AmqpService object until a reply has   *)
(* been put there.  A service (MicroRunner.cs, RabbitInternalService.cs)   *)
(* declares one exclusive queue per route and handles its requests one     *)
(* after the other.  A route that carries [Authorize] first asks           *)
(* authorization.verify, through the one AuthorizationRef of its service.  *)
(* The broker and Redis are external: an exclusive queue disappears with   *)
(* the connection that declared it, a message for a queue that does not    *)
(* exist is dropped, and nothing is ever acknowledged, so a queue keeps    *)
(* the deliveries it has made (`pos` counts them).                         *)
(***************************************************************************)
EXTENDS Integers, Sequences, FiniteSets

CONSTANTS
    Clients,      \* threads outside the services: agents, gateway requests
    Services,     \* the microservice processes
    Routes,       \* the routes of all services, a consumer thread each
    ServiceOf,    \* [Routes -> Services]
    AuthRoutes,   \* the routes whose method carries [Authorize]
    Entry,        \* the routes the agents and the gateway call
    Callees,      \* [Routes -> Seq([to : Routes, twoWay : BOOLEAN])]
    Verify,       \* the route authorization.verify
    Create,       \* the route authorization.create
    Tokens,       \* the GUIDs authorization.create can draw
    NoToken,      \* a token that no Redis key matches: "" or Guid.Empty
    None,         \* no message, no body, no value
    MaxCalls,     \* bound on the calls of one client
    MaxFaults     \* bound on the crashes, connection losses and Redis losses

Threads == Clients \cup Routes

(***************************************************************************)
(* The deployment.  OneCallerPerService is what the deployed services      *)
(* satisfy (central.put is the only protected route, clientcreator.create  *)
(* the only route that makes a two-way call): the routes of a service      *)
(* share its AmqpService and its AuthorizationRef, and the consumer        *)
(* threads of two routes run concurrently.                                 *)
(***************************************************************************)
ASSUME Deployment ==
    /\ Clients \cap Routes = {}
    /\ ServiceOf \in [Routes -> Services]
    /\ AuthRoutes \subseteq Routes /\ Entry \subseteq Routes
    /\ Verify \in Routes \ (AuthRoutes \cup Entry) /\ Create \in Routes
    /\ Verify # Create
    /\ Callees \in [Routes -> Seq([to : Routes \ {Verify}, twoWay : BOOLEAN])]
    /\ NoToken \notin Tokens
    /\ None \notin Tokens \cup {NoToken} \cup BOOLEAN
    /\ TRUE \notin Tokens \cup {NoToken}
    /\ MaxCalls \in Nat /\ MaxFaults \in Nat

MakesTwoWayCall(r) == \E i \in DOMAIN Callees[r] : Callees[r][i].twoWay

ASSUME OneCallerPerService ==
    \A r, q \in Routes : r # q /\ ServiceOf[r] = ServiceOf[q] =>
        /\ ~(r \in AuthRoutes /\ q \in AuthRoutes)
        /\ ~(MakesTwoWayCall(r) /\ MakesTwoWayCall(q))

Message == [from : Threads, n : Nat, to : Routes, token : Tokens \cup {NoToken},
            body : Tokens \cup {NoToken, None}, twoWay : BOOLEAN]

\* None is told from a message by having no fields; TLC's instances make it
\* a model value.
ASSUME NoneIsNoMessage == None \notin Message

Reply == [call : Message, result : {"Success", "Failed"},
          value : Tokens \cup {NoToken, None} \cup BOOLEAN]

\* The AmqpService objects: one per agent or gateway request (AddTransient),
\* one inside the AuthorizationRef and one in _instance.Amqp per service.
Objects == ({"transient"} \X Clients)
           \cup ({"authorizationRef", "amqp"} \X Services)

\* Mutant: one AmqpService for all controllers (AddSingleton in Startup.cs).
SingletonObjectOf(m) ==
    IF m.from \in Clients THEN <<"transient", CHOOSE c \in Clients : TRUE>>
    ELSE IF m.to = Verify THEN <<"authorizationRef", ServiceOf[m.from]>>
    ELSE <<"amqp", ServiceOf[m.from]>>

ObjectOf(m) ==
    IF m.from \in Clients THEN <<"transient", m.from>>
    ELSE IF m.to = Verify THEN <<"authorizationRef", ServiceOf[m.from]>>
    ELSE <<"amqp", ServiceOf[m.from]>>

RoutesOf(s) == {r \in Routes : ServiceOf[r] = s}
ObjectsOf(s) == {"authorizationRef", "amqp"} \X {s}

VARIABLES
    up,         \* the services whose process runs
    declared,   \* the routes whose queue exists
    queue,      \* [Routes -> Seq(Message)], deliveries included
    pos,        \* [Routes -> Nat], the deliveries HandleRequest was given
    work,       \* [Routes -> Message \cup {None}], the request being handled
    stage,      \* how far HandleRequest is with it
    step,       \* the next callee of the method
    call,       \* [Threads -> Message \cup {None}], the call in Take()
    listening,  \* the threads whose reply queue exists
    count,      \* [Threads -> Nat], the calls made so far
    replies,    \* the replies in the reply queues of the broker
    response,   \* [Objects -> Seq(Reply)], AmqpService.response
    redis,      \* the keys of the token store
    created,    \* history: the tokens authorization.create has stored
    valid,      \* history: the protected requests whose token was a key of
                \* Redis at some moment of their verification
    issued,     \* history: the requests published
    executed,   \* history: the requests whose method was invoked
    repeated,   \* history: those invoked more than once
    refused,    \* history: the requests found unauthorized
    answered,   \* history: what each finished call was given
    faults      \* faults so far

broker == <<declared, queue, pos, replies>>
worker == <<work, stage, step>>
caller == <<call, listening, count, response>>
tokens == <<redis, created, valid>>
history == <<issued, executed, repeated, refused, answered>>
vars == <<up, broker, worker, caller, tokens, history, faults>>

Answer == [call : Message, got : Reply]
Stages == {"idle", "verify", "granted", "denied", "body", "wait"}

TypeOK ==
    /\ up \subseteq Services
    /\ declared \subseteq Routes
    /\ queue \in [Routes -> Seq(Message)]
    /\ pos \in [Routes -> Nat]
    /\ work \in [Routes -> Message \cup {None}]
    /\ stage \in [Routes -> Stages]
    /\ step \in [Routes -> Nat \ {0}]
    /\ call \in [Threads -> Message \cup {None}]
    /\ listening \subseteq Threads
    /\ count \in [Threads -> Nat]
    /\ replies \subseteq Reply
    /\ response \in [Objects -> Seq(Reply)]
    /\ created \subseteq Tokens /\ redis \subseteq created
    /\ issued \subseteq Message
    /\ valid \subseteq Message
    /\ executed \subseteq issued /\ refused \subseteq issued
    /\ repeated \subseteq executed
    /\ answered \subseteq Answer
    /\ faults \in Nat

Init ==
    /\ up = {} /\ declared = {}
    /\ queue = [r \in Routes |-> <<>>]
    /\ pos = [r \in Routes |-> 0]
    /\ work = [r \in Routes |-> None]
    /\ stage = [r \in Routes |-> "idle"]
    /\ step = [r \in Routes |-> 1]
    /\ call = [t \in Threads |-> None]
    /\ listening = {}
    /\ count = [t \in Threads |-> 0]
    /\ replies = {}
    /\ response = [o \in Objects |-> <<>>]
    /\ redis = {} /\ created = {} /\ valid = {}
    /\ issued = {} /\ executed = {} /\ repeated = {} /\ refused = {}
    /\ answered = {}
    /\ faults = 0
-----------------------------------------------------------------------------
(* AmqpService.Call and ResponseCallback. *)

Request(t, r, tok, b, two) ==
    [from |-> t, n |-> count[t] + 1, to |-> r, token |-> tok, body |-> b,
     twoWay |-> two]

\* BasicPublish on the default exchange: dropped when the queue is missing.
Publish(m) ==
    queue' = IF m.to \in declared
             THEN [queue EXCEPT ![m.to] = Append(@, m)] ELSE queue

\* Mutant: reply queues that survive the connection that declared them.
PublishReplyToDurableQueue(m, result, value) ==
    replies' = IF m.twoWay /\ call[m.from] = m
               THEN replies \cup {[call |-> m, result |-> result, value |-> value]}
               ELSE replies

\* A reply is published to its caller's reply queue, if that still exists.
PublishReply(m, result, value) ==
    replies' = IF m.twoWay /\ m.from \in listening /\ call[m.from] = m
               THEN replies \cup {[call |-> m, result |-> result, value |-> value]}
               ELSE replies

\* Call up to Take(): declare the reply queue of a two-way call, publish.
Call(m) ==
    /\ Publish(m)
    /\ count' = [count EXCEPT ![m.from] = m.n]
    /\ issued' = issued \cup {m}
    /\ IF m.twoWay
       THEN /\ call' = [call EXCEPT ![m.from] = m]
            /\ listening' = listening \cup {m.from}
       ELSE UNCHANGED <<call, listening>>
    /\ UNCHANGED response

RepliesWithout(threads) == {x \in replies : x.call.from \notin threads}

\* What Take() gives thread t: the oldest reply put into its object.
Received(t) == Head(response[ObjectOf(call[t])])

\* The rest of Call: the channel is disposed, which deletes the reply queue.
Take(t) ==
    /\ call[t] # None
    /\ response[ObjectOf(call[t])] # <<>>
    /\ response' = [response EXCEPT ![ObjectOf(call[t])] = Tail(@)]
    /\ call' = [call EXCEPT ![t] = None]
    /\ listening' = listening \ {t}
    /\ replies' = RepliesWithout({t})
    /\ answered' = answered \cup {[call |-> call[t], got |-> Received(t)]}
    /\ UNCHANGED count

ResponseCallback(x) ==
    /\ replies' = replies \ {x}
    /\ response' = [response EXCEPT ![ObjectOf(x.call)] = Append(@, x)]
    /\ UNCHANGED <<up, declared, queue, pos, worker, call, listening, count,
                   tokens, history, faults>>

\* An agent or a gateway request calls a route, with a token it was given.
ClientCall(c) ==
    /\ call[c] = None
    /\ count[c] < MaxCalls
    /\ \E r \in Entry, tok \in created \cup {NoToken} :
          Call(Request(c, r, tok, None, TRUE))
    /\ UNCHANGED <<up, declared, pos, replies, worker, tokens, executed,
                   repeated, refused, answered, faults>>

ClientReturn(c) ==
    /\ Take(c)
    /\ UNCHANGED <<up, declared, queue, pos, worker, tokens, issued, executed,
                   repeated, refused, faults>>
-----------------------------------------------------------------------------
(* RabbitInternalService: CreateQueue, HandleRequest. *)

\* The container starts its process (restart: always).
Start(s) ==
    /\ s \in Services \ up
    /\ up' = up \cup {s}
    /\ UNCHANGED <<broker, worker, caller, tokens, history, faults>>

\* MicroRunner.CreateQueues declares every queue in a task of its own.
DeclareQueue(r) ==
    /\ ServiceOf[r] \in up
    /\ r \notin declared
    /\ declared' = declared \cup {r}
    /\ UNCHANGED <<up, queue, pos, replies, worker, caller, tokens, history, faults>>

\* The method is invoked with the request.
Execute(m) ==
    /\ executed' = executed \cup {m}
    /\ repeated' = repeated \cup ({m} \cap executed)

\* The consumer of r delivers the next request to HandleRequest.
Deliver(r) ==
    /\ stage[r] = "idle"
    /\ pos[r] < Len(queue[r])
    /\ pos' = [pos EXCEPT ![r] = @ + 1]
    /\ work' = [work EXCEPT ![r] = queue[r][pos[r] + 1]]

TakeRequest(r) ==
    /\ r \notin AuthRoutes
    /\ Deliver(r)
    /\ stage' = [stage EXCEPT ![r] = "granted"]
    /\ UNCHANGED <<up, declared, queue, replies, step, caller, tokens, history, faults>>

\* AuthorizationRef.Verify sends the token of the request, and no token of
\* its own.
TakeProtectedRequest(r) ==
    /\ r \in AuthRoutes
    /\ Deliver(r)
    /\ Call(Request(r, Verify, NoToken, work'[r].token, TRUE))
    /\ stage' = [stage EXCEPT ![r] = "verify"]
    /\ valid' = valid \cup (IF work'[r].token \in redis THEN {work'[r]} ELSE {})
    /\ UNCHANGED <<up, declared, replies, step, redis, created, executed, repeated,
                   refused, answered, faults>>

\* Mutant: anything but an explicit `false` lets the request through.
VerifyReturnedFailingOpen(r) ==
    /\ stage[r] = "verify"
    /\ Take(r)
    /\ stage' = [stage EXCEPT
                    ![r] = IF Received(r).value = FALSE THEN "denied" ELSE "granted"]
    /\ UNCHANGED <<up, declared, queue, pos, work, step, tokens, issued,
                   executed, repeated, refused, faults>>

\* The reply is parsed as a BoolValue: an Error body parses as false.
VerifyReturned(r) ==
    /\ stage[r] = "verify"
    /\ Take(r)
    /\ stage' = [stage EXCEPT
                    ![r] = IF Received(r).value = TRUE THEN "granted" ELSE "denied"]
    /\ UNCHANGED <<up, declared, queue, pos, work, step, tokens, issued,
                   executed, repeated, refused, faults>>

\* Mutant: the callees are counted from 0.
IdleFromZero(r) ==
    /\ work' = [work EXCEPT ![r] = None]
    /\ stage' = [stage EXCEPT ![r] = "idle"]
    /\ step' = [step EXCEPT ![r] = 0]

Idle(r) ==
    /\ work' = [work EXCEPT ![r] = None]
    /\ stage' = [stage EXCEPT ![r] = "idle"]
    /\ step' = [step EXCEPT ![r] = 1]

\* Mutant: the `return` after the "Unauthorized" reply is missing.
RefuseWithoutReturn(r) ==
    /\ stage[r] = "denied"
    /\ refused' = refused \cup {work[r]}
    /\ PublishReply(work[r], "Failed", None)
    /\ stage' = [stage EXCEPT ![r] = "granted"]
    /\ UNCHANGED <<up, declared, queue, pos, work, step, caller, tokens, issued,
                   executed, repeated, answered, faults>>

\* Mutant: an unauthorized request is ignored.
RefuseSilently(r) ==
    /\ stage[r] = "denied"
    /\ refused' = refused \cup {work[r]}
    /\ Idle(r)
    /\ UNCHANGED <<up, broker, caller, tokens, issued, executed, repeated,
                   answered, faults>>

\* A one-way request has no ReplyTo: sp[0] throws, and nothing is answered.
Refuse(r) ==
    /\ stage[r] = "denied"
    /\ refused' = refused \cup {work[r]}
    /\ PublishReply(work[r], "Failed", None)
    /\ Idle(r)
    /\ UNCHANGED <<up, declared, queue, pos, caller, tokens, issued, executed,
                   repeated, answered, faults>>

RunMethod(r) ==
    /\ stage[r] = "granted"
    /\ Execute(work[r])
    /\ stage' = [stage EXCEPT ![r] = "body"]
    /\ UNCHANGED <<up, broker, work, step, caller, tokens, issued, refused,
                   answered, faults>>

\* The method calls another route, forwarding the token of its request.
CallCallee(r) ==
    /\ stage[r] = "body"
    /\ step[r] \in DOMAIN Callees[r]
    /\ LET callee == Callees[r][step[r]] IN
          /\ Call(Request(r, callee.to, work[r].token, None, callee.twoWay))
          /\ stage' = [stage EXCEPT ![r] = IF callee.twoWay THEN "wait" ELSE "body"]
    /\ step' = [step EXCEPT ![r] = @ + 1]
    /\ UNCHANGED <<up, declared, pos, replies, work, tokens, executed,
                   repeated, refused, answered, faults>>

CalleeReturned(r) ==
    /\ stage[r] = "wait"
    /\ Take(r)
    /\ stage' = [stage EXCEPT ![r] = "body"]
    /\ UNCHANGED <<up, declared, queue, pos, work, step, tokens, issued,
                   executed, repeated, refused, faults>>

\* Mutant: authorization.verify remembers the tokens it has created.
FinishRemembering(r) ==
    /\ stage[r] = "body"
    /\ r # Create
    /\ step[r] > Len(Callees[r])
    /\ PublishReply(work[r], "Success",
                    IF r = Verify THEN work[r].body \in created ELSE None)
    /\ Idle(r)
    /\ UNCHANGED <<up, declared, queue, pos, caller, tokens, history, faults>>

\* The method has returned; authorization.verify looks its argument up.
Finish(r) ==
    /\ stage[r] = "body"
    /\ r # Create
    /\ step[r] > Len(Callees[r])
    /\ PublishReply(work[r], "Success",
                    IF r = Verify THEN work[r].body \in redis ELSE None)
    /\ Idle(r)
    /\ UNCHANGED <<up, declared, queue, pos, caller, tokens, history, faults>>

BeingVerified(t) == {r \in Routes : stage[r] = "verify" /\ work[r].token = t}

\* authorization.create: Guid.NewGuid, StringSet; when Redis does not store
\* it, the reply is still Success, with Guid.Empty.
CreateToken ==
    /\ stage[Create] = "body"
    /\ \/ \E t \in Tokens \ created :
             /\ created' = created \cup {t}
             /\ redis' = redis \cup {t}
             /\ valid' = valid \cup {work[r] : r \in BeingVerified(t)}
             /\ PublishReply(work[Create], "Success", t)
       \/ /\ PublishReply(work[Create], "Success", NoToken)
          /\ UNCHANGED tokens
    /\ Idle(Create)
    /\ UNCHANGED <<up, declared, queue, pos, caller, history, faults>>

\* The method throws, before or after any of its calls.
Throw(r) ==
    /\ stage[r] = "body"
    /\ PublishReply(work[r], "Failed", None)
    /\ Idle(r)
    /\ UNCHANGED <<up, declared, queue, pos, caller, tokens, history, faults>>
-----------------------------------------------------------------------------
(* Faults. *)

Fault == faults < MaxFaults /\ faults' = faults + 1

\* Mutant: durable queues, whose unacknowledged deliveries are made again.
QueuesRedelivered(rs) ==
    /\ queue' = queue
    /\ pos' = [r \in Routes |-> IF r \in rs THEN 0 ELSE pos[r]]

QueuesLost(rs) ==
    /\ queue' = [r \in Routes |-> IF r \in rs THEN <<>> ELSE queue[r]]
    /\ pos' = [r \in Routes |-> IF r \in rs THEN 0 ELSE pos[r]]

\* The process of s ends: its exclusive queues, its reply queues and what its
\* threads were doing are gone.
Crash(s) ==
    /\ Fault
    /\ s \in up
    /\ up' = up \ {s}
    /\ declared' = declared \ RoutesOf(s)
    /\ QueuesLost(RoutesOf(s))
    /\ work' = [r \in Routes |-> IF r \in RoutesOf(s) THEN None ELSE work[r]]
    /\ stage' = [r \in Routes |-> IF r \in RoutesOf(s) THEN "idle" ELSE stage[r]]
    /\ step' = [r \in Routes |-> IF r \in RoutesOf(s) THEN 1 ELSE step[r]]
    /\ call' = [t \in Threads |-> IF t \in RoutesOf(s) THEN None ELSE call[t]]
    /\ listening' = listening \ RoutesOf(s)
    /\ replies' = RepliesWithout(RoutesOf(s))
    /\ response' = [o \in Objects |-> IF o \in ObjectsOf(s) THEN <<>> ELSE response[o]]
    /\ UNCHANGED <<count, tokens, history>>

\* The connection of an idle service is lost and recovered: the library
\* declares its queues again, empty.
ConnectionLoss(s) ==
    /\ Fault
    /\ s \in up
    /\ \A r \in RoutesOf(s) : stage[r] = "idle"
    /\ QueuesLost(RoutesOf(s))
    /\ UNCHANGED <<up, declared, replies, worker, caller, tokens, history>>

\* The connection of a waiting client is lost and recovered: its reply queue
\* comes back under another name, so the reply will not find it.
ClientConnectionLoss(c) ==
    /\ Fault
    /\ c \in listening
    /\ listening' = listening \ {c}
    /\ replies' = RepliesWithout({c})
    /\ UNCHANGED <<up, declared, queue, pos, worker, call, count, response,
                   tokens, history>>

\* The agent or the gateway is started anew.
ClientRestart(c) ==
    /\ Fault
    /\ call[c] # None
    /\ call' = [call EXCEPT ![c] = None]
    /\ listening' = listening \ {c}
    /\ replies' = RepliesWithout({c})
    /\ response' = [response EXCEPT ![<<"transient", c>>] = <<>>]
    /\ UNCHANGED <<up, declared, queue, pos, worker, count, tokens, history>>

\* Redis keeps its keys in memory only.
RedisLoss ==
    /\ Fault
    /\ redis # {}
    /\ redis' = {}
    /\ UNCHANGED <<up, broker, worker, caller, created, valid, history>>
-----------------------------------------------------------------------------
Step(r) ==
    \/ TakeRequest(r) \/ TakeProtectedRequest(r) \/ VerifyReturned(r)
    \/ Refuse(r) \/ RunMethod(r) \/ CallCallee(r) \/ CalleeReturned(r)
    \/ Finish(r) \/ (r = Create /\ CreateToken)

Faults ==
    \/ \E s \in Services : Crash(s) \/ ConnectionLoss(s)
    \/ \E c \in Clients : ClientConnectionLoss(c) \/ ClientRestart(c)
    \/ RedisLoss

Next ==
    \/ \E s \in Services : Start(s)
    \/ \E r \in Routes : DeclareQueue(r) \/ Step(r) \/ Throw(r)
    \/ \E c \in Clients : ClientCall(c) \/ ClientReturn(c)
    \/ \E x \in replies : ResponseCallback(x)
    \/ Faults

Spec == Init /\ [][Next]_vars

(***************************************************************************)
(* The operating system runs every thread that can run, and the broker     *)
(* delivers what it holds.  Nobody is obliged to call, to throw or to fail.*)
(***************************************************************************)
Fairness ==
    /\ \A s \in Services : WF_vars(Start(s))
    /\ \A r \in Routes : WF_vars(DeclareQueue(r)) /\ WF_vars(Step(r))
    /\ \A c \in Clients : WF_vars(ClientReturn(c))
    /\ WF_vars(\E x \in replies : ResponseCallback(x))

FairSpec == Spec /\ Fairness
-----------------------------------------------------------------------------
(* What the calls guarantee. *)

\* A request's method is invoked at most once: a queue and what was delivered
\* from it are lost together (QueueDeclare's exclusive, autoDelete defaults),
\* so the broker has nothing to deliver again although nothing is acknowledged.
AtMostOnce == repeated = {}

\* A Call returns the reply to its own request, although the routes of a
\* service put the replies of all their calls into shared `response` objects.
Correlated == \A a \in answered : a.got.call = a.call

\* A method with [Authorize] runs only for a token that authorization.create
\* had stored and Redis still held at some moment after its service took the
\* request: neither a failed verification, nor the answer to another request,
\* nor a token that was lost before lets it run.
AuthorizedOnly == \A m \in executed : m.to \in AuthRoutes => m \in valid

\* The calls implement the abstract at-most-once call.
R == INSTANCE Rpc WITH answered <- {a.call : a \in answered}
ImplementsRpc == R!Spec

\* The request waits for its route, or is being handled.
Pending(m) ==
    \/ work[m.to] = m
    \/ \E i \in DOMAIN queue[m.to] : i > pos[m.to] /\ queue[m.to][i] = m

\* Nobody is going to put a reply where t waits for it.
Hopeless(t) ==
    /\ call[t] # None
    /\ response[ObjectOf(call[t])] = <<>>
    /\ \A x \in replies : x.call # call[t]
    /\ t \notin listening \/ ~Pending(call[t])

\* Call has no timeout: a thread whose reply queue is gone, whose request was
\* dropped or whose request was lost with the queue or the process of its
\* route waits until its own process ends, whatever the rest of the system
\* does; an agent, a gateway request or the consumer of a protected route.
HopelessStays ==
    [][\A t \in Threads : Hopeless(t) => Hopeless(t)' \/ faults' # faults]_vars

\* Without faults, when every queue had been declared before the first call,
\* a client that called is answered.
EveryCallReturns ==
    [](issued # {} => declared = Routes) =>
        \A c \in Clients : (call[c] # None) ~> (call[c] = None)
-----------------------------------------------------------------------------
(* The inductive invariant behind these properties: where a request and its *)
(* reply can be.                                                            *)

Acted == executed \cup refused

\* A request that was acted upon and is no longer in the hands of its route:
\* only such a request has a reply.
Handled(m) == m \in Acted /\ work[m.to] # m

WorkAt(r) ==
    /\ stage[r] = "idle" <=> work[r] = None
    /\ work[r] # None => work[r].to = r /\ work[r] \in issued
    /\ stage[r] \in {"verify", "granted", "denied"} => work[r] \notin Acted
    /\ stage[r] \in {"body", "wait"} => work[r] \in executed
    /\ stage[r] = "verify" /\ work[r].token \in redis => work[r] \in valid
    /\ stage[r] \in {"granted", "body", "wait"} /\ r \in AuthRoutes
          => work[r] \in valid
    /\ stage[r] \in {"verify", "denied"} => r \in AuthRoutes

WorkOK == \A r \in Routes : WorkAt(r)

CallAt(t) ==
    call[t] # None =>
       /\ call[t].from = t /\ call[t].twoWay /\ call[t] \in issued
       /\ \A a \in answered : a.call # call[t]
       /\ t \notin Routes => call[t].to # Verify

RouteCallAt(r) ==
    /\ stage[r] = "verify" =>
          call[r] # None /\ call[r].to = Verify /\ call[r].body = work[r].token
    /\ stage[r] = "wait" =>
          call[r] # None /\ call[r].to # Verify /\ MakesTwoWayCall(r)
    /\ stage[r] \notin {"verify", "wait"} => call[r] = None

CallOK ==
    /\ \A t \in Threads : CallAt(t)
    /\ \A r \in Routes : RouteCallAt(r)

QueueOK ==
    \A r \in Routes :
       /\ pos[r] <= Len(queue[r])
       /\ \A i \in 1..Len(queue[r]) :
             /\ queue[r][i] \in issued /\ queue[r][i].to = r
             /\ i > pos[r] => queue[r][i] \notin Acted /\ queue[r][i] # work[r]
             /\ \A j \in 1..Len(queue[r]) : i # j => queue[r][i] # queue[r][j]

IssuedOK == \A m \in issued : m.n <= count[m.from]

\* A reply says yes only to a route whose request is valid.
Truthful(x) ==
    x.call.to = Verify /\ x.value = TRUE =>
        x.call.from \in Routes /\ work[x.call.from] \in valid

ReplyOK(x) == call[x.call.from] = x.call /\ Handled(x.call) /\ Truthful(x)

Responses(o) == {response[o][i] : i \in 1..Len(response[o])}

RepliesOK ==
    \A x \in replies :
       /\ ReplyOK(x)
       /\ \A y \in replies : x.call = y.call => x = y

ResponseOK ==
    \A o \in Objects :
       /\ Len(response[o]) <= 1
       /\ \A x \in Responses(o) :
             /\ ReplyOK(x) /\ ObjectOf(x.call) = o
             /\ \A y \in replies : y.call # x.call

ValidOK == \A m \in valid : m.token \in created

\* A reply queue that is gone holds no replies.
ListenOK == \A x \in replies : x.call.from \in listening

HistoryOK ==
    /\ executed \cap refused = {}
    /\ \A a \in answered : a.call \in Acted /\ a.call.twoWay

IInv ==
    /\ TypeOK /\ WorkOK /\ CallOK /\ QueueOK /\ IssuedOK /\ RepliesOK
    /\ ResponseOK /\ ValidOK /\ ListenOK /\ HistoryOK
    /\ AtMostOnce /\ Correlated /\ AuthorizedOnly
=============================================================================

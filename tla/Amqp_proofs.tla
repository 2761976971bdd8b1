---------------------------- MODULE Amqp_proofs ----------------------------
(***************************************************************************)
(* Proofs about Amqp for every deployment that satisfies the assumptions   *)
(* Deployment and OneCallerPerService, every number of clients and calls,  *)
(* and every sequence of crashes and lost connections.                     *)
(***************************************************************************)
EXTENDS Amqp, TLAPS

\* The facts about records the prover needs again and again.
LEMMA MessageFields ==
    ASSUME NEW m \in Message
    PROVE  /\ m.from \in Threads /\ m.n \in Nat /\ m.to \in Routes
           /\ m.token \in Tokens \cup {NoToken}
           /\ m.body \in Tokens \cup {NoToken, None}
           /\ m.twoWay \in BOOLEAN /\ m # None
           /\ ObjectOf(m) \in Objects
  BY Deployment, NoneIsNoMessage DEF Message, ObjectOf, Objects, Threads

\* What Call is given is a message with the fields of its arguments.
LEMMA RequestIsMessage ==
    ASSUME TypeOK, NEW t \in Threads, NEW r \in Routes,
           NEW tok \in Tokens \cup {NoToken},
           NEW b \in Tokens \cup {NoToken, None}, NEW two \in BOOLEAN
    PROVE  LET m == Request(t, r, tok, b, two) IN
           /\ m \in Message /\ m.from = t /\ m.to = r /\ m.n = count[t] + 1
           /\ m.token = tok /\ m.body = b /\ m.twoWay = two
  BY DEF TypeOK, Request, Message

\* The new call of a thread is different from every request issued before.
LEMMA Fresh ==
    ASSUME TypeOK, IssuedOK, NEW m \in Message, m.n = count[m.from] + 1
    PROVE  m \notin issued
  BY MessageFields DEF TypeOK, IssuedOK

\* A Call keeps the types of the broker's queue and of the caller's state.
LEMMA CallType ==
    ASSUME TypeOK, NEW m \in Message, Call(m)
    PROVE  /\ queue' \in [Routes -> Seq(Message)]
           /\ count' \in [Threads -> Nat]
           /\ call' \in [Threads -> Message \cup {None}]
           /\ listening' \subseteq Threads
           /\ response' \in [Objects -> Seq(Reply)]
           /\ issued' \subseteq Message /\ issued \subseteq issued'
  <1> USE MessageFields DEF TypeOK
  <1>1. queue' \in [Routes -> Seq(Message)]
    <2>1. CASE m.to \in declared
      <3>1. Append(queue[m.to], m) \in Seq(Message)
        OBVIOUS
      <3>2. QED  BY <2>1, <3>1 DEF Call, Publish
    <2>2. CASE m.to \notin declared
      BY <2>2 DEF Call, Publish
    <2>3. QED  BY <2>1, <2>2
  <1>2. m.from \in Threads /\ m.n \in Nat
    OBVIOUS
  <1>3. count' \in [Threads -> Nat]
    BY <1>2 DEF Call
  <1>4. call' \in [Threads -> Message \cup {None}]
    <2>1. CASE m.twoWay
      <3>1. call' = [call EXCEPT ![m.from] = m]
        BY <2>1 DEF Call
      <3>2. QED  BY <1>2, <3>1
    <2>2. CASE ~m.twoWay
      BY <2>2 DEF Call
    <2>3. QED  BY <2>1, <2>2
  <1>5. /\ listening' \subseteq Threads
        /\ issued' \subseteq Message /\ issued \subseteq issued'
    BY <1>2 DEF Call
  <1>6. QED  BY <1>1, <1>3, <1>4, <1>5 DEF Call

\* Take returns a reply and keeps the types of what it changes.
LEMMA TakeType ==
    ASSUME TypeOK, NEW t \in Threads, Take(t)
    PROVE  /\ call[t] \in Message /\ Received(t) \in Reply
           /\ response' \in [Objects -> Seq(Reply)]
           /\ call' \in [Threads -> Message \cup {None}]
           /\ listening' \subseteq Threads
           /\ replies' \subseteq Reply
           /\ answered' \subseteq Answer
           /\ count' = count
  <1> USE MessageFields DEF TypeOK
  <1>1. call[t] \in Message /\ ObjectOf(call[t]) \in Objects
    BY DEF Take
  <1>2. /\ response[ObjectOf(call[t])] \in Seq(Reply)
        /\ response[ObjectOf(call[t])] # <<>>
    BY <1>1 DEF Take
  <1>3. /\ Head(response[ObjectOf(call[t])]) \in Reply
        /\ Tail(response[ObjectOf(call[t])]) \in Seq(Reply)
    BY <1>2
  <1>4. [call |-> call[t], got |-> Received(t)] \in Answer
    BY <1>1, <1>3 DEF Received, Answer
  <1>5. QED  BY <1>1, <1>3, <1>4 DEF Take, Received, RepliesWithout

\* What PublishReply publishes is a reply.
LEMMA PublishReplyType ==
    ASSUME TypeOK, NEW m \in Message, NEW res \in {"Success", "Failed"},
           NEW v \in Tokens \cup {NoToken, None} \cup BOOLEAN,
           PublishReply(m, res, v)
    PROVE  replies' \subseteq Reply
  BY DEF PublishReply, Reply, TypeOK

-----------------------------------------------------------------------------
(* Type correctness. *)

\* The initial values have their types.
LEMMA InitType == Init => TypeOK
  BY Deployment DEF Init, TypeOK, Stages

\* A route that is not idle works on a message.
LEMMA WorkType ==
    ASSUME TypeOK, WorkOK, NEW r \in Routes, stage[r] # "idle"
    PROVE  work[r] \in Message
  BY DEF TypeOK, WorkOK, WorkAt

\* An idle worker's state has its type.
LEMMA IdleType ==
    ASSUME TypeOK, NEW r \in Routes, Idle(r)
    PROVE  /\ work' \in [Routes -> Message \cup {None}]
           /\ stage' \in [Routes -> Stages]
           /\ step' \in [Routes -> Nat \ {0}]
  BY DEF TypeOK, Idle, Stages

\* What the consumer is given is a message of its queue.
LEMMA DeliverType ==
    ASSUME TypeOK, NEW r \in Routes, Deliver(r)
    PROVE  /\ pos' \in [Routes -> Nat]
           /\ work' \in [Routes -> Message \cup {None}]
           /\ work'[r] = queue[r][pos[r] + 1]
           /\ work'[r] \in Message
  <1>1. queue[r][pos[r] + 1] \in Message
    BY DEF TypeOK, Deliver
  <1>2. QED  BY <1>1 DEF TypeOK, Deliver

\* The next callee is a route other than authorization.verify.
LEMMA CalleeFields ==
    ASSUME TypeOK, NEW r \in Routes, step[r] \in DOMAIN Callees[r]
    PROVE  /\ Callees[r][step[r]].to \in Routes \ {Verify}
           /\ Callees[r][step[r]].twoWay \in BOOLEAN
  <1> DEFINE S == [to : Routes \ {Verify}, twoWay : BOOLEAN]
  <1>1. Callees[r] \in Seq(S)
    BY Deployment
  <1> HIDE DEF S
  <1>2. Callees[r][step[r]] \in S
    BY <1>1
  <1>3. QED  BY <1>2 DEF S

-----------------------------------------------------------------------------
(* The requests a step issues. *)

NewCall(m) == m \in Message /\ m.n = count[m.from] + 1 /\ Call(m)

\* A client's call is a new two-way call.
LEMMA ClientCalls ==
    ASSUME TypeOK, NEW c \in Clients, ClientCall(c)
    PROVE  \E m : NewCall(m) /\ m.from = c /\ m.twoWay /\ m.to # Verify
  <1>1. PICK r \in Entry, tok \in created \cup {NoToken} :
           Call(Request(c, r, tok, None, TRUE))
    BY DEF ClientCall
  <1> DEFINE m == Request(c, r, tok, None, TRUE)
  <1>2. m \in Message /\ m.from = c /\ m.n = count[c] + 1 /\ m.twoWay
    BY RequestIsMessage, Deployment DEF Threads, TypeOK, Request
  <1>3. m.to = r /\ r # Verify
    BY Deployment DEF Request
  <1>4. NewCall(m)
    BY <1>1, <1>2 DEF NewCall
  <1>5. QED  BY <1>2, <1>3, <1>4

\* AuthorizationRef.Verify makes a new two-way call that carries the token of
\* the request.
LEMMA VerifyCalls ==
    ASSUME TypeOK, NEW r \in Routes, TakeProtectedRequest(r)
    PROVE  \E m : /\ NewCall(m) /\ m.from = r /\ m.twoWay /\ m.to = Verify
                  /\ m.body = work'[r].token
  <1> DEFINE m == Request(r, Verify, NoToken, work'[r].token, TRUE)
  <1>1. work'[r].token \in Tokens \cup {NoToken}
    BY DeliverType, MessageFields DEF TakeProtectedRequest
  <1>2. r \in Threads /\ Verify \in Routes
    BY Deployment DEF Threads
  <1>3. /\ m \in Message /\ m.from = r /\ m.n = count[r] + 1
        /\ m.twoWay /\ m.to = Verify /\ m.body = work'[r].token
    BY <1>1, <1>2, RequestIsMessage DEF Request
  <1>4. NewCall(m)
    BY <1>3 DEF TakeProtectedRequest, NewCall
  <1>5. QED  BY <1>3, <1>4

\* A method's call is a new one, to a route other than authorization.verify; the
\* method waits for it exactly if it is two-way.
LEMMA CalleeCalls ==
    ASSUME TypeOK, WorkOK, NEW r \in Routes, CallCallee(r)
    PROVE  \E m : /\ NewCall(m) /\ m.from = r /\ m.to # Verify
                  /\ m.twoWay => stage'[r] = "wait" /\ MakesTwoWayCall(r)
                  /\ ~m.twoWay => stage'[r] = "body"
  <1> DEFINE callee == Callees[r][step[r]]
             m == Request(r, callee.to, work[r].token, None, callee.twoWay)
  <1>1. callee.to \in Routes \ {Verify} /\ callee.twoWay \in BOOLEAN
    BY CalleeFields DEF CallCallee
  <1>2. work[r].token \in Tokens \cup {NoToken} /\ r \in Threads
    BY WorkType, MessageFields DEF CallCallee, Threads
  <1>3. /\ m \in Message /\ m.from = r /\ m.n = count[r] + 1
        /\ m.to = callee.to /\ m.twoWay = callee.twoWay
    BY <1>1, <1>2, RequestIsMessage DEF Request
  <1>4. NewCall(m)
    BY <1>3 DEF CallCallee, NewCall
  <1>5. callee.twoWay => MakesTwoWayCall(r)
    BY DEF CallCallee, MakesTwoWayCall
  <1>6. stage'[r] = IF callee.twoWay THEN "wait" ELSE "body"
    BY DEF CallCallee, TypeOK
  <1>7. QED  BY <1>1, <1>3, <1>4, <1>5, <1>6

-----------------------------------------------------------------------------
\* Every step keeps the types.
LEMMA NextType == TypeOK /\ WorkOK /\ [Next]_vars => TypeOK'
  <1> SUFFICES ASSUME TypeOK, WorkOK, [Next]_vars PROVE TypeOK'
    OBVIOUS
  <1>1. ASSUME NEW s \in Services, Start(s) PROVE TypeOK'
    BY <1>1 DEF Start, TypeOK, broker, worker, caller, tokens, history
  <1>2. ASSUME NEW r \in Routes, DeclareQueue(r) PROVE TypeOK'
    BY <1>2 DEF DeclareQueue, TypeOK, worker, caller, tokens, history
  <1>3. ASSUME NEW r \in Routes, TakeRequest(r) PROVE TypeOK'
    <2>1. Deliver(r) /\ stage' \in [Routes -> Stages]
      BY <1>3 DEF TakeRequest, TypeOK, Stages
    <2>2. QED  BY <1>3, <2>1, DeliverType
               DEF TakeRequest, TypeOK, caller, tokens, history
  <1>4. ASSUME NEW r \in Routes, TakeProtectedRequest(r) PROVE TypeOK'
    <2>1. Deliver(r) /\ stage' \in [Routes -> Stages]
      BY <1>4 DEF TakeProtectedRequest, TypeOK, Stages
    <2>2. PICK m : NewCall(m)
      BY <1>4, VerifyCalls
    <2>3. m \in Message /\ Call(m)
      BY <2>2 DEF NewCall
    <2>4. valid' \subseteq Message /\ UNCHANGED <<redis, created>>
      BY <1>4, <2>1, DeliverType DEF TakeProtectedRequest, TypeOK
    <2>5. QED  BY <1>4, <2>1, <2>3, <2>4, DeliverType, CallType
               DEF TakeProtectedRequest, TypeOK
  <1>5. ASSUME NEW r \in Routes, VerifyReturned(r) PROVE TypeOK'
    <2>1. Take(r) /\ stage' \in [Routes -> Stages] /\ r \in Threads
      BY <1>5 DEF VerifyReturned, TypeOK, Stages, Threads
    <2>2. QED  BY <1>5, <2>1, TakeType DEF VerifyReturned, TypeOK, tokens
  <1>6. ASSUME NEW r \in Routes, Refuse(r) PROVE TypeOK'
    <2>1. /\ work[r] \in Message /\ work[r] \in issued
          /\ PublishReply(work[r], "Failed", None) /\ Idle(r)
      BY <1>6, WorkType DEF Refuse, WorkOK, WorkAt
    <2>2. QED  BY <1>6, <2>1, PublishReplyType, IdleType
               DEF Refuse, TypeOK, caller, tokens
  <1>7. ASSUME NEW r \in Routes, RunMethod(r) PROVE TypeOK'
    <2>1. work[r] \in issued
      BY <1>7, WorkType DEF RunMethod, WorkOK, WorkAt
    <2>2. stage' \in [Routes -> Stages]
      BY <1>7 DEF RunMethod, TypeOK, Stages
    <2>3. QED  BY <1>7, <2>1, <2>2
               DEF RunMethod, Execute, TypeOK, broker, caller, tokens
  <1>8. ASSUME NEW r \in Routes, CallCallee(r) PROVE TypeOK'
    <2>1. PICK m : NewCall(m)
      BY <1>8, CalleeCalls
    <2>2. m \in Message /\ Call(m)
      BY <2>1 DEF NewCall
    <2>3. /\ stage' \in [Routes -> Stages]
          /\ step' \in [Routes -> Nat \ {0}]
      BY <1>8 DEF CallCallee, TypeOK, Stages
    <2>4. QED  BY <1>8, <2>2, <2>3, CallType
               DEF CallCallee, TypeOK, tokens
  <1>9. ASSUME NEW r \in Routes, CalleeReturned(r) PROVE TypeOK'
    <2>1. Take(r) /\ stage' \in [Routes -> Stages] /\ r \in Threads
      BY <1>9 DEF CalleeReturned, TypeOK, Stages, Threads
    <2>2. QED  BY <1>9, <2>1, TakeType DEF CalleeReturned, TypeOK, tokens
  <1>10. ASSUME NEW r \in Routes, Finish(r) PROVE TypeOK'
    <2> DEFINE v == IF r = Verify THEN work[r].body \in redis ELSE None
    <2>1. /\ work[r] \in Message /\ Idle(r)
          /\ PublishReply(work[r], "Success", v)
      BY <1>10, WorkType DEF Finish
    <2>2. v \in Tokens \cup {NoToken, None} \cup BOOLEAN
      OBVIOUS
    <2> HIDE DEF v
    <2>3. QED  BY <1>10, <2>1, <2>2, PublishReplyType, IdleType
               DEF Finish, TypeOK, caller, tokens, history
  <1>11. ASSUME CreateToken PROVE TypeOK'
    <2>1. Create \in Routes /\ work[Create] \in Message /\ Idle(Create)
      BY <1>11, WorkType, Deployment DEF CreateToken
    <2>2. CASE \E t \in Tokens \ created :
                  /\ created' = created \cup {t} /\ redis' = redis \cup {t}
                  /\ valid' = valid \cup {work[r] : r \in BeingVerified(t)}
                  /\ PublishReply(work[Create], "Success", t)
      <3>1. replies' \subseteq Reply
        BY <2>1, <2>2, PublishReplyType
      <3>2. created' \subseteq Tokens /\ redis' \subseteq created'
        BY <2>2 DEF TypeOK
      <3>3. valid' \subseteq Message
        BY <2>2, WorkType DEF BeingVerified, TypeOK
      <3>4. QED  BY <1>11, <2>1, <3>1, <3>2, <3>3, IdleType
                 DEF CreateToken, TypeOK, caller, history
    <2>3. CASE PublishReply(work[Create], "Success", NoToken) /\ UNCHANGED tokens
      <3>1. replies' \subseteq Reply
        BY <2>1, <2>3, PublishReplyType
      <3>2. QED  BY <1>11, <2>1, <2>3, <3>1, IdleType
                 DEF CreateToken, TypeOK, caller, tokens, history
    <2>4. QED  BY <1>11, <2>2, <2>3 DEF CreateToken
  <1>12. ASSUME NEW r \in Routes, Throw(r) PROVE TypeOK'
    <2>1. /\ work[r] \in Message /\ Idle(r)
          /\ PublishReply(work[r], "Failed", None)
      BY <1>12, WorkType DEF Throw
    <2>2. QED  BY <1>12, <2>1, PublishReplyType, IdleType
               DEF Throw, TypeOK, caller, tokens, history
  <1>13. ASSUME NEW c \in Clients, ClientCall(c) PROVE TypeOK'
    <2>1. PICK m : NewCall(m)
      BY <1>13, ClientCalls
    <2>2. m \in Message /\ Call(m)
      BY <2>1 DEF NewCall
    <2>3. QED  BY <1>13, <2>2, CallType
               DEF ClientCall, TypeOK, worker, tokens
  <1>14. ASSUME NEW c \in Clients, ClientReturn(c) PROVE TypeOK'
    <2>1. Take(c) /\ c \in Threads
      BY <1>14 DEF ClientReturn, Threads
    <2>2. QED  BY <1>14, <2>1, TakeType DEF ClientReturn, TypeOK, worker, tokens
  <1>15. ASSUME NEW x \in replies, ResponseCallback(x) PROVE TypeOK'
    <2>1. x \in Reply /\ ObjectOf(x.call) \in Objects
      BY MessageFields DEF TypeOK, Reply
    <2>2. response' \in [Objects -> Seq(Reply)]
      <3>1. Append(response[ObjectOf(x.call)], x) \in Seq(Reply)
        BY <2>1 DEF TypeOK
      <3>2. QED  BY <1>15, <2>1, <3>1 DEF ResponseCallback, TypeOK
    <2>3. QED  BY <1>15, <2>2
               DEF ResponseCallback, TypeOK, worker, tokens, history
  <1>16. ASSUME NEW s \in Services, Crash(s) PROVE TypeOK'
    <2>1. /\ queue' \in [Routes -> Seq(Message)] /\ pos' \in [Routes -> Nat]
      BY <1>16 DEF Crash, QueuesLost, TypeOK
    <2>2. /\ work' \in [Routes -> Message \cup {None}]
          /\ stage' \in [Routes -> Stages] /\ step' \in [Routes -> Nat \ {0}]
      BY <1>16 DEF Crash, TypeOK, Stages
    <2>3. /\ call' \in [Threads -> Message \cup {None}]
          /\ response' \in [Objects -> Seq(Reply)]
      BY <1>16 DEF Crash, TypeOK
    <2>4. QED  BY <1>16, <2>1, <2>2, <2>3
               DEF Crash, Fault, RepliesWithout, TypeOK, tokens, history
  <1>17. ASSUME NEW s \in Services, ConnectionLoss(s) PROVE TypeOK'
    <2>1. /\ queue' \in [Routes -> Seq(Message)] /\ pos' \in [Routes -> Nat]
      BY <1>17 DEF ConnectionLoss, QueuesLost, TypeOK
    <2>2. QED  BY <1>17, <2>1
               DEF ConnectionLoss, Fault, TypeOK, worker, caller, tokens, history
  <1>18. ASSUME NEW c \in Clients, ClientConnectionLoss(c) PROVE TypeOK'
    BY <1>18 DEF ClientConnectionLoss, Fault, RepliesWithout, TypeOK, worker,
                 tokens, history
  <1>19. ASSUME NEW c \in Clients, ClientRestart(c) PROVE TypeOK'
    <2>1. /\ call' \in [Threads -> Message \cup {None}]
          /\ response' \in [Objects -> Seq(Reply)]
      BY <1>19 DEF ClientRestart, TypeOK, Threads, Objects
    <2>2. QED  BY <1>19, <2>1
               DEF ClientRestart, Fault, RepliesWithout, TypeOK, worker, tokens, history
  <1>20. ASSUME RedisLoss PROVE TypeOK'
    BY <1>20 DEF RedisLoss, Fault, TypeOK, broker, worker, caller, history
  <1>21. ASSUME UNCHANGED vars PROVE TypeOK'
    BY <1>21 DEF TypeOK, vars, broker, worker, caller, tokens, history
  <1>22. QED
    BY <1>1, <1>2, <1>3, <1>4, <1>5, <1>6, <1>7, <1>8, <1>9, <1>10, <1>11,
       <1>12, <1>13, <1>14, <1>15, <1>16, <1>17, <1>18, <1>19, <1>20, <1>21
    DEF Next, Step, Faults

-----------------------------------------------------------------------------
(* The shape of a step: what it may do to the histories, and to the queue  *)
(* and the worker of one route.                                            *)

HistoryGrows ==
    /\ issued \subseteq issued' /\ created \subseteq created' /\ valid \subseteq valid'
    /\ executed \subseteq executed' /\ refused \subseteq refused'
    /\ \A m \in Acted' : m \in Acted \/ \E q \in Routes : m = work[q]

QueueStep(r) ==
    \/ /\ queue'[r] = <<>> /\ pos'[r] = 0
       /\ work'[r] = work[r] \/ work'[r] = None
    \/ /\ \/ queue'[r] = queue[r]
          \/ \E m \in issued' \ issued : m.to = r /\ queue'[r] = Append(queue[r], m)
       /\ \/ pos'[r] = pos[r] /\ (work'[r] = work[r] \/ work'[r] = None)
          \/ /\ pos[r] < Len(queue[r]) /\ pos'[r] = pos[r] + 1
             /\ work'[r] = queue[r][pos[r] + 1]

\* A handled request stays handled: its route is never given it again.
HandledStays == \A m \in Message : Handled(m) => Handled(m)'

\* A route keeps its request while it waits for an answer.
WorkStays ==
    \A r \in Routes : call[r] # None /\ call'[r] = call[r] => work'[r] = work[r]

RequestsStay == HandledStays /\ WorkStays

\* A token is in Redis after a step because it was before, or because it is
\* created while it is verified.
RedisStep ==
    \A r \in Routes : stage[r] = "verify" /\ work[r].token \in redis' =>
        work[r].token \in redis \/ work[r] \in valid'

\* A new call was not issued before, and is appended to the queue of its route
\* or to none.
LEMMA CallStep ==
    ASSUME TypeOK, IssuedOK, NEW m, NewCall(m)
    PROVE  /\ m \notin issued /\ issued' = issued \cup {m}
           /\ \A r \in Routes :
                 \/ queue'[r] = queue[r]
                 \/ \E x \in issued' \ issued : x.to = r /\ queue'[r] = Append(queue[r], x)
  <1>1. m \notin issued /\ issued' = issued \cup {m} /\ m.to \in Routes
    BY Fresh, MessageFields DEF NewCall, Call
  <1>2. CASE m.to \in declared
    <2>1. queue' = [queue EXCEPT ![m.to] = Append(@, m)]
      BY <1>2 DEF NewCall, Call, Publish
    <2>2. QED  BY <1>1, <2>1 DEF TypeOK
  <1>3. CASE m.to \notin declared
    BY <1>1, <1>3 DEF NewCall, Call, Publish
  <1>4. QED  BY <1>1, <1>2, <1>3

\* What every step does to the queues and to the history.
LEMMA Shape ==
    ASSUME TypeOK, WorkOK, IssuedOK, [Next]_vars
    PROVE  HistoryGrows /\ \A r \in Routes : QueueStep(r)
  <1> DEFINE Goal == HistoryGrows /\ \A q \in Routes : QueueStep(q)
  <1>1. ASSUME UNCHANGED <<queue, pos, work, created, valid, issued, executed, refused>>
        PROVE  Goal
    BY <1>1 DEF HistoryGrows, QueueStep, Acted
  <1>2. ASSUME NEW r \in Routes, Idle(r), created \subseteq created', valid \subseteq valid',
               UNCHANGED <<queue, pos, issued, executed, refused>>
        PROVE  Goal
    BY <1>2 DEF HistoryGrows, QueueStep, Acted, Idle, TypeOK
  <1>3. ASSUME NEW r \in Routes, TakeRequest(r) PROVE Goal
    BY <1>3 DEF TakeRequest, Deliver, HistoryGrows, QueueStep, Acted, TypeOK,
                history, tokens
  <1>4. ASSUME NEW r \in Routes, TakeProtectedRequest(r) PROVE Goal
    <2>1. Deliver(r)
      BY <1>4 DEF TakeProtectedRequest
    <2>3. PICK m : NewCall(m)
      BY <1>4, VerifyCalls
    <2>5. UNCHANGED <<created, executed, refused>> /\ valid \subseteq valid'
      BY <1>4 DEF TakeProtectedRequest
    <2>6. HistoryGrows
      BY <2>3, <2>5, CallStep DEF HistoryGrows, Acted
    <2>7. ASSUME NEW q \in Routes PROVE QueueStep(q)
      <3>1. \/ pos'[q] = pos[q] /\ work'[q] = work[q]
            \/ /\ pos[q] < Len(queue[q]) /\ pos'[q] = pos[q] + 1
               /\ work'[q] = queue[q][pos[q] + 1]
        BY <2>1 DEF Deliver, TypeOK
      <3>2. QED  BY <2>3, <3>1, CallStep DEF QueueStep
    <2>8. QED  BY <2>6, <2>7
  <1>5. ASSUME NEW r \in Routes, VerifyReturned(r) PROVE Goal
    BY <1>1, <1>5 DEF VerifyReturned, tokens
  <1>6. ASSUME NEW r \in Routes, Refuse(r) PROVE Goal
    BY <1>6 DEF Refuse, HistoryGrows, QueueStep, Acted, Idle, TypeOK, tokens
  <1>7. ASSUME NEW r \in Routes, RunMethod(r) PROVE Goal
    BY <1>7 DEF RunMethod, Execute, HistoryGrows, QueueStep, Acted, TypeOK, broker, tokens
  <1>8. ASSUME NEW r \in Routes, CallCallee(r) PROVE Goal
    <2>1. PICK m : NewCall(m)
      BY <1>8, CalleeCalls
    <2>3. UNCHANGED <<pos, work, created, valid, executed, refused>>
      BY <1>8 DEF CallCallee, tokens
    <2>4. QED  BY <2>1, <2>3, CallStep DEF HistoryGrows, QueueStep, Acted
  <1>9. ASSUME NEW r \in Routes, CalleeReturned(r) PROVE Goal
    BY <1>1, <1>9 DEF CalleeReturned, tokens
  <1>10. ASSUME NEW r \in Routes, Finish(r) PROVE Goal
    BY <1>2, <1>10 DEF Finish, tokens, history
  <1>11. ASSUME CreateToken PROVE Goal
    BY <1>2, <1>11, Deployment DEF CreateToken, tokens, history
  <1>12. ASSUME NEW r \in Routes, Throw(r) PROVE Goal
    BY <1>2, <1>12 DEF Throw, tokens, history
  <1>13. ASSUME NEW c \in Clients, ClientCall(c) PROVE Goal
    <2>1. PICK m : NewCall(m)
      BY <1>13, ClientCalls
    <2>4. UNCHANGED <<pos, work, created, valid, executed, refused>>
      BY <1>13 DEF ClientCall, tokens, worker
    <2>5. QED  BY <2>1, <2>4, CallStep DEF HistoryGrows, QueueStep, Acted
  <1>14. ASSUME NEW s \in Services, Crash(s) PROVE Goal
    BY <1>14 DEF Crash, QueuesLost, HistoryGrows, QueueStep, Acted, tokens, history
  <1>15. ASSUME NEW s \in Services, ConnectionLoss(s) PROVE Goal
    BY <1>15 DEF ConnectionLoss, QueuesLost, HistoryGrows, QueueStep, Acted,
                 worker, tokens, history
  <1>16. QED
    BY <1>1, <1>3, <1>4, <1>5, <1>6, <1>7, <1>8, <1>9, <1>10, <1>11, <1>12,
       <1>13, <1>14, <1>15
    DEF Next, Step, Faults, Start, DeclareQueue, ClientReturn, ResponseCallback,
        ClientConnectionLoss, ClientRestart, RedisLoss, vars, broker, worker,
        tokens, history

\* A request that was handled stays handled.
LEMMA HandledInv ==
    ASSUME TypeOK, QueueOK, HistoryGrows, \A r \in Routes : QueueStep(r)
    PROVE  HandledStays
  <1> SUFFICES ASSUME NEW m \in Message, m \in Acted, work[m.to] # m
               PROVE  Handled(m)'
    BY DEF HandledStays, Handled
  <1>1. m \in Acted' /\ m.to \in Routes /\ m # None
    BY MessageFields DEF HistoryGrows, Acted
  <1>2. work'[m.to] # m
    <2>1. CASE work'[m.to] \in {work[m.to], None}
      BY <1>1, <2>1
    <2>2. CASE /\ pos[m.to] < Len(queue[m.to])
               /\ work'[m.to] = queue[m.to][pos[m.to] + 1]
      <3> DEFINE r == m.to
                 i == pos[r] + 1
      <3>1. i \in 1..Len(queue[r]) /\ i > pos[r]
        BY <1>1, <2>2 DEF TypeOK
      <3>2. queue[r][i] \notin Acted
        BY <1>1, <3>1 DEF QueueOK
      <3>3. QED  BY <2>2, <3>2
    <2>3. QED  BY <1>1, <2>1, <2>2 DEF QueueStep
  <1>3. QED  BY <1>1, <1>2 DEF Handled

\* A route that waits is given no other request.
LEMMA WorkStaysInv ==
    ASSUME TypeOK, CallOK, [Next]_vars
    PROVE  WorkStays
  <1> SUFFICES ASSUME NEW q \in Routes, call[q] # None, call'[q] = call[q]
               PROVE  work'[q] = work[q]
    BY DEF WorkStays
  <1>1. stage[q] \in {"verify", "wait"}
    BY DEF CallOK, RouteCallAt
  <1>2. ASSUME NEW r \in Routes, stage[r] \in {"idle", "denied", "body"},
               \A u \in Routes \ {r} : work'[u] = work[u]
        PROVE  work'[q] = work[q]
    BY <1>1, <1>2
  <1>3. ASSUME NEW r \in Routes, Deliver(r) PROVE work'[q] = work[q]
    BY <1>2, <1>3 DEF Deliver, TypeOK
  <1>4. ASSUME NEW r \in Routes, stage[r] \in {"denied", "body"}, Idle(r)
        PROVE  work'[q] = work[q]
    BY <1>2, <1>4 DEF Idle, TypeOK
  <1>5. ASSUME NEW r \in Routes, Step(r) \/ Throw(r) PROVE work'[q] = work[q]
    BY <1>3, <1>4, <1>5
    DEF Step, TakeRequest, TakeProtectedRequest, VerifyReturned, Refuse, RunMethod,
        CallCallee, CalleeReturned, Finish, CreateToken, Throw
  <1>6. ASSUME NEW s \in Services, Crash(s) PROVE work'[q] = work[q]
    BY <1>6 DEF Crash, Threads
  <1>7. QED
    BY <1>5, <1>6
    DEF Next, Faults, Start, DeclareQueue, ClientCall, ClientReturn, ResponseCallback,
        ConnectionLoss, ClientConnectionLoss, ClientRestart, RedisLoss, vars, worker

\* Only authorization.create adds to Redis.
LEMMA RedisInv ==
    ASSUME [Next]_vars
    PROVE  RedisStep
  <1>1. ASSUME redis' \subseteq redis PROVE RedisStep
    BY <1>1 DEF RedisStep
  <1>2. ASSUME NEW t, redis' = redis \cup {t},
               valid' = valid \cup {work[r] : r \in BeingVerified(t)}
        PROVE  RedisStep
    BY <1>2 DEF RedisStep, BeingVerified
  <1>3. QED
    BY <1>1, <1>2
    DEF Next, Step, Faults, Start, DeclareQueue, TakeRequest, TakeProtectedRequest,
        VerifyReturned, Refuse, RunMethod, CallCallee, CalleeReturned, Finish,
        CreateToken, Throw, ClientCall, ClientReturn, ResponseCallback, Crash,
        ConnectionLoss, ClientConnectionLoss, ClientRestart, RedisLoss, vars, tokens

-----------------------------------------------------------------------------
(* The replies a step takes. *)

\* An AmqpService object serves one outstanding call at a time.
LEMMA OneCall ==
    ASSUME TypeOK, WorkOK, CallOK, NEW t \in Threads, NEW u \in Threads,
           call[t] # None, call[u] # None,
           ObjectOf(call[t]) = ObjectOf(call[u])
    PROVE  t = u
  <1>1. call[t].from = t /\ call[u].from = u
    BY DEF CallOK, CallAt
  <1>2. CASE t \in Clients
    BY <1>1, <1>2 DEF ObjectOf
  <1>3. CASE u \in Clients
    BY <1>1, <1>3 DEF ObjectOf
  <1>4. CASE t \in Routes \ Clients /\ u \in Routes \ Clients
    <2>1. /\ ServiceOf[t] = ServiceOf[u]
          /\ (call[t].to = Verify) <=> (call[u].to = Verify)
      BY <1>1, <1>4 DEF ObjectOf
    <2>2. \A r \in {t, u} : \/ r \in AuthRoutes /\ call[r].to = Verify
                            \/ MakesTwoWayCall(r) /\ call[r].to # Verify
      BY <1>4 DEF CallOK, RouteCallAt, WorkOK, WorkAt
    <2>3. QED  BY <1>4, <2>1, <2>2, OneCallerPerService
  <1>5. QED  BY <1>2, <1>3, <1>4 DEF Threads

\* What Take() returns is the one reply to the call, and it says the truth.
LEMMA TakeOwn ==
    ASSUME TypeOK, WorkOK, CallOK, ResponseOK, NEW t \in Threads, Take(t)
    PROVE  /\ Received(t).call = call[t]
           /\ Handled(call[t]) /\ Truthful(Received(t))
           /\ response'[ObjectOf(call[t])] = <<>>
           /\ \A y \in replies : y.call # call[t]
  <1> DEFINE o == ObjectOf(call[t])
             s == response[o]
  <1>1. call[t] # None /\ s # <<>> /\ o \in Objects
    BY MessageFields DEF Take, TypeOK
  <1>2. s \in Seq(Reply) /\ response'[o] = Tail(s)
    BY <1>1 DEF TypeOK, Take
  <1>3. Len(s) <= 1
    BY <1>1 DEF ResponseOK
  <1> PICK x : x = s[1]
    OBVIOUS
  <1>4. x \in Reply /\ Received(t) = x /\ x \in Responses(o) /\ response'[o] = <<>>
    <2>1. Head(s) = Received(t)
      BY DEF Received
    <2>2. Responses(o) = {s[i] : i \in 1..Len(s)}
      BY DEF Responses
    <2> HIDE DEF s
    <2>3. s[1] \in Reply /\ Head(s) = s[1] /\ Tail(s) = <<>> /\ 1 \in 1..Len(s)
      BY <1>1, <1>2, <1>3
    <2>4. QED  BY <1>2, <2>1, <2>2, <2>3
  <1>5. /\ call[x.call.from] = x.call /\ Handled(x.call) /\ Truthful(x)
        /\ ObjectOf(x.call) = o /\ \A y \in replies : y.call # x.call
    BY <1>1, <1>4 DEF ResponseOK, ReplyOK
  <1>6. x.call \in Message /\ x.call.from \in Threads /\ x.call # None
    BY <1>4, MessageFields DEF Reply
  <1>7. x.call.from = t
    BY <1>1, <1>5, <1>6, OneCall
  <1>8. QED  BY <1>4, <1>5, <1>7

-----------------------------------------------------------------------------
(* Every part of the invariant is preserved. *)

\* A queue holds issued requests for its route, each once, and those not yet
\* delivered have not been acted upon.
LEMMA QueueInv ==
    ASSUME TypeOK, WorkOK, QueueOK, TypeOK', HistoryGrows,
           \A r \in Routes : QueueStep(r)
    PROVE  QueueOK'
  <1> SUFFICES ASSUME NEW r \in Routes
      PROVE  /\ pos'[r] <= Len(queue'[r])
             /\ \A i \in 1..Len(queue'[r]) :
                  /\ queue'[r][i] \in issued' /\ queue'[r][i].to = r
                  /\ i > pos'[r] => queue'[r][i] \notin Acted' /\ queue'[r][i] # work'[r]
                  /\ \A j \in 1..Len(queue'[r]) : i # j => queue'[r][i] # queue'[r][j]
    BY DEF QueueOK
  <1> DEFINE q == queue[r]
             p == queue'[r]
             n == Len(q)
  <1>1. q \in Seq(Message) /\ p \in Seq(Message) /\ pos[r] \in Nat /\ pos'[r] \in Nat
    BY DEF TypeOK
  <1>2. /\ pos[r] <= n
        /\ \A i \in 1..n : /\ q[i] \in issued /\ q[i].to = r
                           /\ i > pos[r] => q[i] \notin Acted /\ q[i] # work[r]
                           /\ \A j \in 1..n : i # j => q[i] # q[j]
    BY DEF QueueOK
  <1>3. \A i \in 1..n : i > pos[r] => q[i] \notin Acted'
    <2> SUFFICES ASSUME NEW i \in 1..n, i > pos[r], NEW t \in Routes, q[i] = work[t]
                 PROVE  FALSE
      BY <1>2 DEF HistoryGrows
    <2>1. q[i] # None /\ q[i].to = r
      BY <1>1, <1>2, MessageFields
    <2>2. t = r
      BY <2>1 DEF WorkOK, WorkAt
    <2>3. QED  BY <1>2, <2>2
  <1>4. \A m \in issued' \ issued : m \notin Acted' /\ m # work[r]
    <2> SUFFICES ASSUME NEW m \in issued' \ issued, m \in Acted' \/ m = work[r]
                 PROVE  FALSE
      OBVIOUS
    <2>1. m \notin Acted /\ m # None
      BY MessageFields DEF TypeOK, Acted
    <2>2. \A t \in Routes : m # work[t]
      BY <2>1 DEF WorkOK, WorkAt
    <2>3. QED  BY <2>1, <2>2 DEF HistoryGrows
  <1>5. CASE p = <<>> /\ pos'[r] = 0
    BY <1>5
  <1>6. CASE \/ p = q
             \/ \E m \in issued' \ issued : m.to = r /\ p = Append(q, m)
    <2> DEFINE Extended ==
                 /\ n <= Len(p)
                 /\ \A i \in 1..Len(p) :
                      /\ p[i] \in issued' /\ p[i].to = r
                      /\ \A j \in 1..Len(p) : i # j => p[i] # p[j]
                      /\ \/ i \in 1..n /\ p[i] = q[i]
                         \/ i = n + 1 /\ p[i] \notin issued
    <2>1. Extended
      <3>1. CASE p = q
        BY <1>1, <1>2, <3>1 DEF HistoryGrows
      <3>2. ASSUME NEW m \in issued' \ issued, m.to = r, p = Append(q, m)
            PROVE  Extended
        <4>1. Len(p) = n + 1 /\ p[n + 1] = m /\ \A i \in 1..n : p[i] = q[i]
          BY <1>1, <3>2 DEF TypeOK
        <4>2. \A i \in 1..n : q[i] # m
          BY <1>2, <3>2
        <4>3. n \in Nat
          BY <1>1
        <4> HIDE DEF q, p, n
        <4>4. QED  BY <1>2, <3>2, <4>1, <4>2, <4>3 DEF HistoryGrows
      <3>3. QED  BY <1>6, <3>1, <3>2
    <2>2. \A i \in 1..Len(p) : i > pos[r] => p[i] \notin Acted' /\ p[i] # work[r]
      BY <1>1, <1>2, <1>3, <1>4, <2>1
    <2>3. CASE pos'[r] = pos[r] /\ (work'[r] = work[r] \/ work'[r] = None)
      BY <1>1, <1>2, <2>1, <2>2, <2>3, MessageFields
    <2>4. CASE pos[r] < n /\ pos'[r] = pos[r] + 1 /\ work'[r] = q[pos[r] + 1]
      <3>1. \A i \in 1..Len(p) : i > pos'[r] => p[i] # work'[r]
        BY <1>1, <1>2, <2>1, <2>4
      <3>2. QED  BY <1>1, <2>1, <2>2, <2>4, <3>1
    <2>5. QED  BY <2>3, <2>4, <1>5 DEF QueueStep
  <1>7. QED  BY <1>5, <1>6 DEF QueueStep

\* A thread's requests are numbered by its count.
LEMMA IssuedInv ==
    ASSUME TypeOK, WorkOK, IssuedOK, [Next]_vars
    PROVE  IssuedOK'
  <1>1. ASSUME NEW m, NewCall(m) PROVE IssuedOK'
    <2>1. /\ m \in Message /\ m.from \in Threads /\ m.n = count[m.from] + 1
          /\ issued' = issued \cup {m}
          /\ count' = [count EXCEPT ![m.from] = m.n]
      BY <1>1, MessageFields DEF NewCall, Call
    <2>2. \A x \in issued : /\ x.from \in Threads /\ x.n \in Nat
                            /\ x.n <= count[x.from]
      BY MessageFields DEF TypeOK, IssuedOK
    <2>3. count \in [Threads -> Nat]
      BY DEF TypeOK
    <2>4. QED  BY <2>1, <2>2, <2>3 DEF IssuedOK
  <1>2. ASSUME UNCHANGED <<issued, count>> PROVE IssuedOK'
    BY <1>2 DEF IssuedOK
  <1>3. ASSUME NEW r \in Routes, Step(r) \/ Throw(r) PROVE IssuedOK'
    <2>1. CASE TakeProtectedRequest(r)  BY <1>1, <2>1, VerifyCalls
    <2>2. CASE CallCallee(r)            BY <1>1, <2>2, CalleeCalls
    <2>3. CASE VerifyReturned(r)
      BY <1>2, <2>3 DEF VerifyReturned, Take
    <2>4. CASE CalleeReturned(r)
      BY <1>2, <2>4 DEF CalleeReturned, Take
    <2>5. QED
      BY <1>2, <1>3, <2>1, <2>2, <2>3, <2>4
      DEF Step, TakeRequest, Refuse, RunMethod, Finish, CreateToken, Throw,
          caller, history
  <1>4. ASSUME NEW c \in Clients, ClientReturn(c) PROVE IssuedOK'
    BY <1>2, <1>4 DEF ClientReturn, Take
  <1>5. QED
    BY <1>1, <1>2, <1>3, <1>4, ClientCalls
    DEF Next, Faults, Start, DeclareQueue, ResponseCallback, Crash, ConnectionLoss,
        ClientConnectionLoss, ClientRestart, RedisLoss, vars, caller, history

\* The workers of the other routes are undisturbed by what one route does.
LEMMA WorkFrame ==
    ASSUME TypeOK, WorkOK, HistoryGrows, RedisStep, NEW q \in Routes,
           work'[q] = work[q], stage'[q] = stage[q],
           Acted' = Acted \/ \E r \in Routes \ {q} : Acted' = Acted \cup {work[r]}
    PROVE  WorkAt(q)'
  <1>1. WorkAt(q) /\ work'[q] \in Acted' => work[q] \in Acted \/ work[q] = None
    BY DEF WorkOK, WorkAt
  <1>2. QED  BY <1>1 DEF WorkOK, WorkAt, HistoryGrows, RedisStep

\* The request the consumer delivers is one nobody has acted upon.
LEMMA Delivered ==
    ASSUME TypeOK, QueueOK, NEW r \in Routes, Deliver(r)
    PROVE  /\ work'[r] \in Message /\ work'[r] \in issued /\ work'[r].to = r
           /\ work'[r] \notin Acted
  <1>1. pos[r] + 1 \in 1..Len(queue[r]) /\ pos[r] + 1 > pos[r]
    BY DEF TypeOK, Deliver
  <1>2. QED  BY <1>1, DeliverType DEF QueueOK

\* How far a route is with its request agrees with the history.
LEMMA WorkInv ==
    ASSUME TypeOK, WorkOK, CallOK, QueueOK, ResponseOK, HistoryGrows, [Next]_vars
    PROVE  WorkOK'
  <1> SUFFICES ASSUME NEW q \in Routes PROVE WorkAt(q)'
    BY DEF WorkOK
  <1> DEFINE Same == work'[q] = work[q] /\ stage'[q] = stage[q]
  <1>0. RedisStep
    BY RedisInv
  <1>1. ASSUME Same, Acted' = Acted PROVE WorkAt(q)'
    BY <1>0, <1>1, WorkFrame
  <1>2. ASSUME NEW r \in Routes, TakeRequest(r) PROVE WorkAt(q)'
    <2>1. CASE q = r
      <3>1. stage'[r] = "granted" /\ r \notin AuthRoutes /\ Acted' = Acted /\ Deliver(r)
            /\ issued' = issued
        BY <1>2 DEF TakeRequest, TypeOK, Acted, history
      <3>2. QED  BY <2>1, <3>1, Delivered, MessageFields DEF WorkAt
    <2>2. CASE q # r
      BY <1>1, <1>2, <2>2 DEF TakeRequest, Deliver, TypeOK, Acted, history
    <2>3. QED  BY <2>1, <2>2
  <1>3. ASSUME NEW r \in Routes, TakeProtectedRequest(r) PROVE WorkAt(q)'
    <2>1. CASE q = r
      <3>1. /\ stage'[r] = "verify" /\ r \in AuthRoutes /\ Acted' = Acted /\ Deliver(r)
            /\ redis' = redis
            /\ work'[r].token \in redis => work'[r] \in valid'
        BY <1>3 DEF TakeProtectedRequest, TypeOK, Acted
      <3>2. work'[r] # None /\ work'[r].to = r /\ work'[r] \in issued' /\ work'[r] \notin Acted'
        BY <3>1, Delivered, MessageFields DEF HistoryGrows
      <3>3. QED  BY <2>1, <3>1, <3>2 DEF WorkAt
    <2>2. CASE q # r
      BY <1>1, <1>3, <2>2 DEF TakeProtectedRequest, Deliver, TypeOK, Acted
    <2>3. QED  BY <2>1, <2>2
  <1>4. ASSUME NEW r \in Routes, VerifyReturned(r) PROVE WorkAt(q)'
    <2>1. CASE q = r
      <3>1. /\ stage[r] = "verify" /\ Take(r) /\ work' = work /\ Acted' = Acted
            /\ valid' = valid /\ issued' = issued
            /\ stage'[r] = IF Received(r).value = TRUE THEN "granted" ELSE "denied"
        BY <1>4 DEF VerifyReturned, TypeOK, Acted, tokens
      <3>2. WorkAt(r) /\ RouteCallAt(r) /\ CallAt(r)
        BY DEF WorkOK, CallOK, Threads
      <3>3. Received(r).value = TRUE => work[r] \in valid
        BY <3>1, <3>2, TakeOwn DEF Threads, RouteCallAt, CallAt, Truthful
      <3>4. QED  BY <2>1, <3>1, <3>2, <3>3 DEF WorkAt
    <2>2. CASE q # r
      BY <1>1, <1>4, <2>2 DEF VerifyReturned, TypeOK, Acted
    <2>3. QED  BY <2>1, <2>2
  <1>5. ASSUME NEW r \in Routes, Refuse(r) PROVE WorkAt(q)'
    <2>1. Idle(r) /\ Acted' = Acted \cup {work[r]}
      BY <1>5 DEF Refuse, Acted
    <2>2. CASE q = r
      BY <2>1, <2>2 DEF Idle, TypeOK, WorkAt
    <2>3. CASE q # r
      BY <1>0, <2>1, <2>3, WorkFrame DEF Idle, TypeOK
    <2>4. QED  BY <2>2, <2>3
  <1>6. ASSUME NEW r \in Routes, RunMethod(r) PROVE WorkAt(q)'
    <2>1. /\ stage' = [stage EXCEPT ![r] = "body"] /\ stage[r] = "granted"
          /\ work' = work /\ executed' = executed \cup {work[r]}
          /\ valid' = valid /\ issued' = issued
          /\ Acted' = Acted \cup {work[r]}
      BY <1>6 DEF RunMethod, Execute, Acted, tokens
    <2>2. CASE q = r
      BY <2>1, <2>2 DEF TypeOK, WorkOK, WorkAt
    <2>3. CASE q # r
      BY <1>0, <2>1, <2>3, WorkFrame DEF TypeOK
    <2>4. QED  BY <2>2, <2>3
  <1>7. ASSUME NEW r \in Routes, CallCallee(r) PROVE WorkAt(q)'
    <2>1. CASE q = r
      <3>1. /\ stage[r] = "body" /\ stage'[r] \in {"body", "wait"}
            /\ work' = work /\ UNCHANGED <<executed, refused, valid>>
        BY <1>7 DEF CallCallee, TypeOK, tokens
      <3>2. QED  BY <2>1, <3>1 DEF WorkOK, WorkAt, HistoryGrows, Acted
    <2>2. CASE q # r
      BY <1>1, <1>7, <2>2 DEF CallCallee, TypeOK, Acted
    <2>3. QED  BY <2>1, <2>2
  <1>8. ASSUME NEW r \in Routes, CalleeReturned(r) PROVE WorkAt(q)'
    <2>1. CASE q = r
      <3>1. /\ stage[r] = "wait" /\ stage'[r] = "body"
            /\ work' = work /\ UNCHANGED <<executed, refused, valid, issued>>
        BY <1>8 DEF CalleeReturned, TypeOK, tokens
      <3>2. QED  BY <2>1, <3>1 DEF WorkOK, WorkAt, Acted
    <2>2. CASE q # r
      BY <1>1, <1>8, <2>2 DEF CalleeReturned, TypeOK, Acted
    <2>3. QED  BY <2>1, <2>2
  <1>9. ASSUME NEW r \in Routes, Idle(r), Acted' = Acted PROVE WorkAt(q)'
    <2>1. CASE q = r
      BY <1>9, <2>1 DEF Idle, TypeOK, WorkAt
    <2>2. CASE q # r
      BY <1>1, <1>9, <2>2 DEF Idle, TypeOK
    <2>3. QED  BY <2>1, <2>2
  <1>10. ASSUME NEW s \in Services, Crash(s) PROVE WorkAt(q)'
    <2>1. Acted' = Acted
      BY <1>10 DEF Crash, Acted, history
    <2>2. CASE q \in RoutesOf(s)
      BY <1>10, <2>2 DEF Crash, WorkAt
    <2>3. CASE q \notin RoutesOf(s)
      BY <1>1, <1>10, <2>1, <2>3 DEF Crash
    <2>4. QED  BY <2>2, <2>3
  <1>11. QED
    BY <1>1, <1>2, <1>3, <1>4, <1>5, <1>6, <1>7, <1>8, <1>9, <1>10, Deployment
    DEF Next, Step, Faults, Start, DeclareQueue, Finish, CreateToken, Throw,
        ClientCall, ClientReturn, ResponseCallback, ConnectionLoss,
        ClientConnectionLoss, ClientRestart, RedisLoss, vars, worker, history, Acted

\* A thread whose call a step leaves alone.
LEMMA CallFrame ==
    ASSUME CallOK, NEW t \in Threads, call'[t] = call[t] \/ call'[t] = None,
           issued \subseteq issued',
           \A a \in answered' \ answered : a.call # call'[t]
    PROVE  CallAt(t)'
  BY DEF CallOK, CallAt

\* A route a step leaves alone.
LEMMA RouteCallFrame ==
    ASSUME CallOK, NEW q \in Routes,
           work'[q] = work[q], stage'[q] = stage[q], call'[q] = call[q]
    PROVE  RouteCallAt(q)'
  BY DEF CallOK, RouteCallAt

\* A new call is in nobody's history, and changes its own thread's state only.
LEMMA NewCallInv ==
    ASSUME TypeOK, CallOK, IssuedOK, HistoryOK, NEW m, NewCall(m),
           answered' = answered, m.from \notin Routes => m.to # Verify
    PROVE  /\ m.from \in Threads /\ \A t \in Threads : CallAt(t)'
           /\ \A t \in Threads \ {m.from} : call'[t] = call[t]
           /\ call'[m.from] = IF m.twoWay THEN m ELSE call[m.from]
           /\ m # None
  <1>1. m \in Message /\ m.from \in Threads /\ m \notin issued /\ m # None
    BY Fresh, MessageFields DEF NewCall
  <1>2. call' = IF m.twoWay THEN [call EXCEPT ![m.from] = m] ELSE call
    BY DEF NewCall, Call
  <1>3. /\ call'[m.from] = IF m.twoWay THEN m ELSE call[m.from]
        /\ \A t \in Threads \ {m.from} : call'[t] = call[t]
    BY <1>1, <1>2 DEF TypeOK
  <1>4. issued' = issued \cup {m}
    BY DEF NewCall, Call
  <1>5. \A a \in answered : a.call # m
    BY <1>1 DEF HistoryOK, Acted, TypeOK
  <1>6. ASSUME NEW t \in Threads PROVE CallAt(t)'
    <2>1. CASE call'[t] = call[t]
      BY <2>1, <1>4, CallFrame
    <2>2. CASE t = m.from /\ m.twoWay
      BY <1>1, <1>3, <1>4, <1>5, <2>2 DEF CallAt
    <2>3. QED  BY <1>3, <2>1, <2>2
  <1>7. QED  BY <1>1, <1>3, <1>6

\* Take ends the call of its thread, and of no other.
LEMMA TakeInv ==
    ASSUME TypeOK, CallOK, NEW t \in Threads, Take(t), issued' = issued
    PROVE  /\ \A u \in Threads : CallAt(u)'
           /\ call'[t] = None /\ \A u \in Threads \ {t} : call'[u] = call[u]
  <1>1. call'[t] = None /\ \A u \in Threads \ {t} : call'[u] = call[u]
    BY DEF Take, TypeOK
  <1>2. call[t] # None /\ \A a \in answered' \ answered : a.call = call[t]
    BY DEF Take
  <1>3. ASSUME NEW u \in Threads PROVE CallAt(u)'
    <2>1. CASE u = t
      BY <1>1, <2>1 DEF CallAt
    <2>2. CASE u # t
      BY <1>1, <1>2, <2>2, CallFrame DEF CallOK, CallAt
    <2>3. QED  BY <2>1, <2>2
  <1>4. QED  BY <1>1, <1>3

\* Every thread in Take() waits for a call it has issued and not been answered,
\* the one its route's stage tells.
LEMMA CallInv ==
    ASSUME TypeOK, WorkOK, CallOK, IssuedOK, HistoryOK, HistoryGrows, [Next]_vars
    PROVE  CallOK'
  <1>1. ASSUME UNCHANGED <<call, answered>>, NEW r \in Routes,
               stage[r] \notin {"verify", "wait"},
               stage'[r] \notin {"verify", "wait"},
               \A q \in Routes \ {r} : work'[q] = work[q] /\ stage'[q] = stage[q]
        PROVE  CallOK'
    <2>1. \A t \in Threads : CallAt(t)'
      BY <1>1, CallFrame DEF HistoryGrows
    <2>2. \A q \in Routes \ {r} : RouteCallAt(q)'
      BY <1>1, RouteCallFrame DEF Threads
    <2>3. RouteCallAt(r)'
      BY <1>1 DEF CallOK, RouteCallAt
    <2>4. QED  BY <2>1, <2>2, <2>3 DEF CallOK
  <1>2. ASSUME UNCHANGED <<call, answered, work, stage>> PROVE CallOK'
    <2>1. \A t \in Threads : CallAt(t)'
      BY <1>2, CallFrame DEF HistoryGrows
    <2>2. \A q \in Routes : RouteCallAt(q)'
      BY <1>2, RouteCallFrame DEF Threads
    <2>3. QED  BY <2>1, <2>2 DEF CallOK
  <1>3. ASSUME NEW r \in Routes, TakeProtectedRequest(r) PROVE CallOK'
    <2>1. PICK m : /\ NewCall(m) /\ m.from = r /\ m.twoWay /\ m.to = Verify
                   /\ m.body = work'[r].token
      BY <1>3, VerifyCalls
    <2>2. answered' = answered /\ stage'[r] = "verify"
      BY <1>3 DEF TakeProtectedRequest, TypeOK
    <2>3. RouteCallAt(r)'
      BY <2>1, <2>2, NewCallInv DEF RouteCallAt
    <2>4. \A q \in Routes \ {r} :
             work'[q] = work[q] /\ stage'[q] = stage[q] /\ call'[q] = call[q]
      BY <1>3, <2>1, <2>2, NewCallInv DEF TakeProtectedRequest, Deliver, TypeOK, Threads
    <2>5. QED  BY <2>1, <2>2, <2>3, <2>4, NewCallInv, RouteCallFrame DEF CallOK
  <1>4. ASSUME NEW r \in Routes, CallCallee(r) PROVE CallOK'
    <2>1. PICK m : /\ NewCall(m) /\ m.from = r /\ m.to # Verify
                   /\ m.twoWay => stage'[r] = "wait" /\ MakesTwoWayCall(r)
                   /\ ~m.twoWay => stage'[r] = "body"
      BY <1>4, CalleeCalls
    <2>2. answered' = answered /\ stage[r] = "body" /\ work' = work
      BY <1>4 DEF CallCallee
    <2>3. RouteCallAt(r)'
      BY <2>1, <2>2, NewCallInv DEF RouteCallAt, CallOK
    <2>4. \A q \in Routes \ {r} : stage'[q] = stage[q] /\ call'[q] = call[q]
      BY <1>4, <2>1, <2>2, NewCallInv DEF CallCallee, TypeOK, Threads
    <2>5. QED  BY <2>1, <2>2, <2>3, <2>4, NewCallInv, RouteCallFrame DEF CallOK
  <1>5. ASSUME NEW r \in Routes, VerifyReturned(r) \/ CalleeReturned(r) PROVE CallOK'
    <2>1. /\ Take(r) /\ issued' = issued /\ work' = work /\ r \in Threads
          /\ stage'[r] \notin {"verify", "wait"}
          /\ \A q \in Routes \ {r} : stage'[q] = stage[q]
      BY <1>5 DEF VerifyReturned, CalleeReturned, TypeOK, Threads
    <2>2. \A q \in Routes \ {r} : RouteCallAt(q)'
      BY <2>1, TakeInv, RouteCallFrame DEF Threads
    <2>3. RouteCallAt(r)'
      BY <2>1, TakeInv DEF RouteCallAt
    <2>4. QED  BY <2>1, <2>2, <2>3, TakeInv DEF CallOK
  <1>6. ASSUME NEW r \in Routes, TakeRequest(r) PROVE CallOK'
    BY <1>1, <1>6 DEF TakeRequest, Deliver, TypeOK, caller, history
  <1>7. ASSUME NEW r \in Routes, Idle(r), UNCHANGED <<call, answered>>,
               stage[r] \in {"body", "denied"}
        PROVE  CallOK'
    BY <1>1, <1>7 DEF Idle, TypeOK
  <1>8. ASSUME NEW r \in Routes, RunMethod(r) PROVE CallOK'
    BY <1>1, <1>8 DEF RunMethod, TypeOK, caller
  <1>9. ASSUME NEW c \in Clients, ClientCall(c) PROVE CallOK'
    <2>1. PICK m : NewCall(m) /\ m.from = c /\ m.twoWay /\ m.to # Verify
      BY <1>9, ClientCalls
    <2>2. UNCHANGED <<answered, work, stage>>
      BY <1>9 DEF ClientCall, worker
    <2>3. \A q \in Routes : call'[q] = call[q]
      BY <2>1, <2>2, NewCallInv, Deployment DEF Threads
    <2>4. QED  BY <2>1, <2>2, <2>3, NewCallInv, RouteCallFrame DEF CallOK
  <1>10. ASSUME NEW c \in Clients, ClientReturn(c) PROVE CallOK'
    <2>1. Take(c) /\ c \in Threads /\ UNCHANGED <<issued, work, stage>>
      BY <1>10 DEF ClientReturn, Threads, worker
    <2>2. \A q \in Routes : call'[q] = call[q]
      BY <2>1, TakeInv, Deployment DEF Threads
    <2>3. QED  BY <2>1, <2>2, TakeInv, RouteCallFrame DEF CallOK
  <1>11. ASSUME NEW s \in Services, Crash(s) PROVE CallOK'
    <2>1. \A t \in Threads : CallAt(t)'
      BY <1>11, CallFrame DEF Crash, history
    <2>2. ASSUME NEW q \in Routes PROVE RouteCallAt(q)'
      <3>1. CASE q \in RoutesOf(s)
        BY <1>11, <3>1 DEF Crash, RouteCallAt, Threads
      <3>2. CASE q \notin RoutesOf(s)
        BY <1>11, <3>2, RouteCallFrame DEF Crash, Threads
      <3>3. QED  BY <3>1, <3>2
    <2>3. QED  BY <2>1, <2>2 DEF CallOK
  <1>12. ASSUME NEW c \in Clients, ClientRestart(c) PROVE CallOK'
    <2>1. /\ UNCHANGED <<answered, issued, work, stage>>
          /\ call' = [call EXCEPT ![c] = None]
      BY <1>12 DEF ClientRestart, worker, history
    <2>2. \A t \in Threads : CallAt(t)'
      BY <2>1, CallFrame DEF TypeOK
    <2>3. \A q \in Routes : RouteCallAt(q)'
      BY <2>1, RouteCallFrame, Deployment DEF TypeOK, Threads
    <2>4. QED  BY <2>2, <2>3 DEF CallOK
  <1>13. QED
    BY <1>2, <1>3, <1>4, <1>5, <1>6, <1>7, <1>8, <1>9, <1>10, <1>11, <1>12,
       Deployment
    DEF Next, Step, Faults, Start, DeclareQueue, Refuse, Finish, CreateToken,
        Throw, ResponseCallback, ConnectionLoss, ClientConnectionLoss, RedisLoss,
        vars, worker, caller, history

\* The three properties of the history are kept: at most one invocation, the
\* right reply, and no protected method without a valid token.
LEMMA HistoryInv ==
    ASSUME TypeOK, WorkOK, CallOK, ResponseOK, HistoryOK, AtMostOnce, Correlated,
           AuthorizedOnly, HistoryGrows, [Next]_vars
    PROVE  HistoryOK' /\ AtMostOnce' /\ Correlated' /\ AuthorizedOnly'
  <1> DEFINE Goal == HistoryOK' /\ AtMostOnce' /\ Correlated' /\ AuthorizedOnly'
  <1> USE DEF HistoryOK, AtMostOnce, Correlated, AuthorizedOnly, HistoryGrows, Acted
  <1>1. ASSUME UNCHANGED <<executed, repeated, refused, answered>> PROVE Goal
    BY <1>1
  <1>2. ASSUME NEW t \in Threads, Take(t), UNCHANGED <<executed, repeated, refused>>
        PROVE  Goal
    <2>1. call[t].twoWay
      BY <1>2 DEF Take, CallOK, CallAt
    <2>2. answered' = answered \cup {[call |-> call[t], got |-> Received(t)]}
      BY <1>2 DEF Take
    <2>3. Received(t).call = call[t] /\ call[t] \in Acted
      BY <1>2, TakeOwn DEF Handled
    <2>4. QED  BY <1>2, <2>1, <2>2, <2>3
  <1>3. ASSUME NEW r \in Routes, Refuse(r) PROVE Goal
    BY <1>3 DEF Refuse, WorkOK, WorkAt
  <1>4. ASSUME NEW r \in Routes, RunMethod(r) PROVE Goal
    BY <1>4 DEF RunMethod, Execute, WorkOK, WorkAt
  <1>5. QED
    BY <1>1, <1>2, <1>3, <1>4
    DEF Next, Step, Faults, Start, DeclareQueue, TakeRequest, TakeProtectedRequest,
        VerifyReturned, CallCallee, CalleeReturned, Finish, CreateToken, Throw,
        ClientCall, ClientReturn, ResponseCallback, Crash, ConnectionLoss,
        ClientConnectionLoss, ClientRestart, RedisLoss, vars, history, Threads

\* A valid request carries a token that was created.
LEMMA ValidInv ==
    ASSUME TypeOK, ValidOK, HistoryGrows, [Next]_vars
    PROVE  ValidOK'
  <1>1. ASSUME valid' = valid PROVE ValidOK'
    BY <1>1 DEF ValidOK, HistoryGrows
  <1>2. ASSUME NEW r \in Routes, TakeProtectedRequest(r) PROVE ValidOK'
    BY <1>2 DEF TakeProtectedRequest, ValidOK, TypeOK
  <1>3. ASSUME NEW t, created' = created \cup {t},
               valid' = valid \cup {work[r] : r \in BeingVerified(t)}
        PROVE  ValidOK'
    BY <1>3 DEF ValidOK, BeingVerified
  <1>4. QED
    BY <1>1, <1>2, <1>3
    DEF Next, Step, Faults, Start, DeclareQueue, TakeRequest, VerifyReturned,
        Refuse, RunMethod, CallCallee, CalleeReturned, Finish, CreateToken, Throw,
        ClientCall, ClientReturn, ResponseCallback, Crash, ConnectionLoss,
        ClientConnectionLoss, ClientRestart, RedisLoss, vars, tokens

-----------------------------------------------------------------------------
(* The replies: every reply is for the outstanding call of its thread. *)

\* The parts of a reply have their types.
LEMMA ReplyFields ==
    ASSUME NEW x \in Reply
    PROVE  /\ x.call \in Message /\ x.call.from \in Threads /\ x.call # None
           /\ x.call.to \in Routes /\ ObjectOf(x.call) \in Objects
  BY MessageFields DEF Reply

\* What an AmqpService object holds are replies.
LEMMA ResponsesType ==
    ASSUME TypeOK, NEW o \in Objects
    PROVE  Responses(o) \subseteq Reply
  BY DEF TypeOK, Responses

\* A reply stays in order while its thread's call does not change.
LEMMA ReplyStays ==
    ASSUME HistoryGrows, RequestsStay, NEW x \in Reply, ReplyOK(x),
           call'[x.call.from] = call[x.call.from]
    PROVE  ReplyOK(x)'
  BY ReplyFields DEF HistoryGrows, RequestsStay, HandledStays, WorkStays, ReplyOK, Truthful

\* Steps that add no reply to the broker.
LEMMA RepliesFrame ==
    ASSUME TypeOK, RepliesOK, HistoryGrows, RequestsStay, replies' \subseteq replies,
           \A x \in replies' : call'[x.call.from] = call[x.call.from]
    PROVE  RepliesOK'
  <1>1. \A x \in replies' : x \in Reply /\ ReplyOK(x)
    BY DEF RepliesOK, TypeOK
  <1>2. \A x \in replies' : ReplyOK(x)'
    BY <1>1, ReplyStays
  <1>3. QED  BY <1>2 DEF RepliesOK

\* Steps that put no reply into an object.
LEMMA ResponseFrame ==
    ASSUME TypeOK, ResponseOK, HistoryGrows, RequestsStay, replies' \subseteq replies,
           \A o \in Objects : response'[o] = response[o] \/ response'[o] = <<>>,
           \A o \in Objects : \A x \in Responses(o)' :
              call'[x.call.from] = call[x.call.from]
    PROVE  ResponseOK'
  <1> SUFFICES ASSUME NEW o \in Objects
               PROVE  /\ Len(response'[o]) <= 1
                      /\ \A x \in Responses(o)' :
                            /\ ReplyOK(x)' /\ ObjectOf(x.call) = o
                            /\ \A y \in replies' : y.call # x.call
    BY DEF ResponseOK
  <1>1. CASE response'[o] = <<>>
    BY <1>1 DEF Responses
  <1>2. CASE response'[o] = response[o]
    <2>1. Responses(o)' = Responses(o)
      BY <1>2 DEF Responses
    <2>2. \A x \in Responses(o) :
             /\ x \in Reply /\ ReplyOK(x) /\ ObjectOf(x.call) = o
             /\ \A y \in replies : y.call # x.call
      BY ResponsesType DEF ResponseOK
    <2>3. \A x \in Responses(o) : ReplyOK(x)'
      BY <2>1, <2>2, ReplyStays
    <2>4. Len(response'[o]) <= 1
      BY <1>2 DEF ResponseOK
    <2>5. QED  BY <2>1, <2>2, <2>3, <2>4
  <1>3. QED  BY <1>1, <1>2

RepliesFine == RepliesOK' /\ ResponseOK'

\* Steps that neither reply, nor take a reply, nor make a two-way call.
LEMMA NoReply ==
    ASSUME TypeOK, RepliesOK, ResponseOK, HistoryGrows, RequestsStay,
           UNCHANGED <<call, response>>, replies' \subseteq replies
    PROVE  RepliesFine
  BY RepliesFrame, ResponseFrame DEF RepliesFine

\* A thread that calls has no outstanding call, hence no reply to an old one.
LEMMA NewCallReplies ==
    ASSUME TypeOK, RepliesOK, ResponseOK, HistoryGrows, RequestsStay,
           NEW m, NewCall(m), call[m.from] = None, replies' = replies
    PROVE  RepliesFine
  <1>1. /\ m.from \in Threads /\ response' = response
        /\ call' = IF m.twoWay THEN [call EXCEPT ![m.from] = m] ELSE call
    BY MessageFields DEF NewCall, Call
  <1>2. \A t \in Threads : call[t] # None => call'[t] = call[t]
    BY <1>1 DEF TypeOK
  <1>3. ASSUME NEW x \in Reply, ReplyOK(x)
        PROVE  call'[x.call.from] = call[x.call.from]
    BY <1>2, <1>3, ReplyFields DEF ReplyOK
  <1>4. \A x \in replies' : call'[x.call.from] = call[x.call.from]
    BY <1>3 DEF RepliesOK, TypeOK
  <1>5. ASSUME NEW o \in Objects, NEW x \in Responses(o)'
        PROVE  call'[x.call.from] = call[x.call.from]
    <2>1. x \in Responses(o)
      BY <1>1 DEF Responses
    <2>2. QED  BY <1>3, <2>1, ResponsesType DEF ResponseOK
  <1>6. QED  BY <1>1, <1>4, <1>5, RepliesFrame, ResponseFrame DEF RepliesFine

\* The calls of some threads end, together with their replies.
LEMMA CallsEnd ==
    ASSUME TypeOK, RepliesOK, ResponseOK, HistoryGrows, RequestsStay,
           NEW T, replies' = RepliesWithout(T),
           \A t \in Threads \ T : call'[t] = call[t],
           \A o \in Objects :
              \/ response'[o] = <<>>
              \/ /\ response'[o] = response[o]
                 /\ \A x \in Responses(o) : x.call.from \notin T
    PROVE  RepliesFine
  <1>1. /\ replies' \subseteq replies
        /\ \A x \in replies' : call'[x.call.from] = call[x.call.from]
    BY ReplyFields DEF RepliesWithout, TypeOK
  <1>2. ASSUME NEW o \in Objects, NEW x \in Responses(o)'
        PROVE  call'[x.call.from] = call[x.call.from]
    <2>1. response'[o] # <<>>
      BY DEF Responses
    <2>2. x \in Responses(o) /\ x.call.from \notin T
      BY <2>1 DEF Responses
    <2>3. QED  BY <2>2, ResponsesType, ReplyFields
  <1>3. QED  BY <1>1, <1>2, RepliesFrame, ResponseFrame DEF RepliesFine

\* Taking a reply leaves none for the call that ends.
LEMMA TakeReplies ==
    ASSUME TypeOK, WorkOK, CallOK, RepliesOK, ResponseOK, HistoryGrows,
           RequestsStay, NEW t \in Threads, Take(t)
    PROVE  RepliesFine
  <1> DEFINE o == ObjectOf(call[t])
  <1>1. /\ call[t] # None /\ call[t].from = t /\ o \in Objects
    BY MessageFields DEF Take, CallOK, CallAt, TypeOK
  <1>2. response'[o] = <<>>
    BY TakeOwn
  <1>3. /\ replies' = RepliesWithout({t})
        /\ \A u \in Threads \ {t} : call'[u] = call[u]
        /\ \A q \in Objects \ {o} : response'[q] = response[q]
    BY DEF Take, TypeOK
  <1>4. ASSUME NEW q \in Objects \ {o}, NEW x \in Responses(q)
        PROVE  x.call.from \notin {t}
    BY <1>1 DEF ResponseOK, ReplyOK
  <1>5. QED  BY <1>2, <1>3, <1>4, CallsEnd

\* A route replies to the request it has handled, and forgets it.
LEMMA PublishReplies ==
    ASSUME TypeOK, RepliesOK, ResponseOK, HistoryGrows, RequestsStay,
           NEW r \in Routes, NEW m \in Message, m = work[r], m.to = r,
           m \in Acted', Idle(r), UNCHANGED <<call, response>>,
           NEW res, NEW v, PublishReply(m, res, v),
           r = Verify /\ v = TRUE /\ call[m.from] = m =>
              m.from \in Routes /\ work'[m.from] \in valid'
    PROVE  RepliesFine
  <1> PICK x : x = [call |-> m, result |-> res, value |-> v]
    OBVIOUS
  <1>1. CASE replies' = replies
    BY <1>1, NoReply
  <1>2. CASE replies' = replies \cup {x} /\ call[m.from] = m
    <2>1. work'[r] # m
      BY MessageFields DEF Idle, TypeOK
    <2>2. ReplyOK(x)'
      BY <1>2, <2>1 DEF ReplyOK, Handled, Truthful
    <2>3. ASSUME NEW y \in Reply, ReplyOK(y)
          PROVE  y.call # m /\ ReplyOK(y)'
      BY <2>3, ReplyStays DEF ReplyOK, Handled
    <2>4. \A y \in replies : y.call # m /\ ReplyOK(y)'
      BY <2>3 DEF RepliesOK, TypeOK
    <2>5. RepliesOK'
      BY <1>2, <2>2, <2>4 DEF RepliesOK
    <2>6. ASSUME NEW o \in Objects, NEW z \in Responses(o)'
          PROVE  /\ ReplyOK(z)' /\ ObjectOf(z.call) = o
                 /\ \A y \in replies' : y.call # z.call
      <3>1. z \in Responses(o)
        BY DEF Responses
      <3>2. /\ z \in Reply /\ ReplyOK(z) /\ ObjectOf(z.call) = o
            /\ \A y \in replies : y.call # z.call
        BY <3>1, ResponsesType DEF ResponseOK
      <3>3. QED  BY <1>2, <2>3, <3>2
    <2>7. ResponseOK'
      BY <2>6 DEF ResponseOK
    <2>8. QED  BY <2>5, <2>7 DEF RepliesFine
  <1>3. QED  BY <1>1, <1>2 DEF PublishReply

\* A reply that is put into an object finds it empty.
LEMMA CallbackReplies ==
    ASSUME TypeOK, WorkOK, CallOK, RepliesOK, ResponseOK, HistoryGrows,
           RequestsStay, NEW x \in replies, ResponseCallback(x)
    PROVE  RepliesFine
  <1> DEFINE o == ObjectOf(x.call)
  <1>1. /\ replies' = replies \ {x} /\ call' = call
        /\ response' = [response EXCEPT ![o] = Append(@, x)]
    BY DEF ResponseCallback
  <1>2. /\ x \in Reply /\ o \in Objects /\ x.call.from \in Threads
        /\ x.call # None /\ ReplyOK(x)
    BY ReplyFields DEF TypeOK, RepliesOK
  <1>3. \A y \in replies' : y.call # x.call
    BY <1>1 DEF RepliesOK
  <1>4. Responses(o) = {}
    <2> SUFFICES ASSUME NEW z \in Responses(o) PROVE FALSE
      OBVIOUS
    <2>1. z.call.from \in Threads /\ z.call # None
      BY <1>2, ResponsesType, ReplyFields
    <2>2. call[z.call.from] = z.call /\ ObjectOf(z.call) = o /\ z.call # x.call
      BY <1>2 DEF ResponseOK, ReplyOK
    <2>3. z.call.from = x.call.from
      BY <1>2, <2>1, <2>2, OneCall DEF ReplyOK
    <2>4. QED  BY <1>2, <2>2, <2>3 DEF ReplyOK
  <1>5. /\ Len(response'[o]) <= 1 /\ Responses(o)' = {x}
        /\ \A q \in Objects \ {o} : response'[q] = response[q]
    <2> DEFINE s == response[o]
    <2>1. s \in Seq(Reply) /\ response'[o] = Append(s, x)
      BY <1>1, <1>2 DEF TypeOK
    <2>2. {s[i] : i \in 1..Len(s)} = {}
      BY <1>4 DEF Responses
    <2> HIDE DEF s
    <2>3. Len(s) = 0
      <3>1. 1 \notin 1..Len(s)
        BY <2>2
      <3>2. QED  BY <2>1, <3>1
    <2>4. Len(Append(s, x)) = 1 /\ Append(s, x)[1] = x
      BY <1>2, <2>1, <2>3
    <2>5. response'[o] = Append(s, x)
      BY <2>1
    <2>6. Responses(o)' = {response'[o][i] : i \in 1..Len(response'[o])}
      BY DEF Responses
    <2>7. Len(response'[o]) = 1 /\ Responses(o)' = {x}
      BY <2>4, <2>5, <2>6
    <2>8. Len(response'[o]) <= 1
      BY <2>7
    <2>9. QED  BY <1>1, <2>7, <2>8 DEF TypeOK
  <1>6. RepliesOK'
    BY <1>1, RepliesFrame
  <1>7. ReplyOK(x)'
    BY <1>1, <1>2, ReplyStays
  <1>8. ASSUME NEW q \in Objects \ {o}
        PROVE  /\ Len(response'[q]) <= 1
               /\ \A z \in Responses(q)' :
                     /\ ReplyOK(z)' /\ ObjectOf(z.call) = q
                     /\ \A y \in replies' : y.call # z.call
    <2>1. Responses(q)' = Responses(q) /\ Len(response'[q]) <= 1
      BY <1>5 DEF Responses, ResponseOK
    <2>2. ASSUME NEW z \in Responses(q)
          PROVE  /\ ReplyOK(z)' /\ ObjectOf(z.call) = q
                 /\ \A y \in replies' : y.call # z.call
      BY <1>1, ResponsesType, ReplyStays DEF ResponseOK
    <2>3. QED  BY <2>1, <2>2
  <1>9. ResponseOK'
    <2> SUFFICES ASSUME NEW q \in Objects
                 PROVE  /\ Len(response'[q]) <= 1
                        /\ \A z \in Responses(q)' :
                              /\ ReplyOK(z)' /\ ObjectOf(z.call) = q
                              /\ \A y \in replies' : y.call # z.call
      BY DEF ResponseOK
    <2>1. CASE q = o
      <3>1. Len(response'[q]) <= 1 /\ Responses(q)' = {x}
        BY <1>5, <2>1
      <3>2. ObjectOf(x.call) = q /\ \A y \in replies' : y.call # x.call
        BY <1>3, <2>1
      <3>3. ASSUME NEW z \in {x} PROVE ReplyOK(z)'
        BY <1>7 DEF ReplyOK, Handled, Truthful
      <3>4. QED  BY <3>1, <3>2, <3>3
    <2>2. CASE q # o
      BY <1>8, <2>2
    <2>3. QED  BY <2>1, <2>2
  <1>10. QED  BY <1>6, <1>9 DEF RepliesFine

\* Every step keeps at most one reply for each outstanding call, and none for
\* another.
LEMMA RepliesInv ==
    ASSUME TypeOK, WorkOK, CallOK, RepliesOK, ResponseOK, HistoryGrows,
           RequestsStay, [Next]_vars
    PROVE  RepliesFine
  <1>1. ASSUME NEW r \in Routes, TakeProtectedRequest(r) PROVE RepliesFine
    <2>1. PICK m : NewCall(m) /\ m.from = r
      BY <1>1, VerifyCalls
    <2>2. call[r] = None /\ replies' = replies
      BY <1>1 DEF TakeProtectedRequest, Deliver, CallOK, RouteCallAt
    <2>3. QED  BY <2>1, <2>2, NewCallReplies
  <1>2. ASSUME NEW r \in Routes, CallCallee(r) PROVE RepliesFine
    <2>1. PICK m : NewCall(m) /\ m.from = r
      BY <1>2, CalleeCalls
    <2>2. call[r] = None /\ replies' = replies
      BY <1>2 DEF CallCallee, CallOK, RouteCallAt
    <2>3. QED  BY <2>1, <2>2, NewCallReplies
  <1>3. ASSUME NEW c \in Clients, ClientCall(c) PROVE RepliesFine
    <2>1. PICK m : NewCall(m) /\ m.from = c
      BY <1>3, ClientCalls
    <2>2. call[c] = None /\ replies' = replies
      BY <1>3 DEF ClientCall
    <2>3. QED  BY <2>1, <2>2, NewCallReplies
  <1>4. ASSUME NEW r \in Routes, VerifyReturned(r) \/ CalleeReturned(r)
        PROVE  RepliesFine
    BY <1>4, TakeReplies DEF VerifyReturned, CalleeReturned, Threads
  <1>5. ASSUME NEW c \in Clients, ClientReturn(c) PROVE RepliesFine
    BY <1>5, TakeReplies DEF ClientReturn, Threads
  <1>6. ASSUME NEW r \in Routes, stage[r] \in {"body", "denied"}
        PROVE  work[r] \in Message /\ work[r].to = r
               /\ (stage[r] = "body" => work[r] \in Acted)
    BY <1>6, MessageFields DEF TypeOK, WorkOK, WorkAt, Acted
  <1>7. ASSUME NEW r \in Routes, Refuse(r) PROVE RepliesFine
    <2>1. PICK m \in Message : m = work[r]
      BY <1>6, <1>7 DEF Refuse
    <2>2. /\ m.to = r /\ m \in Acted' /\ Idle(r) /\ UNCHANGED <<call, response>>
          /\ PublishReply(m, "Failed", None) /\ r # Verify
      BY <1>6, <1>7, <2>1, Deployment DEF Refuse, Acted, caller, WorkOK, WorkAt
    <2>3. QED  BY <2>1, <2>2, PublishReplies
  <1>8. ASSUME NEW r \in Routes, Finish(r) PROVE RepliesFine
    <2>1. PICK m \in Message : m = work[r]
      BY <1>6, <1>8 DEF Finish
    <2> DEFINE v == IF r = Verify THEN m.body \in redis ELSE None
    <2>2. /\ m.to = r /\ m \in Acted' /\ Idle(r) /\ UNCHANGED <<call, response>>
          /\ PublishReply(m, "Success", v) /\ created' = created
      BY <1>6, <1>8, <2>1 DEF Finish, Acted, caller, history, tokens
    <2>3. ASSUME r = Verify, v = TRUE, call[m.from] = m
          PROVE  m.from \in Routes /\ work'[m.from] \in valid'
      <3> DEFINE q == m.from
      <3>1. q \in Threads /\ m # None /\ m.to = Verify /\ m.body \in redis
        BY <2>2, <2>3, MessageFields
      <3>2. q \in Routes
        BY <2>3, <3>1 DEF CallOK, CallAt
      <3>3. stage[q] = "verify" /\ m.body = work[q].token
        BY <2>3, <3>1, <3>2 DEF CallOK, RouteCallAt
      <3>4. work[q] \in valid
        BY <3>1, <3>2, <3>3 DEF WorkOK, WorkAt
      <3>5. stage[r] = "body" /\ valid' = valid
        BY <1>8 DEF Finish, tokens
      <3>6. work'[q] = work[q]
        BY <2>2, <3>2, <3>3, <3>5 DEF Idle, TypeOK
      <3>7. QED  BY <3>2, <3>4, <3>5, <3>6
    <2> HIDE DEF v
    <2>4. QED  BY <2>1, <2>2, <2>3, PublishReplies
  <1>9. ASSUME CreateToken PROVE RepliesFine
    <2>1. Create \in Routes /\ Create # Verify
      BY Deployment
    <2>2. PICK m \in Message : m = work[Create]
      BY <1>6, <1>9, <2>1 DEF CreateToken
    <2>3. PICK v : PublishReply(m, "Success", v)
      BY <1>9, <2>2 DEF CreateToken
    <2>4. /\ m.to = Create /\ m \in Acted' /\ Idle(Create)
          /\ UNCHANGED <<call, response>>
      BY <1>6, <1>9, <2>1, <2>2 DEF CreateToken, Acted, caller, history
    <2>5. QED  BY <2>1, <2>2, <2>3, <2>4, PublishReplies
  <1>10. ASSUME NEW r \in Routes, Throw(r) PROVE RepliesFine
    <2>1. PICK m \in Message : m = work[r]
      BY <1>6, <1>10 DEF Throw
    <2>2. /\ m.to = r /\ m \in Acted' /\ Idle(r) /\ UNCHANGED <<call, response>>
          /\ PublishReply(m, "Failed", None) /\ None # TRUE
      BY <1>6, <1>10, <2>1, Deployment DEF Throw, Acted, caller, history
    <2>3. QED  BY <2>1, <2>2, PublishReplies
  <1>11. ASSUME NEW x \in replies, ResponseCallback(x) PROVE RepliesFine
    BY <1>11, CallbackReplies
  <1>12. ASSUME NEW s \in Services, Crash(s) PROVE RepliesFine
    <2> DEFINE T == RoutesOf(s)
    <2>1. replies' = RepliesWithout(T) /\ \A t \in Threads \ T : call'[t] = call[t]
      BY <1>12 DEF Crash
    <2>2. ASSUME NEW o \in Objects, o \notin ObjectsOf(s), NEW x \in Responses(o)
          PROVE  x.call.from \notin T
      <3>1. ObjectOf(x.call) = o
        BY DEF ResponseOK
      <3>2. QED  BY <2>2, <3>1, Deployment DEF ObjectOf, ObjectsOf, RoutesOf
    <2>3. \A o \in Objects : \/ response'[o] = <<>>
                             \/ /\ response'[o] = response[o]
                                /\ \A x \in Responses(o) : x.call.from \notin T
      BY <1>12, <2>2 DEF Crash
    <2>4. QED  BY <2>1, <2>3, CallsEnd
  <1>13. ASSUME NEW c \in Clients, ClientRestart(c) PROVE RepliesFine
    <2>1. /\ replies' = RepliesWithout({c})
          /\ \A t \in Threads \ {c} : call'[t] = call[t]
          /\ response' = [response EXCEPT ![<<"transient", c>>] = <<>>]
      BY <1>13 DEF ClientRestart, TypeOK
    <2>2. ASSUME NEW o \in Objects, o # <<"transient", c>>, NEW x \in Responses(o)
          PROVE  x.call.from \notin {c}
      <3>1. ObjectOf(x.call) = o
        BY DEF ResponseOK
      <3>2. QED  BY <2>2, <3>1 DEF ObjectOf
    <2>3. QED  BY <2>1, <2>2, CallsEnd DEF TypeOK
  <1>14. ASSUME UNCHANGED <<call, response>>, replies' \subseteq replies
         PROVE  RepliesFine
    BY <1>14, NoReply
  <1>15. QED
    BY <1>1, <1>2, <1>3, <1>4, <1>5, <1>7, <1>8, <1>9, <1>10, <1>11, <1>12,
       <1>13, <1>14
    DEF Next, Step, Faults, Start, DeclareQueue, TakeRequest, RunMethod,
        ConnectionLoss, ClientConnectionLoss, RedisLoss, RepliesWithout,
        vars, broker, worker, caller

\* Every step keeps replies out of reply queues that are gone.
LEMMA ListenInv ==
    ASSUME ListenOK, [Next]_vars
    PROVE  ListenOK'
  <1> USE DEF ListenOK
  <1>1. ASSUME replies' \subseteq replies, listening \subseteq listening' PROVE ListenOK'
    BY <1>1
  <1>2. ASSUME NEW T, replies' = RepliesWithout(T), listening' = listening \ T
        PROVE  ListenOK'
    BY <1>2 DEF RepliesWithout
  <1>3. ASSUME NEW m, NEW res, NEW v, PublishReply(m, res, v), listening' = listening
        PROVE  ListenOK'
    BY <1>3 DEF PublishReply
  <1>4. ASSUME NEW t, Take(t) PROVE ListenOK'
    BY <1>2, <1>4 DEF Take
  <1>5. ASSUME NEW m, Call(m), replies' = replies PROVE ListenOK'
    BY <1>1, <1>5 DEF Call
  <1>6. ASSUME NEW r \in Routes, Step(r) \/ Throw(r) PROVE ListenOK'
    <2>1. CASE TakeRequest(r) \/ RunMethod(r)
      BY <1>1, <2>1 DEF TakeRequest, RunMethod, caller, broker
    <2>2. CASE TakeProtectedRequest(r)
      BY <1>5, <2>2 DEF TakeProtectedRequest
    <2>3. CASE CallCallee(r)
      BY <1>5, <2>3 DEF CallCallee
    <2>4. CASE VerifyReturned(r) \/ CalleeReturned(r)
      BY <1>4, <2>4 DEF VerifyReturned, CalleeReturned
    <2>5. CASE Refuse(r) \/ Finish(r) \/ Throw(r) \/ CreateToken
      BY <1>3, <2>5 DEF Refuse, Finish, Throw, CreateToken, caller
    <2>6. QED  BY <1>6, <2>1, <2>2, <2>3, <2>4, <2>5 DEF Step
  <1>7. ASSUME NEW c \in Clients, ClientCall(c) \/ ClientReturn(c) PROVE ListenOK'
    BY <1>4, <1>5, <1>7 DEF ClientCall, ClientReturn
  <1>8. ASSUME NEW s \in Services, Start(s) \/ Crash(s) \/ ConnectionLoss(s)
        PROVE  ListenOK'
    BY <1>1, <1>2, <1>8 DEF Start, Crash, ConnectionLoss, broker, caller
  <1>9. ASSUME NEW c \in Clients, ClientConnectionLoss(c) \/ ClientRestart(c)
        PROVE  ListenOK'
    BY <1>2, <1>9 DEF ClientConnectionLoss, ClientRestart
  <1>10. QED
    BY <1>1, <1>6, <1>7, <1>8, <1>9
    DEF Next, Faults, DeclareQueue, ResponseCallback, RedisLoss, vars, broker, caller
-----------------------------------------------------------------------------
(* The theorems. *)

\* The inductive invariant holds initially.
LEMMA InitInv == Init => IInv
  <1> SUFFICES ASSUME Init PROVE IInv
    OBVIOUS
  <1>1. TypeOK
    BY InitType
  <1>2. WorkOK /\ CallOK /\ QueueOK /\ IssuedOK /\ HistoryOK
    BY DEF Init, WorkOK, WorkAt, CallOK, CallAt, RouteCallAt, QueueOK, IssuedOK,
           HistoryOK, Threads
  <1>3. RepliesOK /\ ResponseOK /\ ValidOK /\ ListenOK
    BY DEF Init, RepliesOK, ResponseOK, Responses, ValidOK, ListenOK
  <1>4. AtMostOnce /\ Correlated /\ AuthorizedOnly
    BY DEF Init, AtMostOnce, Correlated, AuthorizedOnly
  <1>5. QED  BY <1>1, <1>2, <1>3, <1>4 DEF IInv

\* The inductive invariant is kept by every step.
LEMMA NextInv == IInv /\ [Next]_vars => IInv'
  <1> SUFFICES ASSUME IInv, [Next]_vars PROVE IInv'
    OBVIOUS
  <1> USE DEF IInv
  <1>1. TypeOK'
    BY NextType
  <1>2. HistoryGrows /\ \A r \in Routes : QueueStep(r)
    BY Shape
  <1>3. QueueOK' /\ IssuedOK' /\ ValidOK' /\ RequestsStay
    BY <1>1, <1>2, QueueInv, IssuedInv, ValidInv, HandledInv, WorkStaysInv
    DEF RequestsStay
  <1>4. WorkOK' /\ CallOK'
    BY <1>2, WorkInv, CallInv
  <1>5. HistoryOK' /\ AtMostOnce' /\ Correlated' /\ AuthorizedOnly'
    BY <1>2, HistoryInv
  <1>6. RepliesOK' /\ ResponseOK' /\ ListenOK'
    BY <1>2, <1>3, RepliesInv, ListenInv DEF RepliesFine
  <1>7. QED  BY <1>1, <1>3, <1>4, <1>5, <1>6

\* The inductive invariant holds: in every deployment a request and its reply
\* are in at most one place, and every reply is for the call that waits for it.
THEOREM Invariance == Spec => []IInv
  BY InitInv, NextInv, PTL DEF Spec

\* Type correctness of the state of callers, services, broker and Redis.
THEOREM AmqpTypeOK == Spec => []TypeOK
  <1>1. IInv => TypeOK  BY DEF IInv
  <1>2. QED  BY <1>1, Invariance, PTL

\* No request's method is invoked twice, whatever crashes and reconnects.
THEOREM AmqpAtMostOnce == Spec => []AtMostOnce
  <1>1. IInv => AtMostOnce  BY DEF IInv
  <1>2. QED  BY <1>1, Invariance, PTL

\* Every Call returns the reply to its own request, although a service's
\* routes put the replies of all their calls into shared `response` objects.
THEOREM AmqpCorrelated == Spec => []Correlated
  <1>1. IInv => Correlated  BY DEF IInv
  <1>2. QED  BY <1>1, Invariance, PTL

\* A method with [Authorize] runs only for a token that was in Redis at some
\* moment of the request's verification.
THEOREM AmqpAuthorizedOnly == Spec => []AuthorizedOnly
  <1>1. IInv => AuthorizedOnly  BY DEF IInv
  <1>2. QED  BY <1>1, Invariance, PTL
-----------------------------------------------------------------------------
(* A thread whose reply cannot come any more never gets an answer. *)

\* A request that is lost does not come back.
LEMMA PendingStep ==
    ASSUME IInv, [Next]_vars, NEW m \in Message, m \in issued, ~Pending(m)
    PROVE  ~Pending(m)'
  <1> DEFINE r == m.to
  <1>1. r \in Routes /\ m # None
    BY MessageFields
  <1>2. QueueStep(r)
    BY <1>1, Shape DEF IInv
  <1>3. /\ work[r] # m /\ queue[r] \in Seq(Message) /\ pos[r] \in Nat
        /\ \A i \in 1..Len(queue[r]) : i > pos[r] => queue[r][i] # m
    BY <1>1 DEF Pending, IInv, TypeOK
  <1>4. work'[r] # m
    <2>1. CASE /\ pos[r] < Len(queue[r]) /\ work'[r] = queue[r][pos[r] + 1]
      BY <1>3, <2>1
    <2>2. QED  BY <1>1, <1>2, <1>3, <2>1 DEF QueueStep
  <1>5. pos'[r] >= pos[r] \/ queue'[r] = <<>>
    BY <1>2, <1>3 DEF QueueStep
  <1>6. \A i \in DOMAIN queue'[r] : i > pos'[r] => queue'[r][i] # m
    <2>1. CASE queue'[r] = <<>>
      BY <2>1
    <2>2. CASE queue'[r] = queue[r] /\ pos'[r] >= pos[r]
      BY <1>2, <1>3, <2>2 DEF QueueStep
    <2>3. CASE \E x \in issued' \ issued : queue'[r] = Append(queue[r], x)
      <3>1. PICK x \in issued' \ issued : queue'[r] = Append(queue[r], x)
        BY <2>3
      <3>2. x # m
        OBVIOUS
      <3> PICK q : q = queue[r]
        OBVIOUS
      <3>3. q \in Seq(Message) /\ queue'[r] = Append(q, x) /\ queue'[r] # <<>>
        BY <1>3, <3>1
      <3>4. pos'[r] >= pos[r] /\ \A i \in 1..Len(q) : i > pos[r] => q[i] # m
        BY <1>3, <1>5, <3>3
      <3>5. pos'[r] \in Nat
        BY <1>2, <1>3 DEF QueueStep
      <3>6. ASSUME NEW i \in DOMAIN Append(q, x), i > pos'[r] PROVE Append(q, x)[i] # m
        BY <1>3, <3>2, <3>3, <3>4, <3>5, <3>6
      <3>7. QED  BY <3>3, <3>6
    <2>4. QED  BY <1>2, <1>5, <2>1, <2>2, <2>3 DEF QueueStep
  <1>7. QED  BY <1>4, <1>6 DEF Pending

\* No step but a fault helps such a thread.
LEMMA HopelessStep ==
    ASSUME IInv, Next, NEW t \in Threads, Hopeless(t), faults' = faults
    PROVE  Hopeless(t)'
  <1> PICK m : m = call[t]
    OBVIOUS
  <1> DEFINE o == ObjectOf(m)
  <1> USE DEF IInv
  <1>1. /\ m # None /\ response[o] = <<>> /\ o \in Objects /\ m \in Message
        /\ m.from = t /\ m \in issued /\ \A x \in replies : x.call # m
        /\ t \notin listening \/ ~Pending(m)
    BY MessageFields DEF Hopeless, TypeOK, CallOK, CallAt
  <1>2. ASSUME call'[t] = m, listening' \subseteq listening \cup (Threads \ {t}),
               response'[o] = response[o], \A x \in replies' \ replies : x.call # m
        PROVE  Hopeless(t)'
    <2>1. t \notin listening' \/ ~Pending(m)'
      BY <1>1, <1>2, PendingStep
    <2>2. QED  BY <1>1, <1>2, <2>1 DEF Hopeless
  <1>3. ASSUME NEW n, NewCall(n), call[n.from] = None, replies' = replies
        PROVE  Hopeless(t)'
    <2>1. /\ n.from # t /\ n.from \in Threads /\ response' = response
          /\ call' = IF n.twoWay THEN [call EXCEPT ![n.from] = n] ELSE call
          /\ listening' \subseteq listening \cup {n.from}
      BY <1>1, <1>3, MessageFields DEF NewCall, Call
    <2>2. call'[t] = call[t]
      BY <2>1 DEF TypeOK
    <2>3. QED  BY <1>2, <1>3, <2>1, <2>2
  <1>4. ASSUME NEW u \in Threads, Take(u) PROVE Hopeless(t)'
    <2>1. u # t /\ ObjectOf(call[u]) # o
      BY <1>1, <1>4 DEF Take
    <2>2. /\ call'[t] = call[t] /\ response'[o] = response[o]
          /\ listening' \subseteq listening /\ replies' \subseteq replies
      BY <1>1, <1>4, <2>1 DEF Take, RepliesWithout, TypeOK
    <2>3. QED  BY <1>2, <2>2
  <1>5. ASSUME NEW x \in replies, ResponseCallback(x) PROVE Hopeless(t)'
    <2>1. /\ x \in Reply /\ call[x.call.from] = x.call /\ x.call # None
          /\ x.call.from \in Threads
      BY ReplyFields DEF TypeOK, RepliesOK, ReplyOK
    <2>2. ObjectOf(x.call) # o
      BY <1>1, <2>1, OneCall
    <2>3. /\ call' = call /\ listening' = listening /\ replies' \subseteq replies
          /\ response'[o] = response[o]
      BY <1>1, <1>5, <2>2 DEF ResponseCallback, TypeOK
    <2>4. QED  BY <1>2, <2>3
  <1>6. ASSUME NEW r \in Routes, stage[r] # "idle", NEW res, NEW v,
               PublishReply(work[r], res, v), UNCHANGED caller
        PROVE  Hopeless(t)'
    <2>1. work[r].to = r
      BY <1>6 DEF WorkOK, WorkAt
    <2>2. work[r] = m => Pending(m)
      BY <2>1 DEF Pending
    <2>3. work[r] = m => replies' = replies
      BY <1>1, <1>6, <2>2 DEF PublishReply
    <2>4. \A x \in replies' \ replies : x.call = work[r]
      BY <1>6 DEF PublishReply
    <2>5. QED  BY <1>2, <1>6, <2>3, <2>4 DEF caller
  <1>7. ASSUME UNCHANGED <<caller, replies>> PROVE Hopeless(t)'
    BY <1>2, <1>7 DEF caller
  <1>8. ASSUME NEW r \in Routes, Step(r) \/ Throw(r) PROVE Hopeless(t)'
    <2>1. CASE TakeProtectedRequest(r)
      <3>1. PICK n : NewCall(n) /\ n.from = r
        BY <2>1, VerifyCalls
      <3>2. call[r] = None /\ replies' = replies
        BY <2>1 DEF TakeProtectedRequest, Deliver, CallOK, RouteCallAt
      <3>3. QED  BY <1>3, <3>1, <3>2
    <2>2. CASE CallCallee(r)
      <3>1. PICK n : NewCall(n) /\ n.from = r
        BY <2>2, CalleeCalls
      <3>2. call[r] = None /\ replies' = replies
        BY <2>2 DEF CallCallee, CallOK, RouteCallAt
      <3>3. QED  BY <1>3, <3>1, <3>2
    <2>3. CASE VerifyReturned(r) \/ CalleeReturned(r)
      BY <1>4, <2>3 DEF VerifyReturned, CalleeReturned, Threads
    <2>4. CASE Refuse(r) \/ Finish(r) \/ Throw(r)
      BY <1>6, <2>4 DEF Refuse, Finish, Throw, caller
    <2>5. CASE CreateToken
      BY <1>6, <2>5, Deployment DEF CreateToken
    <2>6. CASE TakeRequest(r) \/ RunMethod(r)
      BY <1>7, <2>6 DEF TakeRequest, RunMethod, broker
    <2>7. QED  BY <1>8, <2>1, <2>2, <2>3, <2>4, <2>5, <2>6 DEF Step
  <1>9. ASSUME NEW c \in Clients, ClientCall(c) PROVE Hopeless(t)'
    <2>1. PICK n : NewCall(n) /\ n.from = c
      BY <1>9, ClientCalls
    <2>2. QED  BY <1>3, <1>9, <2>1 DEF ClientCall
  <1>10. ASSUME NEW c \in Clients, ClientReturn(c) PROVE Hopeless(t)'
    BY <1>4, <1>10 DEF ClientReturn, Threads
  <1>11. ~Faults
    <2>1. Fault => faults' # faults
      BY DEF Fault, TypeOK
    <2>2. QED
      BY <2>1 DEF Faults, Crash, ConnectionLoss, ClientConnectionLoss,
                  ClientRestart, RedisLoss
  <1>12. QED
    BY <1>5, <1>7, <1>8, <1>9, <1>10, <1>11
    DEF Next, Start, DeclareQueue, broker

\* A thread in Take() whose reply queue, whose request or whose reply is gone
\* stays there until a fault (its process ending) frees it: Call has no timeout.
THEOREM AmqpHopelessStays == Spec => HopelessStays
  <1>1. IInv /\ [Next]_vars =>
          [\A t \in Threads : Hopeless(t) => Hopeless(t)' \/ faults' # faults]_vars
    BY HopelessStep
  <1>2. QED  BY <1>1, Invariance, PTL DEF Spec, HopelessStays
-----------------------------------------------------------------------------
(* Amqp implements the at-most-once call of Rpc. *)

\* The initial states are initial states of Rpc.
LEMMA InitRefines == Init => R!RpcInit
  BY DEF Init, R!RpcInit

\* A new call is Rpc's Issue.
LEMMA IssueRefines ==
    ASSUME TypeOK, IssuedOK, NEW m, NewCall(m),
           UNCHANGED <<executed, refused, answered, created>>
    PROVE  R!Issue
  BY CallStep DEF R!Issue

\* Take is Rpc's Return.
LEMMA ReturnRefines ==
    ASSUME IInv, NEW t \in Threads, Take(t),
           UNCHANGED <<issued, executed, refused, created>>
    PROVE  R!Return
  <1> DEFINE A == {a.call : a \in answered}
  <1> PICK m : m = call[t]
    OBVIOUS
  <1>1. m \in Acted /\ m.twoWay /\ m \notin A
    BY TakeOwn DEF IInv, Handled, CallOK, CallAt, Take
  <1>2. A' = A \cup {m}
    <2>1. answered' = answered \cup {[call |-> m, got |-> Received(t)]}
      BY DEF Take
    <2>2. [call |-> m, got |-> Received(t)].call = m
      OBVIOUS
    <2>3. QED  BY <2>1, <2>2
  <1>3. QED  BY <1>1, <1>2 DEF R!Return, R!Acted, Acted

\* Every step is a step of Rpc or leaves its variables alone.
LEMMA StepRefines == IInv /\ [Next]_vars => [R!RpcNext]_(R!rpcVars)
  <1> SUFFICES ASSUME IInv, [Next]_vars PROVE R!RpcNext \/ UNCHANGED R!rpcVars
    OBVIOUS
  <1> USE DEF IInv
  <1>1. ASSUME UNCHANGED <<issued, executed, refused, answered, created>>
        PROVE  UNCHANGED R!rpcVars
    BY <1>1 DEF R!rpcVars
  <1>2. ASSUME NEW r \in Routes, Step(r) \/ Throw(r)
        PROVE  R!RpcNext \/ UNCHANGED R!rpcVars
    <2>1. CASE TakeProtectedRequest(r)
      <3>1. PICK m : NewCall(m)
        BY <2>1, VerifyCalls
      <3>2. QED
        BY <2>1, <3>1, IssueRefines DEF TakeProtectedRequest, tokens, R!RpcNext
    <2>2. CASE CallCallee(r)
      <3>1. PICK m : NewCall(m)
        BY <2>2, CalleeCalls
      <3>2. QED  BY <2>2, <3>1, IssueRefines DEF CallCallee, tokens, R!RpcNext
    <2>3. CASE VerifyReturned(r) \/ CalleeReturned(r)
      BY <2>3, ReturnRefines
      DEF VerifyReturned, CalleeReturned, Threads, tokens, R!RpcNext
    <2>4. CASE Refuse(r)
      <3>1. /\ work[r] \in issued \ Acted /\ work[r].to \in AuthRoutes
            /\ refused' = refused \cup {work[r]}
            /\ UNCHANGED <<issued, executed, answered, created>>
        BY <2>4 DEF Refuse, tokens, WorkOK, WorkAt
      <3>2. R!Refuse
        BY <3>1 DEF R!Refuse, R!Acted, Acted
      <3>3. QED  BY <3>2 DEF R!RpcNext
    <2>5. CASE RunMethod(r)
      <3>1. /\ work[r] \in issued \ Acted
            /\ work[r].to \in AuthRoutes => work[r].token \in created
            /\ executed' = executed \cup {work[r]}
            /\ UNCHANGED <<issued, refused, answered, created>>
        BY <2>5 DEF RunMethod, Execute, tokens, WorkOK, WorkAt, ValidOK
      <3>2. R!Execute
        BY <3>1 DEF R!Execute, R!Acted, Acted
      <3>3. QED  BY <3>2 DEF R!RpcNext
    <2>6. CASE CreateToken
      <3>1. UNCHANGED <<issued, executed, refused, answered>>
        BY <2>6 DEF CreateToken, history
      <3>2. CASE UNCHANGED created
        BY <1>1, <3>1, <3>2
      <3>3. CASE \E t \in Tokens \ created : created' = created \cup {t}
        <4>1. R!Mint
          BY <3>1, <3>3 DEF R!Mint
        <4>2. QED  BY <4>1 DEF R!RpcNext
      <3>4. QED  BY <2>6, <3>2, <3>3 DEF CreateToken, tokens
    <2>7. QED
      BY <1>1, <1>2, <2>1, <2>2, <2>3, <2>4, <2>5, <2>6
      DEF Step, TakeRequest, Finish, Throw, tokens, history
  <1>3. ASSUME NEW c \in Clients, ClientCall(c) PROVE R!RpcNext
    <2>1. PICK m : NewCall(m)
      BY <1>3, ClientCalls
    <2>2. QED  BY <1>3, <2>1, IssueRefines DEF ClientCall, tokens, R!RpcNext
  <1>4. ASSUME NEW c \in Clients, ClientReturn(c) PROVE R!RpcNext
    BY <1>4, ReturnRefines DEF ClientReturn, Threads, tokens, R!RpcNext
  <1>5. QED
    BY <1>1, <1>2, <1>3, <1>4
    DEF Next, Faults, Start, DeclareQueue, ResponseCallback, Crash, ConnectionLoss,
        ClientConnectionLoss, ClientRestart, RedisLoss, vars, tokens, history

\* The calls of the services implement the abstract at-most-once, authorized
\* remote call, for every deployment and every sequence of faults.
THEOREM AmqpImplementsRpc == Spec => ImplementsRpc
  BY InitRefines, StepRefines, Invariance, PTL
  DEF Spec, ImplementsRpc, R!Spec
=============================================================================

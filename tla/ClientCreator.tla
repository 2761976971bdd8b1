--------------------------- MODULE ClientCreator ---------------------------
(***************************************************************************)
(* Adding a meerkat.  The gateway (ClientCreatorController) passes the     *)
(* request to clientcreator.create and answers 200 with whatever text the  *)
(* reply carries.  The service has authorization.create make a token, picks*)
(* an admin, and stores a token row and a clientconfig row through the one *)
(* AppDbContext of its process.  Calls are what module Amqp shows them to  *)
(* be.  A row is told by its request: the ids drawn for it are fresh.      *)
(***************************************************************************)
EXTENDS Integers, Sequences, FiniteSets

CONSTANTS
    Requests,   \* the HTTP requests
    Users,
    UserOf,     \* [Requests -> Users \cup {None}], the id claim of the JWT;
                \* None: a JWT that cannot be read or has no id
    Guids,      \* the tokens authorization.create can draw
    Empty,      \* Guid.Empty, returned when Redis did not store the token
    Exception,  \* the text of a failed reply: the type of the exception
    Admins,     \* the admins that register
    Stray,      \* an id no admin has
    MaxFaults,  \* bound on the failed calls, failed saves and crashes
    None

ASSUME ClientCreatorAssumption ==
    /\ UserOf \in [Requests -> Users \cup {None}] /\ None \notin Users
    /\ {Empty, Exception, None} \cap Guids = {}
    /\ Empty # Exception /\ None \notin {Empty, Exception}
    /\ None \notin Requests
    /\ Stray \notin Admins /\ IsFiniteSet(Admins)
    /\ MaxFaults \in Nat

Values == Guids \cup {Empty}
TokenRow == [table : {"token"}, id : Requests, token : Values, user : Users,
             admin : Admins \cup {Stray}]
ConfigRow == [table : {"clientconfig"}, id : Requests]
Row == TokenRow \cup ConfigRow

VARIABLES
    up,       \* the clientcreator process runs and has its queue
    queue,    \* Seq(Requests), the requests its queue holds
    work,     \* the request CreateToken handles, or None
    stage,    \* how far it is
    got,      \* the value in the reply of authorization.create
    index,    \* GetRandomAdmin's random index
    pending,  \* the entities the context holds as Added
    db,       \* the rows of the tables token and clientconfig
    admins,   \* the rows of adminconfig
    stored,   \* the keys of Redis
    debug,    \* the service was compiled with DEBUG
    sent,     \* the requests the gateway has passed on
    answer,   \* [Requests -> text of the 200 response, or None]
    faults    \* faults so far

handler == <<work, stage, got, index>>
tables == <<pending, db>>
environment == <<admins, stored, debug>>
gateway == <<sent, answer>>
vars == <<up, queue, handler, tables, admins, stored, debug, gateway, faults>>

TypeOK ==
    /\ up \in BOOLEAN
    /\ queue \in Seq(Requests)
    /\ ~up => queue = <<>> /\ stage = "idle" /\ pending = {}
    /\ work \in Requests \cup {None}
    /\ stage \in {"idle", "create", "jwt", "count", "list", "save", "saved"}
    /\ stage = "idle" <=> work = None
    /\ got \in Values \cup {Exception, None}
    /\ stage \in {"count", "list", "save", "saved"} => got \in Values
    /\ index \in Nat
    /\ pending \subseteq Row /\ db \subseteq Row
    /\ admins \subseteq Admins
    /\ stored \subseteq Guids /\ debug \in BOOLEAN
    /\ sent \subseteq Requests
    /\ answer \in [Requests -> Values \cup {Exception, None}]
    /\ \A r \in Requests : answer[r] # None => r \in sent
    /\ faults \in 0..MaxFaults

Init ==
    /\ up = FALSE /\ queue = <<>>
    /\ work = None /\ stage = "idle" /\ got = None /\ index = 0
    /\ pending = {} /\ db = {}
    /\ admins \in SUBSET Admins
    /\ stored = {} /\ debug \in BOOLEAN
    /\ sent = {} /\ answer = [r \in Requests |-> None]
    /\ faults = 0

Fault == faults < MaxFaults /\ faults' = faults + 1
-----------------------------------------------------------------------------
\* The gateway calls; without a queue the message is dropped.
Index(r) ==
    /\ r \notin sent
    /\ sent' = sent \cup {r}
    /\ queue' = IF up THEN Append(queue, r) ELSE queue
    /\ UNCHANGED <<up, handler, tables, environment, answer, faults>>

Take ==
    /\ stage = "idle"
    /\ queue # <<>>
    /\ work' = Head(queue) /\ queue' = Tail(queue)
    /\ stage' = "create"
    /\ UNCHANGED <<up, got, index, tables, environment, gateway, faults>>

\* authorization.create answers with a new token, with Guid.Empty, or with a
\* failure, which can come after the token was stored.
TokenCreated ==
    /\ stage = "create"
    /\ \/ \E t \in Guids \ stored :
             stored' = stored \cup {t} /\ got' = t /\ UNCHANGED faults
       \/ got' = Empty /\ UNCHANGED <<stored, faults>>
       \/ /\ Fault
          /\ got' = Exception
          /\ stored' \in {stored} \cup {stored \cup {t} : t \in Guids \ stored}
    /\ stage' = "jwt"
    /\ UNCHANGED <<up, queue, work, index, tables, admins, debug, gateway>>

\* Both the JWT and the value of the reply must parse.
Readable == UserOf[work] # None /\ got # Exception

\* Mutant: the clientconfig is added before anything that can throw.
ReadJwtAddingFirst ==
    /\ stage = "jwt"
    /\ Readable
    /\ pending' = pending \cup {[table |-> "clientconfig", id |-> work]}
    /\ stage' = "count"
    /\ UNCHANGED <<up, queue, work, got, index, db, environment, gateway, faults>>

ReadJwt ==
    /\ stage = "jwt"
    /\ Readable
    /\ stage' = "count"
    /\ UNCHANGED <<up, queue, work, got, index, tables, environment, gateway, faults>>

\* Random.Next(count): 0 when there are no admins.
RandomIndexes == {0} \cup 0..(Cardinality(admins) - 1)

Entities(a) == {[table |-> "clientconfig", id |-> work],
                [table |-> "token", id |-> work, token |-> got,
                 user |-> UserOf[work], admin |-> a]}

\* Mutant: the branch for DEBUG is compiled into the release.
CountAlwaysDebug ==
    /\ stage = "count"
    /\ index' \in RandomIndexes
    /\ IF index' = 0
       THEN stage' = "save" /\ pending' = pending \cup Entities(Stray)
       ELSE stage' = "list" /\ UNCHANGED pending
    /\ UNCHANGED <<up, queue, work, got, db, environment, gateway, faults>>

\* GetRandomAdmin, first query.  A DEBUG build takes index 0 for no admin and
\* draws an id.
Count ==
    /\ stage = "count"
    /\ index' \in RandomIndexes
    /\ IF debug /\ index' = 0
       THEN stage' = "save" /\ pending' = pending \cup Entities(Stray)
       ELSE stage' = "list" /\ UNCHANGED pending
    /\ UNCHANGED <<up, queue, work, got, db, environment, gateway, faults>>

\* Second query: the list is not ordered, so any admin can be at the index.
List ==
    /\ stage = "list"
    /\ index < Cardinality(admins)
    /\ \E a \in admins : pending' = pending \cup Entities(a)
    /\ stage' = "save"
    /\ UNCHANGED <<up, queue, work, got, index, db, environment, gateway, faults>>

Poisoned == pending \cap db # {}

\* Mutant: the clientconfig is added after SaveChangesAsync.
SaveTokenFirst ==
    /\ stage = "save"
    /\ ~Poisoned
    /\ db' = db \cup {e \in pending : e.table = "token"}
    /\ pending' = {e \in pending : e.table = "clientconfig"}
    /\ stage' = "saved"
    /\ UNCHANGED <<up, queue, work, got, index, environment, gateway, faults>>

\* One transaction for all that is pending.
Save ==
    /\ stage = "save"
    /\ ~Poisoned
    /\ db' = db \cup pending /\ pending' = {}
    /\ stage' = "saved"
    /\ UNCHANGED <<up, queue, work, got, index, environment, gateway, faults>>

Reply(value) ==
    /\ answer' = [answer EXCEPT ![work] = value]
    /\ work' = None /\ stage' = "idle"
    /\ UNCHANGED <<up, queue, got, index, environment, sent>>

Return ==
    /\ stage = "saved"
    /\ Reply(got)
    /\ UNCHANGED <<tables, faults>>

\* CreateToken throws: something does not parse, there is no admin, a query
\* fails.  The gateway's answer is 200 and the type of the exception.
Throw ==
    /\ \/ stage = "jwt" /\ ~Readable /\ UNCHANGED faults
       \/ stage = "list" /\ index >= Cardinality(admins) /\ UNCHANGED faults
       \/ stage \in {"count", "list"} /\ Fault
    /\ Reply(Exception)
    /\ UNCHANGED tables

\* Mutant: the result of SaveChangesAsync is not awaited.
SaveUnawaited ==
    /\ stage = "save"
    /\ \/ Poisoned /\ UNCHANGED <<db, faults>>
       \/ ~Poisoned /\ Fault /\ db' \in {db, db \cup pending}
    /\ Reply(got)
    /\ UNCHANGED pending

\* The save throws, before or after the commit; the entities stay Added.
SaveFails ==
    /\ stage = "save"
    /\ \/ Poisoned /\ UNCHANGED <<db, faults>>
       \/ ~Poisoned /\ Fault /\ db' \in {db, db \cup pending}
    /\ Reply(Exception)
    /\ UNCHANGED pending
-----------------------------------------------------------------------------
Start ==
    /\ ~up
    /\ up' = TRUE
    /\ UNCHANGED <<queue, handler, tables, environment, gateway, faults>>

\* Mutant: a context that outlives the process.
CrashKeepingContext ==
    /\ Fault
    /\ up
    /\ up' = FALSE /\ queue' = <<>>
    /\ work' = None /\ stage' = "idle" /\ UNCHANGED pending
    /\ UNCHANGED <<got, index, db, environment, gateway>>

Crash ==
    /\ Fault
    /\ up
    /\ up' = FALSE /\ queue' = <<>>
    /\ work' = None /\ stage' = "idle" /\ pending' = {}
    /\ UNCHANGED <<got, index, db, environment, gateway>>

\* The gateway's Register stores an admin's configuration.
RegisterAdmin(a) ==
    /\ a \notin admins
    /\ admins' = admins \cup {a}
    /\ UNCHANGED <<up, queue, handler, tables, stored, debug, gateway, faults>>

CreateToken ==
    Take \/ TokenCreated \/ ReadJwt \/ Count \/ List \/ Save \/ Return
    \/ Throw \/ SaveFails

Next ==
    \/ \E r \in Requests : Index(r)
    \/ CreateToken
    \/ Start \/ Crash
    \/ \E a \in Admins : RegisterAdmin(a)

Spec == Init /\ [][Next]_vars
-----------------------------------------------------------------------------
TokenRows == {e \in db : e.table = "token"}
Ids(table) == {e.id : e \in {x \in db : x.table = table}}

\* A token row has its clientconfig and the other way round, although saves
\* fail half-way and entities of failed requests are stored by later ones:
\* the notifier's and the presenter's lookups rely on it.
RowsPaired == Ids("token") = Ids("clientconfig")

\* A request answered with a token has the row with that token, for the user
\* of its JWT.
AnsweredIsCreated ==
    \A r \in Requests : answer[r] \in Values =>
        \E e \in TokenRows : e.id = r /\ e.token = answer[r] /\ e.user = UserOf[r]

\* In a release build the admin of every meerkat is one that has registered,
\* although the count and the list are two queries between which admins
\* register.
AdminKnown == ~debug => \A e \in TokenRows : e.admin \in admins

\* A request that failed has no row, unless a fault hit the system: whatever
\* throws by itself throws before the entities are added to the shared
\* context, from where the next request would store them.
FailedLeavesNothing ==
    faults = 0 => \A r \in Requests : answer[r] = Exception =>
                      r \notin Ids("token") \cup Ids("clientconfig")

\* What the front end makes of a response 200: "Dodano poprawnie", added
\* correctly (AddMeerkatModal.tsx).
HttpOkMeansCreated ==
    \A r \in Requests : answer[r] # None => r \in Ids("token")
=============================================================================

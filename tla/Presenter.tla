----------------------------- MODULE Presenter -----------------------------
(***************************************************************************)
(* Listing meerkats and their logs.  The presenter has four routes, each   *)
(* with a consumer thread of its own that handles one request after the    *)
(* other, and all of them query through the one AppDbContext of the        *)
(* process.  A context is not made for that: a query that runs while       *)
(* another one does may throw, in either thread.  The gateway's            *)
(* PresenterController parses the body of the reply as the list it expects *)
(* and answers 200; an Error in a failed reply is no list (ErrorIsNoList   *)
(* of module Wire), so that it answers 500.                                *)
(* Calls are what module Amqp shows them to be.                            *)
(***************************************************************************)
EXTENDS Integers, Sequences

CONSTANTS
    Requests,
    Calls,       \* what they may ask: routes with a user, an admin or a token
    Meerkats,    \* the tokens that the client creator makes
    Unlisted,    \* tokens without a row, which authorization.create gives
                 \* to any caller: central stores their readings too
    Malformed,   \* ids that are no Guid: the gateway passes on the id of a
                 \* page's URL as it is
    OwnerOf,     \* [Meerkats -> users]
    AdminOf,     \* [Meerkats -> Admins or an id no admin has]
    Admins,      \* the rows of adminconfig
    Emails,
    MaxLogs,     \* bound on the readings of a meerkat
    MaxChanges,  \* bound on the changes of an admin's address
    MaxFaults,   \* bound on the crashes and failed queries
    None

Routes == {"logs", "logsformeerkat", "clients", "meerkatsbyuser"}

ASSUME PresenterAssumption ==
    /\ \A c \in Calls : DOMAIN c = {"route", "arg"} /\ c.route \in Routes
    /\ Meerkats \cap Unlisted = {}
    /\ None \notin Emails \cup Requests
    /\ MaxLogs \in Nat /\ MaxChanges \in Nat /\ MaxFaults \in Nat

Log == [meerkat : Meerkats \cup Unlisted, n : 1..MaxLogs]
MeerkatInfo == [meerkat : Meerkats, email : Emails]

\* What a list can hold: LogInfo and MeerkatLog are told by their row,
\* AdminClient by its meerkat.
Item == Log \cup Meerkats \cup MeerkatInfo

\* A request: its call, and what it had to find when it was sent.
Asked == [call : Calls, rows : SUBSET (Log \cup Meerkats), known : BOOLEAN]

ASSUME NoneAssumption == None \notin Asked

VARIABLES
    up,      \* the presenter runs and has its queues
    queue,   \* [Routes -> Seq(Requests)]
    work,    \* [Routes -> Requests \cup {None}]
    pc,      \* [Routes -> ...], the query that is next or running
    todo,    \* [Routes -> SUBSET Meerkats], what `foreach` has left
    found,   \* the meerkat of MeerkatsByUser's loop and its admin's address
    list,    \* [Routes -> SUBSET Item], the response so far
    open,    \* the routes with a query under way
    clash,   \* those whose query has run at the same time as another one
    tokens,  \* the rows of token
    configs, \* the meerkats with a row in clientconfig
    logs,    \* the rows of log
    email,   \* [Admins -> Emails], adminconfig.Email
    cache,   \* [Admins -> Emails \cup {None}], the entities the context tracks
    asked,   \* [Requests -> its call and what it had to find then, or None]
    answer,  \* [Requests -> the gateway's response, or None]
    overlapped, \* history: the requests one of whose queries clashed
    held,    \* history: the addresses since the presenter's start
    changes, \* changes of addresses so far
    faults   \* faults so far

handler == <<work, pc, todo, found, list>>
context == <<open, clash, overlapped, cache>>
database == <<tokens, configs, logs, email, held, changes>>
gateway == <<asked, answer>>
vars == <<up, queue, handler, context, database, gateway, faults>>

TypeOK ==
    /\ up \in BOOLEAN
    /\ queue \in [Routes -> Seq(Requests)]
    /\ work \in [Routes -> Requests \cup {None}]
    /\ pc \in [Routes -> {"idle", "tokens", "logs", "admin", "config"}]
    /\ \A r \in Routes : pc[r] = "idle" <=> work[r] = None
    /\ todo \in [Routes -> SUBSET Meerkats]
    /\ found \in [meerkat : Meerkats, email : Emails \cup {None}] \cup {None}
    /\ list \in [Routes -> SUBSET Item]
    /\ open \subseteq {r \in Routes : pc[r] # "idle"}
    /\ clash \subseteq open
    /\ tokens \subseteq Meerkats /\ configs \subseteq Meerkats /\ logs \subseteq Log
    /\ email \in [Admins -> Emails]
    /\ cache \in [Admins -> Emails \cup {None}]
    /\ asked \in [Requests -> Asked \cup {None}]
    /\ answer \in [Requests -> [status : {200, 500}, list : SUBSET Item] \cup {None}]
    /\ overlapped \subseteq Requests
    /\ held \in [Admins -> SUBSET Emails]
    /\ changes \in 0..MaxChanges /\ faults \in 0..MaxFaults

Init ==
    /\ up = FALSE
    /\ queue = [r \in Routes |-> <<>>]
    /\ work = [r \in Routes |-> None]
    /\ pc = [r \in Routes |-> "idle"]
    /\ todo = [r \in Routes |-> {}] /\ found = None
    /\ list = [r \in Routes |-> {}]
    /\ open = {} /\ clash = {}
    /\ tokens = {} /\ configs = {} /\ logs = {}
    /\ email \in [Admins -> Emails]
    /\ cache = [a \in Admins |-> None]
    /\ asked = [q \in Requests |-> None]
    /\ answer = [q \in Requests |-> None]
    /\ overlapped = {}
    /\ held = [a \in Admins |-> {email[a]}]
    /\ changes = 0 /\ faults = 0

Fault == faults < MaxFaults /\ faults' = faults + 1
-----------------------------------------------------------------------------
(* Requests. *)

Owned(u) == {m \in tokens : OwnerOf[m] = u}
LogsOf(m) == {l \in logs : l.meerkat = m}

\* The items, without addresses, that the tables hold for a call.
Rows(c) ==
    CASE c.route = "logs" -> {l \in logs : l.meerkat \in Owned(c.arg)}
      [] c.route = "logsformeerkat" -> LogsOf(c.arg)
      [] c.route = "clients" -> {m \in tokens : AdminOf[m] = c.arg}
      [] c.route = "meerkatsbyuser" -> Owned(c.arg)

\* The gateway calls; without a queue the message is dropped.
Send(q, c) ==
    /\ asked[q] = None
    /\ asked' = [asked EXCEPT ![q] = [call |-> c, rows |-> Rows(c),
                                     known |-> c.arg \in tokens]]
    /\ queue' = IF up THEN [queue EXCEPT ![c.route] = Append(@, q)] ELSE queue
    /\ UNCHANGED <<up, handler, context, database, answer, faults>>

\* The argument of the request that r works on.
Arg(r) == asked[work[r]].call.arg

Take(r) ==
    /\ pc[r] = "idle"
    /\ queue[r] # <<>>
    /\ work' = [work EXCEPT ![r] = Head(queue[r])]
    /\ queue' = [queue EXCEPT ![r] = Tail(@)]
    /\ pc' = [pc EXCEPT ![r] = "tokens"]
    /\ UNCHANGED <<up, todo, found, list, context, database, gateway, faults>>

Finish(r) ==
    /\ work' = [work EXCEPT ![r] = None]
    /\ pc' = [pc EXCEPT ![r] = "idle"]
    /\ todo' = [todo EXCEPT ![r] = {}]
    /\ list' = [list EXCEPT ![r] = {}]
    /\ found' = IF r = "meerkatsbyuser" THEN None ELSE found

Reply(r, items) ==
    /\ answer' = [answer EXCEPT ![work[r]] = [status |-> 200, list |-> items]]
    /\ Finish(r)

\* Mutant: the failed reply reads as an empty list.
ThrowEmpty(r) ==
    /\ answer' = [answer EXCEPT ![work[r]] = [status |-> 200, list |-> {}]]
    /\ Finish(r)

\* The method throws: a failed reply, which the gateway cannot parse.
Throw(r) ==
    /\ answer' = [answer EXCEPT ![work[r]] = [status |-> 500, list |-> {}]]
    /\ Finish(r)

\* The loop goes on with the tokens ms and the response items, or is done.
Loop(r, next, ms, items) ==
    \/ /\ ms = {}
       /\ Reply(r, items)
    \/ /\ ms # {}
       /\ pc' = [pc EXCEPT ![r] = next]
       /\ todo' = [todo EXCEPT ![r] = ms]
       /\ list' = [list EXCEPT ![r] = items]
       /\ UNCHANGED <<work, answer>>
-----------------------------------------------------------------------------
(* Queries. *)

\* Guid.Parse throws before the first query is started.
ParseFails(r) ==
    /\ pc[r] = "tokens"
    /\ r \notin open
    /\ Arg(r) \in Malformed
    /\ Throw(r)
    /\ UNCHANGED <<up, queue, context, database, asked, faults>>

BeginQuery(r) ==
    /\ pc[r] # "idle"
    /\ pc[r] = "tokens" => Arg(r) \notin Malformed
    /\ r \notin open
    /\ open' = open \cup {r}
    /\ clash' = IF open = {} THEN {} ELSE open'
    /\ overlapped' = overlapped \cup {work[s] : s \in clash'}
    /\ UNCHANGED <<up, queue, handler, cache, database, gateway, faults>>

\* Mutant: the query is left running on the context.
EndQueryLeavingOpen(r) ==
    /\ r \in open
    /\ UNCHANGED <<open, clash, overlapped>>

EndQuery(r) ==
    /\ r \in open
    /\ open' = open \ {r}
    /\ clash' = clash \ {r}
    /\ UNCHANGED overlapped

\* Two queries on the context, or a connection that fails.
QueryFails(r) ==
    /\ EndQuery(r)
    /\ IF r \in clash THEN UNCHANGED faults ELSE Fault
    /\ Throw(r)
    /\ UNCHANGED <<up, queue, cache, database, asked>>

\* GetAdminClients is one query.
FindClients ==
    LET r == "clients"
    IN /\ pc[r] = "tokens"
       /\ EndQuery(r)
       /\ Reply(r, {m \in tokens : AdminOf[m] = Arg(r)})
       /\ UNCHANGED <<up, queue, cache, database, asked, faults>>

\* The first query of GetLogsForUser.
FindTokens ==
    LET r == "logs"
    IN /\ pc[r] = "tokens"
       /\ EndQuery(r)
       /\ Loop(r, "logs", Owned(Arg(r)), {})
       /\ UNCHANGED <<up, queue, found, cache, database, asked, faults>>

\* Of GetLogsForMeerkat, which goes on whether there is a row or not.
FindMeerkat ==
    LET r == "logsformeerkat"
    IN /\ pc[r] = "tokens"
       /\ EndQuery(r)
       /\ todo' = [todo EXCEPT ![r] = {Arg(r)} \cap tokens]
       /\ pc' = [pc EXCEPT ![r] = "logs"]
       /\ UNCHANGED <<up, queue, work, found, list, cache, database, gateway, faults>>

\* Of MeerkatsByUser.
FindMeerkats ==
    LET r == "meerkatsbyuser"
    IN /\ pc[r] = "tokens"
       /\ EndQuery(r)
       /\ Loop(r, "admin", Owned(Arg(r)), {})
       /\ found' = None
       /\ UNCHANGED <<up, queue, cache, database, asked, faults>>

\* GetLogsForUser: a query for each token.
FindLogs ==
    LET r == "logs"
    IN /\ pc[r] = "logs"
       /\ EndQuery(r)
       /\ \E m \in todo[r] : Loop(r, "logs", todo[r] \ {m}, list[r] \cup LogsOf(m))
       /\ UNCHANGED <<up, queue, found, cache, database, asked, faults>>

\* GetLogsForMeerkat: `meerkat` is null without a row, which is noticed at
\* the first log.
FindLogsForMeerkat ==
    LET r == "logsformeerkat"
        rows == LogsOf(Arg(r))
    IN /\ pc[r] = "logs"
       /\ EndQuery(r)
       /\ \/ (rows # {} => todo[r] # {}) /\ Reply(r, rows)
          \/ rows # {} /\ todo[r] = {} /\ Throw(r)
       /\ UNCHANGED <<up, queue, cache, database, asked, faults>>

\* FirstOrDefaultAsync gives the entity that is tracked already, if any.
Seen(a) == IF a \notin Admins THEN None
           ELSE IF cache[a] # None THEN cache[a] ELSE email[a]

FindAdmin ==
    LET r == "meerkatsbyuser"
    IN /\ pc[r] = "admin"
       /\ EndQuery(r)
       /\ \E m \in todo[r] :
             /\ found' = [meerkat |-> m, email |-> Seen(AdminOf[m])]
             /\ cache' = [a \in Admins |-> IF a = AdminOf[m] THEN Seen(a) ELSE cache[a]]
       /\ pc' = [pc EXCEPT ![r] = "config"]
       /\ UNCHANGED <<up, queue, work, todo, list, database, gateway, faults>>

\* `admin` and `cfg` are dereferenced once both are read.
FindConfig ==
    LET r == "meerkatsbyuser"
        complete == found.email # None /\ found.meerkat \in configs
    IN /\ pc[r] = "config"
       /\ EndQuery(r)
       /\ \/ /\ complete
             /\ Loop(r, "admin", todo[r] \ {found.meerkat}, list[r] \cup {found})
             /\ found' = None
          \/ ~complete /\ Throw(r)
       /\ UNCHANGED <<up, queue, cache, database, asked, faults>>
-----------------------------------------------------------------------------
(* What the other services store meanwhile. *)

\* Mutant: the two rows are saved one after the other.
CreateTokenFirst(m) ==
    /\ \/ m \notin tokens /\ tokens' = tokens \cup {m} /\ UNCHANGED configs
       \/ m \in tokens \ configs /\ configs' = configs \cup {m} /\ UNCHANGED tokens
    /\ UNCHANGED <<up, queue, handler, context, logs, email, held, changes, gateway, faults>>

\* The client creator stores both rows in one transaction.
Create(m) ==
    /\ m \notin tokens
    /\ tokens' = tokens \cup {m} /\ configs' = configs \cup {m}
    /\ UNCHANGED <<up, queue, handler, context, logs, email, held, changes, gateway, faults>>

\* Central stores the next reading of m.
Put(m) ==
    /\ \E n \in 1..MaxLogs :
          /\ \A l \in LogsOf(m) : l.n < n
          /\ \A k \in 1..(n - 1) : [meerkat |-> m, n |-> k] \in logs
          /\ logs' = logs \cup {[meerkat |-> m, n |-> n]}
    /\ UNCHANGED <<up, queue, handler, context, tokens, configs, email, held, changes,
                   gateway, faults>>

ChangeAdminConfig(a) ==
    /\ changes < MaxChanges /\ changes' = changes + 1
    /\ \E e \in Emails \ {email[a]} :
          /\ email' = [email EXCEPT ![a] = e]
          /\ held' = [held EXCEPT ![a] = @ \cup {e}]
    /\ UNCHANGED <<up, queue, handler, context, tokens, configs, logs, gateway, faults>>
-----------------------------------------------------------------------------
(* The process. *)

Start ==
    /\ ~up
    /\ up' = TRUE
    /\ held' = [a \in Admins |-> {email[a]}]
    /\ UNCHANGED <<queue, handler, context, tokens, configs, logs, email, changes,
                   gateway, faults>>

\* Mutant: what the presenter has read is kept outside its process.
StopKeepingCache ==
    /\ queue' = [r \in Routes |-> <<>>]
    /\ work' = [r \in Routes |-> None] /\ pc' = [r \in Routes |-> "idle"]
    /\ todo' = [r \in Routes |-> {}] /\ list' = [r \in Routes |-> {}] /\ found' = None
    /\ open' = {} /\ clash' = {}
    /\ UNCHANGED cache

Stop ==
    /\ queue' = [r \in Routes |-> <<>>]
    /\ work' = [r \in Routes |-> None] /\ pc' = [r \in Routes |-> "idle"]
    /\ todo' = [r \in Routes |-> {}] /\ list' = [r \in Routes |-> {}] /\ found' = None
    /\ open' = {} /\ clash' = {}
    /\ cache' = [a \in Admins |-> None]

Crash ==
    /\ Fault
    /\ up
    /\ up' = FALSE
    /\ Stop
    /\ UNCHANGED <<overlapped, database, gateway>>

Next ==
    \/ \E q \in Requests, c \in Calls : Send(q, c)
    \/ \E r \in Routes : Take(r) \/ ParseFails(r) \/ BeginQuery(r) \/ QueryFails(r)
    \/ FindTokens \/ FindLogs \/ FindMeerkat \/ FindLogsForMeerkat
    \/ FindClients \/ FindMeerkats \/ FindAdmin \/ FindConfig
    \/ \E m \in Meerkats : Create(m)
    \/ \E m \in tokens \cup Unlisted : Put(m)
    \/ \E a \in Admins : ChangeAdminConfig(a)
    \/ Start \/ Crash

Spec == Init /\ [][Next]_vars
-----------------------------------------------------------------------------
\* The items of a list, without the address.
Items(q) == IF asked[q].call.route = "meerkatsbyuser"
            THEN {i.meerkat : i \in answer[q].list} ELSE answer[q].list

\* A list that is shown leaves out nothing that was stored when it was asked
\* for and holds nothing that is not stored, although it is put together from
\* several queries, other threads query through the same context, and a
\* failure travels to the gateway in the place of a list.
ListTrue ==
    \A q \in Requests : answer[q] # None /\ answer[q].status = 200 =>
        /\ asked[q].rows \subseteq Items(q)
        /\ Items(q) \subseteq Rows(asked[q].call)

\* The data on which a request fails by itself: an id that is none, a meerkat
\* whose admin is not known, or logs of a token without a row.
Unlistable(q) ==
    \/ asked[q].call.arg \in Malformed
    \/ /\ asked[q].call.route = "meerkatsbyuser"
       /\ \E m \in Owned(asked[q].call.arg) : AdminOf[m] \notin Admins
    \/ /\ asked[q].call.route = "logsformeerkat"
       /\ ~asked[q].known

\* A request fails only for such data, for a fault, or because one of its
\* queries ran at the same time as another request's; a missing clientconfig
\* is never the reason, although it is looked up queries after its token.
FailedForAReason ==
    \A q \in Requests : answer[q] # None /\ answer[q].status = 500 =>
        faults > 0 \/ q \in overlapped \/ Unlistable(q)

\* The address shown for an admin is one it has had since the presenter's
\* start: the tracked entities are as stale as the process is old.
EmailHeld ==
    [][\A q \in Requests :
          answer'[q] # answer[q] /\ asked[q].call.route = "meerkatsbyuser" =>
              \A i \in answer'[q].list : i.email \in held[AdminOf[i.meerkat]]]_vars
=============================================================================

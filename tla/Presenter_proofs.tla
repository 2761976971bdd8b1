-------------------------- MODULE Presenter_proofs --------------------------
(***************************************************************************)
(* Proofs about Presenter, for any requests, meerkats, users and admins    *)
(* and any number of readings, changes and faults.                         *)
(***************************************************************************)
EXTENDS Presenter, SequenceTheorems, TLAPS

(***************************************************************************)
(* What the model says of its variables, said of values: a request a (its  *)
(* call, what it had to find), the tables token and log at some time.      *)
(***************************************************************************)
OwnedIn(tk, u) == {m \in tk : OwnerOf[m] = u}

RowsIn(c, tk, lg) ==
    CASE c.route = "logs" -> {l \in lg : l.meerkat \in OwnedIn(tk, c.arg)}
      [] c.route = "logsformeerkat" -> {l \in lg : l.meerkat = c.arg}
      [] c.route = "clients" -> {m \in tk : AdminOf[m] = c.arg}
      [] c.route = "meerkatsbyuser" -> OwnedIn(tk, c.arg)

ItemsIn(c, items) ==
    IF c.route = "meerkatsbyuser" THEN {i.meerkat : i \in items} ELSE items

\* A list that a request may be answered with.
TrueList(a, items, tk, lg) ==
    /\ a.rows \subseteq ItemsIn(a.call, items)
    /\ ItemsIn(a.call, items) \subseteq RowsIn(a.call, tk, lg)

\* The data on which a request fails.
Hopeless(a, tk) ==
    \/ a.call.arg \in Malformed
    \/ /\ a.call.route = "meerkatsbyuser"
       /\ \E m \in OwnedIn(tk, a.call.arg) : AdminOf[m] \notin Admins
    \/ a.call.route = "logsformeerkat" /\ ~a.known

\* The loop of GetLogsForUser, with the tokens td left and the response ls: what
\* has to be found is in the response or among the logs of the tokens left.
LogsAt(p, a, td, ls, tk, lg) ==
    p = "logs" =>
        /\ td \subseteq OwnedIn(tk, a.call.arg)
        /\ ls \subseteq {l \in lg : l.meerkat \in OwnedIn(tk, a.call.arg)}
        /\ a.rows \subseteq ls \cup {l \in lg : l.meerkat \in td}

\* GetLogsForMeerkat between its queries: the row that was there was found.
LogAt(p, a, td) == p = "logs" /\ a.known => td # {}

\* An address is one the admin has had, none is one of no admin.
HeldBy(i, h) ==
    IF i.email = None THEN AdminOf[i.meerkat] \notin Admins
    ELSE AdminOf[i.meerkat] \in Admins /\ i.email \in h[AdminOf[i.meerkat]]

\* The loop of MeerkatsByUser, with f the meerkat it is at.
ByUserAt(p, a, td, ls, f, tk, h) ==
    p \in {"admin", "config"} =>
        /\ td \subseteq OwnedIn(tk, a.call.arg)
        /\ a.rows \subseteq {i.meerkat : i \in ls} \cup td
        /\ \A i \in ls : /\ i \in MeerkatInfo /\ i.meerkat \in OwnedIn(tk, a.call.arg)
                         /\ HeldBy(i, h)
        /\ p = "config" => /\ f \in [meerkat : td, email : Emails \cup {None}]
                           /\ HeldBy(f, h)

-----------------------------------------------------------------------------
(* The invariant. *)

\* Nothing runs and nothing is tracked without the process.
UpOK ==
    /\ ~up => \A r \in Routes : queue[r] = <<>> /\ pc[r] = "idle"
    /\ \A a \in Admins : cache[a] # None => up

\* What was tracked has been the address.
HeldOK ==
    \A a \in Admins : email[a] \in held[a] /\ (cache[a] # None => cache[a] \in held[a])

\* What a request had to find is still stored, every token with its clientconfig.
AskedOK ==
    /\ tokens \subseteq configs
    /\ \A q \in Requests : asked[q] # None =>
          /\ asked[q].rows \subseteq RowsIn(asked[q].call, tokens, logs)
          /\ asked[q].known => asked[q].call.arg \in tokens

\* A route has the requests that were sent to it.
RoutedOK ==
    /\ \A r \in Routes : work[r] # None =>
          asked[work[r]] # None /\ asked[work[r]].call.route = r
    /\ \A r \in Routes : \A i \in DOMAIN queue[r] :
          asked[queue[r][i]] # None /\ asked[queue[r][i]].call.route = r
    /\ \A q \in Requests : answer[q] # None => asked[q] # None

\* Each route has queries of its own.
PcOK ==
    /\ pc["clients"] \in {"idle", "tokens"}
    /\ pc["logs"] \in {"idle", "tokens", "logs"}
    /\ pc["logsformeerkat"] \in {"idle", "tokens", "logs"}
    /\ pc["meerkatsbyuser"] \in {"idle", "tokens", "admin", "config"}

\* Where the methods are.
MethodAt(r, p, a, td, ls, f, tk, lg, h) ==
    /\ r = "logs" => LogsAt(p, a, td, ls, tk, lg)
    /\ r = "logsformeerkat" => LogAt(p, a, td)
    /\ r = "meerkatsbyuser" => ByUserAt(p, a, td, ls, f, tk, h)

MethodsOK ==
    \A r \in Routes :
        MethodAt(r, pc[r], asked[work[r]], todo[r], list[r], found, tokens, logs, held)

\* A query that clashed is remembered.
ClashOK == \A r \in clash : work[r] \in overlapped

\* What was answered is true, or failed for a reason.
AnswersOK ==
    \A q \in Requests : answer[q] # None =>
        /\ answer[q].status = 200 => TrueList(asked[q], answer[q].list, tokens, logs)
        /\ answer[q].status = 500 =>
              faults > 0 \/ q \in overlapped \/ Hopeless(asked[q], tokens)

IInv ==
    /\ TypeOK
    /\ UpOK /\ HeldOK /\ AskedOK /\ RoutedOK /\ PcOK /\ MethodsOK /\ ClashOK /\ AnswersOK
-----------------------------------------------------------------------------
(* Tables grow. *)

\* The model's operators are these.
LEMMA Bridge ==
  /\ \A c : Rows(c) = RowsIn(c, tokens, logs)
  /\ \A u : Owned(u) = OwnedIn(tokens, u)
  /\ \A m : LogsOf(m) = {l \in logs : l.meerkat = m}
  BY DEF Rows, RowsIn, Owned, OwnedIn, LogsOf

\* The rows of a call, by its route.
LEMMA RowsCases ==
  ASSUME NEW c, NEW tk, NEW lg
  PROVE  /\ c.route = "logs" =>
               RowsIn(c, tk, lg) = {l \in lg : l.meerkat \in OwnedIn(tk, c.arg)}
         /\ c.route = "logsformeerkat" => RowsIn(c, tk, lg) = {l \in lg : l.meerkat = c.arg}
         /\ c.route = "clients" => RowsIn(c, tk, lg) = {m \in tk : AdminOf[m] = c.arg}
         /\ c.route = "meerkatsbyuser" => RowsIn(c, tk, lg) = OwnedIn(tk, c.arg)
<1>1. CASE c.route = "logs"
  BY <1>1 DEF RowsIn
<1>2. CASE c.route = "logsformeerkat"
  BY <1>2 DEF RowsIn
<1>3. CASE c.route = "clients"
  BY <1>3 DEF RowsIn
<1>4. CASE c.route = "meerkatsbyuser"
  BY <1>4 DEF RowsIn
<1> QED BY <1>1, <1>2, <1>3, <1>4

\* What a call finds can only grow with the tables.
LEMMA RowsGrow ==
  ASSUME NEW c, c.route \in Routes, NEW tk, NEW tk2, tk \subseteq tk2,
         NEW lg, NEW lg2, lg \subseteq lg2
  PROVE  RowsIn(c, tk, lg) \subseteq RowsIn(c, tk2, lg2)
<1>1. OwnedIn(tk, c.arg) \subseteq OwnedIn(tk2, c.arg)
  BY DEF OwnedIn
<1>2. CASE c.route = "logs"
  BY <1>1, <1>2, RowsCases
<1>3. CASE c.route = "logsformeerkat"
  BY <1>3, RowsCases
<1>4. CASE c.route = "clients"
  BY <1>4, RowsCases
<1>5. CASE c.route = "meerkatsbyuser"
  BY <1>1, <1>5, RowsCases
<1> QED BY <1>2, <1>3, <1>4, <1>5 DEF Routes

\* What was answered stays true, and a reason to fail stays one.
LEMMA AnswersGrow ==
  ASSUME NEW a, a.call.route \in Routes, NEW items,
         NEW tk, NEW tk2, tk \subseteq tk2, NEW lg, NEW lg2, lg \subseteq lg2
  PROVE  /\ TrueList(a, items, tk, lg) => TrueList(a, items, tk2, lg2)
         /\ Hopeless(a, tk) => Hopeless(a, tk2)
<1>1. RowsIn(a.call, tk, lg) \subseteq RowsIn(a.call, tk2, lg2)
  BY RowsGrow
<1>2. TrueList(a, items, tk, lg) => TrueList(a, items, tk2, lg2)
  BY <1>1 DEF TrueList
<1>3. OwnedIn(tk, a.call.arg) \subseteq OwnedIn(tk2, a.call.arg)
  BY DEF OwnedIn
<1>4. Hopeless(a, tk) => Hopeless(a, tk2)
  BY <1>3 DEF Hopeless
<1> QED BY <1>2, <1>4

\* The methods are not disturbed by what is stored meanwhile.
LEMMA MethodsGrow ==
  ASSUME NEW p, NEW a, NEW td, NEW ls, NEW f,
         NEW tk, NEW tk2, tk \subseteq tk2, NEW lg, NEW lg2, lg \subseteq lg2,
         NEW h, NEW h2, \A x \in Admins : h[x] \subseteq h2[x]
  PROVE  /\ LogsAt(p, a, td, ls, tk, lg) => LogsAt(p, a, td, ls, tk2, lg2)
         /\ ByUserAt(p, a, td, ls, f, tk, h) => ByUserAt(p, a, td, ls, f, tk2, h2)
<1>1. OwnedIn(tk, a.call.arg) \subseteq OwnedIn(tk2, a.call.arg)
  BY DEF OwnedIn
<1>2. LogsAt(p, a, td, ls, tk, lg) => LogsAt(p, a, td, ls, tk2, lg2)
  BY <1>1 DEF LogsAt
<1>3. \A i : HeldBy(i, h) => HeldBy(i, h2)
  BY DEF HeldBy
<1>4. ByUserAt(p, a, td, ls, f, tk, h) => ByUserAt(p, a, td, ls, f, tk2, h2)
  BY <1>1, <1>3 DEF ByUserAt
<1> QED BY <1>2, <1>4

\* What is asked is a call with rows.
LEMMA AskedFacts ==
  ASSUME TypeOK, NEW q \in Requests, asked[q] # None
  PROVE  /\ asked[q] \in Asked
         /\ asked[q].call \in Calls /\ asked[q].call.route \in Routes
         /\ asked[q].known \in BOOLEAN
<1>1. asked[q] \in Asked
  BY DEF TypeOK
<1> QED BY <1>1, PresenterAssumption DEF Asked

\* A route at work has a request of its own.
LEMMA WorkFacts ==
  ASSUME TypeOK, RoutedOK, NEW r \in Routes, pc[r] # "idle"
  PROVE  /\ work[r] \in Requests /\ work[r] # None
         /\ asked[work[r]] # None /\ asked[work[r]].call.route = r
         /\ asked[work[r]].call \in Calls
<1>1. work[r] \in Requests /\ work[r] # None
  BY DEF TypeOK
<1> QED BY <1>1, AskedFacts DEF RoutedOK

\* Before a method's first query is answered there is nothing to say of it.
LEMMA MethodFirst ==
  ASSUME NEW r, NEW p \in {"idle", "tokens"}, NEW a, NEW td, NEW ls, NEW f,
         NEW tk, NEW lg, NEW h
  PROVE  MethodAt(r, p, a, td, ls, f, tk, lg, h)
  BY DEF MethodAt, LogsAt, LogAt, ByUserAt

\* A method that does not step is where it was; the loop of MeerkatsByUser is
\* the only one that `found` is of.
LEMMA MethodKept ==
  ASSUME NEW r, NEW p, NEW a, NEW td, NEW ls, NEW f, NEW f2,
         f2 = f \/ r # "meerkatsbyuser",
         NEW tk, NEW tk2, tk \subseteq tk2, NEW lg, NEW lg2, lg \subseteq lg2,
         NEW h, NEW h2, \A x \in Admins : h[x] \subseteq h2[x],
         MethodAt(r, p, a, td, ls, f, tk, lg, h)
  PROVE  MethodAt(r, p, a, td, ls, f2, tk2, lg2, h2)
<1>1. CASE r = "logs"
  BY <1>1, MethodsGrow DEF MethodAt
<1>2. CASE r = "logsformeerkat"
  BY <1>2 DEF MethodAt
<1>3. CASE r = "meerkatsbyuser"
  BY <1>3, MethodsGrow DEF MethodAt
<1> QED BY <1>1, <1>2, <1>3 DEF MethodAt

\* Of all methods, in a step of the environment.
LEMMA MethodsKept ==
  ASSUME TypeOK, RoutedOK, MethodsOK,
         tokens \subseteq tokens', logs \subseteq logs',
         \A x \in Admins : held[x] \subseteq held'[x],
         UNCHANGED <<work, pc, todo, list, found>>,
         \A r \in Routes : pc[r] # "idle" => asked'[work[r]] = asked[work[r]]
  PROVE  MethodsOK'
<1> SUFFICES ASSUME NEW r \in Routes
             PROVE  MethodAt(r, pc[r], asked'[work[r]], todo[r], list[r], found,
                             tokens', logs', held')
  BY DEF MethodsOK
<1>1. CASE pc[r] = "idle"
  BY <1>1, MethodFirst
<1>2. CASE pc[r] # "idle"
  <2>1. MethodAt(r, pc[r], asked[work[r]], todo[r], list[r], found, tokens, logs, held)
    BY DEF MethodsOK
  <2>2. MethodAt(r, pc[r], asked[work[r]], todo[r], list[r], found, tokens', logs', held')
    BY <2>1, MethodKept
  <2> QED BY <1>2, <2>2
<1> QED BY <1>1, <1>2

\* And in a step of the method of r.
LEMMA MethodStep ==
  ASSUME MethodsOK, NEW r \in Routes,
         UNCHANGED <<asked, tokens, logs, held>>,
         found' = found \/ r = "meerkatsbyuser",
         \A u \in Routes : u # r => /\ work'[u] = work[u] /\ pc'[u] = pc[u]
                                   /\ todo'[u] = todo[u] /\ list'[u] = list[u],
         MethodAt(r, pc'[r], asked[work'[r]], todo'[r], list'[r], found', tokens, logs, held)
  PROVE  MethodsOK'
<1> SUFFICES ASSUME NEW u \in Routes
             PROVE  MethodAt(u, pc'[u], asked[work'[u]], todo'[u], list'[u], found',
                             tokens, logs, held)
  BY DEF MethodsOK
<1>1. CASE u = r
  BY <1>1
<1>2. CASE u # r
  <2>1. MethodAt(u, pc[u], asked[work[u]], todo[u], list[u], found, tokens, logs, held)
    BY DEF MethodsOK
  <2>2. found' = found \/ u # "meerkatsbyuser"
    BY <1>2
  <2>3. MethodAt(u, pc[u], asked[work[u]], todo[u], list[u], found', tokens, logs, held)
    BY <2>1, <2>2, MethodKept
  <2> QED BY <1>2, <2>3
<1> QED BY <1>1, <1>2

\* Answers that were given stay as they should be.
LEMMA AnswersKept ==
  ASSUME TypeOK, RoutedOK, AnswersOK,
         tokens \subseteq tokens', logs \subseteq logs', overlapped \subseteq overlapped',
         faults' > 0 \/ faults' = faults,
         UNCHANGED answer,
         \A q \in Requests : asked[q] # None => asked'[q] = asked[q]
  PROVE  AnswersOK'
<1> SUFFICES ASSUME NEW q \in Requests, answer[q] # None
             PROVE  /\ answer[q].status = 200 =>
                          TrueList(asked'[q], answer[q].list, tokens', logs')
                    /\ answer[q].status = 500 =>
                          faults' > 0 \/ q \in overlapped' \/ Hopeless(asked'[q], tokens')
  BY DEF AnswersOK
<1>1. asked[q] # None /\ asked'[q] = asked[q]
  BY DEF RoutedOK
<1>2. asked[q].call.route \in Routes
  BY <1>1, AskedFacts
<1>3. /\ answer[q].status = 200 => TrueList(asked[q], answer[q].list, tokens, logs)
      /\ answer[q].status = 500 =>
            faults > 0 \/ q \in overlapped \/ Hopeless(asked[q], tokens)
  BY DEF AnswersOK
<1>4. faults > 0 => faults' > 0
  OBVIOUS
<1>5. TrueList(asked[q], answer[q].list, tokens, logs) =>
        TrueList(asked[q], answer[q].list, tokens', logs')
  BY <1>2, AnswersGrow
<1>6. Hopeless(asked[q], tokens) => Hopeless(asked[q], tokens')
  BY <1>2, AnswersGrow
<1> QED BY <1>1, <1>3, <1>4, <1>5, <1>6
-----------------------------------------------------------------------------
(* The steps. *)

\* Nothing runs, nothing is stored.
LEMMA InitInvariant == Init => IInv
<1> SUFFICES ASSUME Init PROVE IInv
  OBVIOUS
<1>1. \A r \in Routes : queue[r] = <<>> /\ work[r] = None /\ pc[r] = "idle"
  BY DEF Init
<1>2. TypeOK
  <2>1. queue \in [Routes -> Seq(Requests)]
    BY EmptySeq DEF Init
  <2>2. held \in [Admins -> SUBSET Emails] /\ cache \in [Admins -> Emails \cup {None}]
    BY DEF Init
  <2>3. work \in [Routes -> Requests \cup {None}] /\ todo \in [Routes -> SUBSET Meerkats]
        /\ list \in [Routes -> SUBSET Item]
        /\ pc \in [Routes -> {"idle", "tokens", "logs", "admin", "config"}]
    BY DEF Init
  <2>4. /\ asked \in [Requests -> Asked \cup {None}]
        /\ answer \in [Requests -> [status : {200, 500}, list : SUBSET Item] \cup {None}]
    BY DEF Init
  <2>5. faults \in 0..MaxFaults /\ changes \in 0..MaxChanges
    BY PresenterAssumption DEF Init
  <2> QED BY <1>1, <2>1, <2>2, <2>3, <2>4, <2>5 DEF Init, TypeOK
<1>3. UpOK /\ HeldOK /\ ClashOK
  BY <1>1 DEF Init, UpOK, HeldOK, ClashOK
<1>4. AskedOK /\ AnswersOK
  BY DEF Init, AskedOK, AnswersOK
<1>5. RoutedOK
  <2>1. \A r \in Routes : DOMAIN queue[r] = {}
    BY <1>1, EmptySeq
  <2> QED BY <1>1, <2>1 DEF Init, RoutedOK
<1>6. PcOK /\ MethodsOK
  BY <1>1, MethodFirst DEF PcOK, MethodsOK, Routes
<1> QED BY <1>2, <1>3, <1>4, <1>5, <1>6 DEF IInv

\* The tables grow, an address changes: nobody's step is disturbed.
LEMMA DatabaseInvariant ==
  ASSUME IInv,
         UNCHANGED <<up, queue, work, pc, todo, found, list, open, clash, overlapped, cache,
                     asked, answer, faults>>,
         tokens \subseteq tokens', tokens' \subseteq configs', configs' \subseteq Meerkats,
         logs \subseteq logs', logs' \subseteq Log,
         email' \in [Admins -> Emails], held' \in [Admins -> SUBSET Emails],
         \A a \in Admins : email'[a] \in held'[a] /\ held[a] \subseteq held'[a],
         changes' \in 0..MaxChanges
  PROVE  IInv'
<1>1. /\ TypeOK /\ UpOK /\ HeldOK /\ AskedOK /\ RoutedOK /\ PcOK /\ MethodsOK /\ ClashOK
      /\ AnswersOK
  BY DEF IInv
<1>2. TypeOK'
  BY <1>1 DEF TypeOK
<1>3. UpOK' /\ HeldOK' /\ RoutedOK' /\ PcOK' /\ ClashOK'
  BY <1>1 DEF UpOK, HeldOK, RoutedOK, PcOK, ClashOK
<1>4. AskedOK'
  <2> SUFFICES ASSUME NEW q \in Requests, asked[q] # None
               PROVE  /\ asked[q].rows \subseteq RowsIn(asked[q].call, tokens', logs')
                      /\ asked[q].known => asked[q].call.arg \in tokens'
    BY DEF AskedOK
  <2>1. asked[q].call.route \in Routes
    BY <1>1, AskedFacts
  <2>2. RowsIn(asked[q].call, tokens, logs) \subseteq RowsIn(asked[q].call, tokens', logs')
    BY <2>1, RowsGrow
  <2> QED BY <1>1, <2>2 DEF AskedOK
<1>5. MethodsOK'
  BY <1>1, MethodsKept
<1>6. AnswersOK'
  BY <1>1, AnswersKept
<1> QED BY <1>2, <1>3, <1>4, <1>5, <1>6 DEF IInv

\* The steps of the other services.
LEMMA StoredInvariant ==
  ASSUME IInv,
         \/ \E m \in Meerkats : Create(m)
         \/ \E m \in tokens \cup Unlisted : Put(m)
         \/ \E a \in Admins : ChangeAdminConfig(a)
  PROVE  IInv'
<1>1. TypeOK /\ HeldOK /\ AskedOK
  BY DEF IInv
<1>2. \A a \in Admins : email[a] \in held[a]
  BY <1>1 DEF HeldOK
<1>3. CASE \E m \in Meerkats : Create(m)
  <2>1. PICK m \in Meerkats : tokens' = tokens \cup {m} /\ configs' = configs \cup {m}
    BY <1>3 DEF Create
  <2>2. UNCHANGED <<up, queue, work, pc, todo, found, list, open, clash, overlapped, cache,
                    asked, answer, faults, logs, email, held, changes>>
    BY <1>3 DEF Create, handler, context, gateway
  <2> QED BY <1>1, <1>2, <2>1, <2>2, DatabaseInvariant DEF TypeOK, AskedOK
<1>4. CASE \E m \in tokens \cup Unlisted : Put(m)
  <2>1. PICK m \in tokens \cup Unlisted, n \in 1..MaxLogs :
          logs' = logs \cup {[meerkat |-> m, n |-> n]}
    BY <1>4 DEF Put
  <2>2. UNCHANGED <<up, queue, work, pc, todo, found, list, open, clash, overlapped, cache,
                    asked, answer, faults, tokens, configs, email, held, changes>>
    BY <1>4 DEF Put, handler, context, gateway
  <2>3. logs' \subseteq Log
    BY <1>1, <2>1 DEF TypeOK, Log
  <2> QED BY <1>1, <1>2, <2>1, <2>2, <2>3, DatabaseInvariant DEF TypeOK, AskedOK
<1>5. CASE \E a \in Admins : ChangeAdminConfig(a)
  <2>1. PICK a \in Admins, e \in Emails :
          /\ email' = [email EXCEPT ![a] = e]
          /\ held' = [held EXCEPT ![a] = @ \cup {e}]
    BY <1>5 DEF ChangeAdminConfig
  <2>2. UNCHANGED <<up, queue, work, pc, todo, found, list, open, clash, overlapped, cache,
                    asked, answer, faults, tokens, configs, logs>>
    BY <1>5 DEF ChangeAdminConfig, handler, context, gateway
  <2>3. changes' \in 0..MaxChanges
    BY <1>1, <1>5, PresenterAssumption DEF TypeOK, ChangeAdminConfig
  <2>4. /\ email' \in [Admins -> Emails] /\ held' \in [Admins -> SUBSET Emails]
        /\ \A x \in Admins : email'[x] \in held'[x] /\ held[x] \subseteq held'[x]
    BY <1>1, <1>2, <2>1 DEF TypeOK
  <2> QED BY <1>1, <2>2, <2>3, <2>4, DatabaseInvariant DEF TypeOK, AskedOK
<1> QED BY <1>3, <1>4, <1>5

\* A request is sent.
LEMMA SendInvariant ==
  ASSUME IInv, NEW q \in Requests, NEW c \in Calls, Send(q, c)
  PROVE  IInv'
<1>1. /\ TypeOK /\ UpOK /\ HeldOK /\ AskedOK /\ RoutedOK /\ PcOK /\ MethodsOK /\ ClashOK
      /\ AnswersOK
  BY DEF IInv
<1>2. UNCHANGED <<up, work, pc, todo, found, list, open, clash, overlapped, cache, tokens,
                  configs, logs, email, held, changes, answer, faults>>
  BY DEF Send, handler, context, database
<1>3. PICK x : x = [call |-> c, rows |-> RowsIn(c, tokens, logs), known |-> c.arg \in tokens]
  OBVIOUS
<1>4. asked[q] = None /\ asked' = [asked EXCEPT ![q] = x]
  BY <1>3, Bridge DEF Send
<1>5. c.route \in Routes
  BY PresenterAssumption
<1>6. x \in Asked /\ x # None
  <2>1. tokens \subseteq Meerkats /\ logs \subseteq Log
    BY <1>1 DEF TypeOK
  <2>2. OwnedIn(tokens, c.arg) \subseteq Meerkats
    BY <2>1 DEF OwnedIn
  <2>3. RowsIn(c, tokens, logs) \subseteq Log \cup Meerkats
    BY <1>5, <2>1, <2>2, RowsCases DEF Routes
  <2>4. (c.arg \in tokens) \in BOOLEAN
    OBVIOUS
  <2>5. x \in Asked
    BY <1>3, <2>3, <2>4, Zenon DEF Asked
  <2> QED BY <2>5, NoneAssumption
<1>7. /\ asked' \in [Requests -> Asked \cup {None}]
      /\ asked'[q] = x
      /\ \A p \in Requests : asked[p] # None => asked'[p] = asked[p]
      /\ \A p \in Requests : p # q => asked'[p] = asked[p]
  BY <1>1, <1>4, <1>6 DEF TypeOK
<1>8. /\ queue' \in [Routes -> Seq(Requests)]
      /\ \A u \in Routes : \A i \in DOMAIN queue'[u] :
            \/ i \in DOMAIN queue[u] /\ queue'[u][i] = queue[u][i]
            \/ queue'[u][i] = q /\ u = c.route
  <2>1. queue \in [Routes -> Seq(Requests)]
    BY <1>1 DEF TypeOK
  <2>2. CASE up
    <3>1. queue' = [queue EXCEPT ![c.route] = Append(@, q)]
      BY <2>2 DEF Send
    <3>2. queue[c.route] \in Seq(Requests)
      BY <1>5, <2>1
    <3>3. /\ Append(queue[c.route], q) \in Seq(Requests)
          /\ \A i \in DOMAIN Append(queue[c.route], q) :
                \/ i \in DOMAIN queue[c.route]
                   /\ Append(queue[c.route], q)[i] = queue[c.route][i]
                \/ Append(queue[c.route], q)[i] = q
      BY <3>2
    <3>4. queue'[c.route] = Append(queue[c.route], q)
          /\ \A u \in Routes : u # c.route => queue'[u] = queue[u]
      BY <1>5, <2>1, <3>1
    <3> QED BY <1>5, <2>1, <3>1, <3>3, <3>4
  <2>3. CASE ~up
    BY <2>1, <2>3 DEF Send
  <2> QED BY <2>2, <2>3
<1>9. TypeOK'
  BY <1>1, <1>2, <1>7, <1>8 DEF TypeOK
<1>10. UpOK'
  BY <1>1, <1>2 DEF UpOK, Send
<1>11. HeldOK' /\ PcOK' /\ ClashOK'
  BY <1>1, <1>2 DEF HeldOK, PcOK, ClashOK
<1>12. AskedOK'
  <2> SUFFICES ASSUME NEW p \in Requests, asked'[p] # None
               PROVE  /\ asked'[p].rows \subseteq RowsIn(asked'[p].call, tokens, logs)
                      /\ asked'[p].known => asked'[p].call.arg \in tokens
    BY <1>1, <1>2 DEF AskedOK
  <2>1. CASE p = q
    <3>1. x.call = c /\ x.rows = RowsIn(c, tokens, logs)
      BY <1>3
    <3>2. x.known => c.arg \in tokens
      BY <1>3, Zenon
    <3> QED BY <1>7, <2>1, <3>1, <3>2
  <2>2. CASE p # q
    BY <1>1, <1>7, <2>2 DEF AskedOK
  <2> QED BY <2>1, <2>2
<1>13. RoutedOK'
  <2>1. asked'[q] # None /\ asked'[q].call.route = c.route
    BY <1>3, <1>6, <1>7
  <2>2. \A r \in Routes : work[r] # None =>
          asked'[work[r]] # None /\ asked'[work[r]].call.route = r
    BY <1>1, <1>7 DEF RoutedOK, TypeOK
  <2>3. ASSUME NEW u \in Routes, NEW i \in DOMAIN queue'[u]
        PROVE  asked'[queue'[u][i]] # None /\ asked'[queue'[u][i]].call.route = u
    <3>1. CASE i \in DOMAIN queue[u] /\ queue'[u][i] = queue[u][i]
      <4>1. queue[u][i] \in Requests
        BY <1>1, <3>1 DEF TypeOK
      <4> QED BY <1>1, <1>7, <3>1, <4>1 DEF RoutedOK
    <3>2. CASE queue'[u][i] = q /\ u = c.route
      BY <2>1, <3>2
    <3> QED BY <1>8, <3>1, <3>2
  <2>4. \A p \in Requests : answer[p] # None => asked'[p] # None
    BY <1>1, <1>7 DEF RoutedOK
  <2> QED BY <1>2, <2>2, <2>3, <2>4 DEF RoutedOK
<1>14. MethodsOK'
  <2>1. \A r \in Routes : pc[r] # "idle" => asked'[work[r]] = asked[work[r]]
    BY <1>1, <1>7, WorkFacts
  <2> QED BY <1>1, <1>2, <2>1, MethodsKept DEF TypeOK
<1>15. AnswersOK'
  BY <1>1, <1>2, <1>7, AnswersKept
<1> QED BY <1>9, <1>10, <1>11, <1>12, <1>13, <1>14, <1>15 DEF IInv

\* A consumer thread takes the next request of its queue.
LEMMA TakeInvariant ==
  ASSUME IInv, NEW r \in Routes, Take(r)
  PROVE  IInv'
<1>1. /\ TypeOK /\ UpOK /\ HeldOK /\ AskedOK /\ RoutedOK /\ PcOK /\ MethodsOK /\ ClashOK
      /\ AnswersOK
  BY DEF IInv
<1>2. UNCHANGED <<up, todo, found, list, open, clash, overlapped, cache, tokens, configs,
                  logs, email, held, changes, asked, answer, faults>>
  BY DEF Take, context, database, gateway
<1>3. pc[r] = "idle" /\ queue[r] # <<>> /\ queue[r] \in Seq(Requests)
  BY <1>1 DEF Take, TypeOK
<1>4. PICK q : q = Head(queue[r])
  OBVIOUS
<1>5. /\ q \in Requests /\ q # None /\ asked[q] # None /\ asked[q].call.route = r
  <2>1. 1 \in DOMAIN queue[r] /\ q = queue[r][1] /\ q \in Requests
    BY <1>3, <1>4
  <2> QED BY <1>1, <2>1, PresenterAssumption DEF RoutedOK
<1>6. /\ work' = [work EXCEPT ![r] = q] /\ pc' = [pc EXCEPT ![r] = "tokens"]
      /\ queue' = [queue EXCEPT ![r] = Tail(@)]
  BY <1>4 DEF Take
<1>7. /\ work'[r] = q /\ pc'[r] = "tokens" /\ queue'[r] = Tail(queue[r])
      /\ \A u \in Routes : u # r => /\ work'[u] = work[u] /\ pc'[u] = pc[u]
                                    /\ queue'[u] = queue[u]
  BY <1>1, <1>6 DEF TypeOK
<1>8. /\ Tail(queue[r]) \in Seq(Requests)
      /\ \A i \in DOMAIN Tail(queue[r]) :
            i + 1 \in DOMAIN queue[r] /\ Tail(queue[r])[i] = queue[r][i + 1]
  BY <1>3
<1>9. TypeOK'
  <2>1. queue' \in [Routes -> Seq(Requests)] /\ work' \in [Routes -> Requests \cup {None}]
        /\ pc' \in [Routes -> {"idle", "tokens", "logs", "admin", "config"}]
    BY <1>1, <1>5, <1>6, <1>8 DEF TypeOK
  <2>2. ASSUME NEW u \in Routes
        PROVE  pc'[u] = "idle" <=> work'[u] = None
    <3>1. CASE u = r
      BY <1>5, <1>7, <3>1
    <3>2. CASE u # r
      BY <1>1, <1>7, <3>2 DEF TypeOK
    <3> QED BY <3>1, <3>2
  <2>3. open \subseteq {u \in Routes : pc'[u] # "idle"}
    BY <1>1, <1>7 DEF TypeOK
  <2> QED BY <1>1, <1>2, <2>1, <2>2, <2>3 DEF TypeOK
<1>10. UpOK'
  BY <1>1, <1>2, <1>3 DEF UpOK
<1>11. HeldOK' /\ AskedOK'
  BY <1>1, <1>2 DEF HeldOK, AskedOK
<1>12. RoutedOK'
  <2>1. \A u \in Routes : work'[u] # None =>
          asked[work'[u]] # None /\ asked[work'[u]].call.route = u
    BY <1>1, <1>5, <1>7 DEF RoutedOK
  <2>2. ASSUME NEW u \in Routes, NEW i \in DOMAIN queue'[u]
        PROVE  asked[queue'[u][i]] # None /\ asked[queue'[u][i]].call.route = u
    <3>1. CASE u = r
      <4>1. i + 1 \in DOMAIN queue[r] /\ queue'[r][i] = queue[r][i + 1]
        BY <1>7, <1>8, <3>1
      <4> QED BY <1>1, <3>1, <4>1 DEF RoutedOK
    <3>2. CASE u # r
      BY <1>1, <1>7, <3>2 DEF RoutedOK
    <3> QED BY <3>1, <3>2
  <2> QED BY <1>1, <1>2, <2>1, <2>2 DEF RoutedOK
<1>13. PcOK'
  BY <1>1, <1>7 DEF PcOK, Routes
<1>14. MethodsOK'
  <2>1. MethodAt(r, pc'[r], asked[work'[r]], todo'[r], list'[r], found', tokens, logs, held)
    BY <1>7, MethodFirst
  <2> QED BY <1>1, <1>2, <1>7, <2>1, MethodStep
<1>15. ClashOK'
  <2>1. r \notin clash /\ clash \subseteq Routes
    BY <1>1, <1>3 DEF TypeOK
  <2> QED BY <1>1, <1>2, <1>7, <2>1 DEF ClashOK
<1>16. AnswersOK'
  BY <1>1, <1>2, AnswersKept
<1> QED BY <1>9, <1>10, <1>11, <1>12, <1>13, <1>14, <1>15, <1>16 DEF IInv

\* A query starts, which may clash with those that are open.
LEMMA BeginQueryInvariant ==
  ASSUME IInv, NEW r \in Routes, BeginQuery(r)
  PROVE  IInv'
<1>1. /\ TypeOK /\ UpOK /\ HeldOK /\ AskedOK /\ RoutedOK /\ PcOK /\ MethodsOK /\ ClashOK
      /\ AnswersOK
  BY DEF IInv
<1>2. UNCHANGED <<up, queue, work, pc, todo, found, list, cache, tokens, configs,
                  logs, email, held, changes, asked, answer, faults>>
  BY DEF BeginQuery, handler, database, gateway
<1>3. /\ open' \subseteq {u \in Routes : pc[u] # "idle"} /\ clash' \subseteq open'
      /\ overlapped' = overlapped \cup {work[s] : s \in clash'}
  BY <1>1 DEF BeginQuery, TypeOK
<1>4. overlapped' \subseteq Requests
  BY <1>1, <1>3 DEF TypeOK
<1>5. TypeOK'
  BY <1>1, <1>2, <1>3, <1>4 DEF TypeOK
<1>6. UpOK' /\ HeldOK' /\ AskedOK' /\ RoutedOK' /\ PcOK'
  BY <1>1, <1>2 DEF UpOK, HeldOK, AskedOK, RoutedOK, PcOK
<1>7. ClashOK'
  BY <1>2, <1>3 DEF ClashOK
<1>8. MethodsOK'
  BY <1>1, <1>2, MethodsKept
<1>9. AnswersOK'
  BY <1>1, <1>2, <1>3, AnswersKept
<1> QED BY <1>5, <1>6, <1>7, <1>8, <1>9 DEF IInv

\* The method of r leaves the context: after its query, or without one.
Leaves(r) ==
    /\ pc[r] # "idle"
    /\ open' = open \ {r} /\ clash' = clash \ {r} /\ UNCHANGED overlapped

LEMMA EndLeaves ==
  ASSUME TypeOK, NEW r \in Routes, EndQuery(r)
  PROVE  Leaves(r)
  BY DEF Leaves, EndQuery, TypeOK

\* A method is done: with a list that is true or a failure that has a reason.
LEMMA DoneInvariant ==
  ASSUME IInv, NEW r \in Routes, Leaves(r), Finish(r),
         answer' \in [Requests -> [status : {200, 500}, list : SUBSET Item] \cup {None}],
         \A p \in Requests : p # work[r] => answer'[p] = answer[p],
         UNCHANGED <<up, queue, cache, tokens, configs, logs, email, held, changes, asked>>,
         faults' \in 0..MaxFaults, faults' > 0 \/ faults' = faults,
         answer'[work[r]].status = 200 =>
            TrueList(asked[work[r]], answer'[work[r]].list, tokens, logs),
         answer'[work[r]].status = 500 =>
            faults' > 0 \/ work[r] \in overlapped \/ Hopeless(asked[work[r]], tokens)
  PROVE  IInv'
<1>1. /\ TypeOK /\ UpOK /\ HeldOK /\ AskedOK /\ RoutedOK /\ PcOK /\ MethodsOK /\ ClashOK
      /\ AnswersOK
  BY DEF IInv
<1>2. pc[r] # "idle" /\ open' = open \ {r} /\ clash' = clash \ {r} /\ overlapped' = overlapped
  BY DEF Leaves
<1>3. PICK q : q = work[r]
  OBVIOUS
<1>4. q \in Requests /\ asked[q] # None
  BY <1>1, <1>2, <1>3, WorkFacts
<1>5. /\ work' = [work EXCEPT ![r] = None] /\ pc' = [pc EXCEPT ![r] = "idle"]
      /\ todo' = [todo EXCEPT ![r] = {}] /\ list' = [list EXCEPT ![r] = {}]
      /\ found' = IF r = "meerkatsbyuser" THEN None ELSE found
  BY DEF Finish
<1>6. /\ work'[r] = None /\ pc'[r] = "idle"
      /\ \A u \in Routes : u # r => /\ work'[u] = work[u] /\ pc'[u] = pc[u]
                                    /\ todo'[u] = todo[u] /\ list'[u] = list[u]
  BY <1>1, <1>5 DEF TypeOK
<1>8. /\ answer' \in [Requests -> [status : {200, 500}, list : SUBSET Item] \cup {None}]
      /\ \A p \in Requests : p # q => answer'[p] = answer[p]
  BY <1>3
<1>9. TypeOK'
  <2>1. /\ work' \in [Routes -> Requests \cup {None}] /\ todo' \in [Routes -> SUBSET Meerkats]
        /\ list' \in [Routes -> SUBSET Item]
        /\ pc' \in [Routes -> {"idle", "tokens", "logs", "admin", "config"}]
    BY <1>1, <1>5 DEF TypeOK
  <2>2. ASSUME NEW u \in Routes
        PROVE  pc'[u] = "idle" <=> work'[u] = None
    <3>1. CASE u = r
      BY <1>6, <3>1
    <3>2. CASE u # r
      BY <1>1, <1>6, <3>2 DEF TypeOK
    <3> QED BY <3>1, <3>2
  <2>3. open' \subseteq {u \in Routes : pc'[u] # "idle"} /\ clash' \subseteq open'
    BY <1>1, <1>2, <1>6 DEF TypeOK
  <2>4. found' \in [meerkat : Meerkats, email : Emails \cup {None}] \cup {None}
    BY <1>1, <1>5 DEF TypeOK
  <2> QED BY <1>1, <1>2, <1>8, <2>1, <2>2, <2>3, <2>4 DEF TypeOK
<1>10. UpOK'
  BY <1>1, <1>2 DEF UpOK
<1>11. HeldOK' /\ AskedOK'
  BY <1>1 DEF HeldOK, AskedOK
<1>12. RoutedOK'
  <2>1. \A u \in Routes : work'[u] # None =>
          asked[work'[u]] # None /\ asked[work'[u]].call.route = u
    BY <1>1, <1>6 DEF RoutedOK
  <2>2. \A p \in Requests : answer'[p] # None => asked[p] # None
    BY <1>1, <1>4, <1>8 DEF RoutedOK
  <2> QED BY <1>1, <2>1, <2>2 DEF RoutedOK
<1>13. PcOK'
  BY <1>1, <1>6 DEF PcOK, Routes
<1>14. MethodsOK'
  <2>1. MethodAt(r, pc'[r], asked[work'[r]], todo'[r], list'[r], found', tokens, logs, held)
    BY <1>6, MethodFirst
  <2> QED BY <1>1, <1>5, <1>6, <2>1, MethodStep
<1>15. ClashOK'
  BY <1>1, <1>2, <1>6 DEF ClashOK, TypeOK
<1>16. AnswersOK'
  <2> SUFFICES ASSUME NEW p \in Requests, answer'[p] # None
               PROVE  /\ answer'[p].status = 200 =>
                            TrueList(asked[p], answer'[p].list, tokens, logs)
                      /\ answer'[p].status = 500 =>
                            faults' > 0 \/ p \in overlapped \/ Hopeless(asked[p], tokens)
    BY <1>2 DEF AnswersOK
  <2>1. CASE p = q
    BY <1>3, <2>1
  <2>2. CASE p # q
    <3>1. answer'[p] = answer[p]
      BY <1>8, <2>2
    <3>2. faults > 0 => faults' > 0
      OBVIOUS
    <3> QED BY <1>1, <3>1, <3>2 DEF AnswersOK
  <2> QED BY <2>1, <2>2
<1> QED BY <1>9, <1>10, <1>11, <1>12, <1>13, <1>14, <1>15, <1>16 DEF IInv

\* It is done with a list.
LEMMA ReplyInvariant ==
  ASSUME IInv, NEW r \in Routes, EndQuery(r), NEW items \in SUBSET Item, Reply(r, items),
         UNCHANGED <<up, queue, cache, tokens, configs, logs, email, held, changes, asked,
                     faults>>,
         TrueList(asked[work[r]], items, tokens, logs)
  PROVE  IInv'
<1>1. TypeOK /\ Leaves(r) /\ work[r] \in Requests
  BY WorkFacts, EndLeaves DEF IInv, Leaves
<1>2. PICK x : x = [status |-> 200, list |-> items]
  OBVIOUS
<1>3. /\ x \in [status : {200, 500}, list : SUBSET Item]
      /\ x.status = 200 /\ x.status # 500 /\ x.list = items
  BY <1>2
<1>4. answer' = [answer EXCEPT ![work[r]] = x] /\ Finish(r)
  BY <1>2 DEF Reply
<1>5. /\ answer' \in [Requests -> [status : {200, 500}, list : SUBSET Item] \cup {None}]
      /\ \A p \in Requests : p # work[r] => answer'[p] = answer[p]
      /\ answer'[work[r]] = x
  BY <1>1, <1>3, <1>4 DEF TypeOK
<1>6. faults' \in 0..MaxFaults /\ faults' = faults
  BY <1>1 DEF TypeOK
<1>7. UNCHANGED <<up, queue, cache, tokens, configs, logs, email, held, changes, asked>>
  OBVIOUS
<1> QED BY <1>1, <1>3, <1>4, <1>5, <1>6, <1>7, DoneInvariant

\* It throws.
LEMMA ThrowInvariant ==
  ASSUME IInv, NEW r \in Routes, Leaves(r), Throw(r),
         UNCHANGED <<up, queue, cache, tokens, configs, logs, email, held, changes, asked>>,
         faults' \in 0..MaxFaults, faults' > 0 \/ faults' = faults,
         faults' > 0 \/ work[r] \in overlapped \/ Hopeless(asked[work[r]], tokens)
  PROVE  IInv'
<1>1. TypeOK /\ work[r] \in Requests
  BY WorkFacts DEF IInv, Leaves
<1>2. PICK x : x = [status |-> 500, list |-> {}]
  OBVIOUS
<1>3. x \in [status : {200, 500}, list : SUBSET Item] /\ x.status # 200
  BY <1>2
<1>4. answer' = [answer EXCEPT ![work[r]] = x] /\ Finish(r)
  BY <1>2 DEF Throw
<1>5. /\ answer' \in [Requests -> [status : {200, 500}, list : SUBSET Item] \cup {None}]
      /\ \A p \in Requests : p # work[r] => answer'[p] = answer[p]
      /\ answer'[work[r]] = x
  BY <1>1, <1>3, <1>4 DEF TypeOK
<1> QED BY <1>3, <1>4, <1>5, DoneInvariant

\* A method goes on with another query.
LEMMA GoOnInvariant ==
  ASSUME IInv, NEW r \in Routes, EndQuery(r), NEW p,
         \/ r \in {"logs", "logsformeerkat"} /\ p = "logs"
         \/ r = "meerkatsbyuser" /\ p \in {"admin", "config"},
         NEW td \in SUBSET Meerkats, NEW ls \in SUBSET Item,
         pc' = [pc EXCEPT ![r] = p], todo' = [todo EXCEPT ![r] = td],
         list' = [list EXCEPT ![r] = ls],
         found' \in [meerkat : Meerkats, email : Emails \cup {None}] \cup {None},
         found' = found \/ r = "meerkatsbyuser",
         cache' \in [Admins -> Emails \cup {None}],
         \A a \in Admins : cache'[a] # None => cache'[a] \in held[a],
         UNCHANGED <<up, queue, work, tokens, configs, logs, email, held, changes, asked,
                     answer, faults>>,
         MethodAt(r, p, asked[work[r]], td, ls, found', tokens, logs, held)
  PROVE  IInv'
<1>1. /\ TypeOK /\ UpOK /\ HeldOK /\ AskedOK /\ RoutedOK /\ PcOK /\ MethodsOK /\ ClashOK
      /\ AnswersOK
  BY DEF IInv
<1>2. pc[r] # "idle" /\ open' = open \ {r} /\ clash' = clash \ {r} /\ overlapped' = overlapped
  BY <1>1 DEF EndQuery, TypeOK
<1>3. p \in {"logs", "admin", "config"}
  OBVIOUS
<1>4. /\ pc'[r] = p /\ todo'[r] = td /\ list'[r] = ls
      /\ \A u \in Routes : u # r => /\ pc'[u] = pc[u] /\ todo'[u] = todo[u]
                                    /\ list'[u] = list[u]
  BY <1>1 DEF TypeOK
<1>5. TypeOK'
  <2>1. /\ todo' \in [Routes -> SUBSET Meerkats] /\ list' \in [Routes -> SUBSET Item]
        /\ pc' \in [Routes -> {"idle", "tokens", "logs", "admin", "config"}]
    BY <1>1, <1>3 DEF TypeOK
  <2>2. ASSUME NEW u \in Routes
        PROVE  pc'[u] = "idle" <=> work[u] = None
    <3>1. CASE u = r
      BY <1>1, <1>2, <1>3, <1>4, <3>1 DEF TypeOK
    <3>2. CASE u # r
      BY <1>1, <1>4, <3>2 DEF TypeOK
    <3> QED BY <3>1, <3>2
  <2>3. open' \subseteq {u \in Routes : pc'[u] # "idle"} /\ clash' \subseteq open'
    BY <1>1, <1>2, <1>4 DEF TypeOK
  <2> QED BY <1>1, <1>2, <2>1, <2>2, <2>3 DEF TypeOK
<1>6. UpOK'
  BY <1>1, <1>2 DEF UpOK
<1>7. HeldOK' /\ AskedOK' /\ RoutedOK'
  BY <1>1 DEF HeldOK, AskedOK, RoutedOK
<1>8. PcOK'
  BY <1>1, <1>4 DEF PcOK, Routes
<1>9. MethodsOK'
  BY <1>1, <1>4, MethodStep
<1>10. ClashOK'
  BY <1>1, <1>2 DEF ClashOK
<1>11. AnswersOK'
  BY <1>1, <1>2, AnswersKept
<1> QED BY <1>5, <1>6, <1>7, <1>8, <1>9, <1>10, <1>11 DEF IInv

\* The loop of GetLogsForUser after a query: with tokens left or done.
LEMMA LoopLogsInvariant ==
  ASSUME IInv, EndQuery("logs"), NEW ms \in SUBSET Meerkats, NEW items \in SUBSET Item,
         Loop("logs", "logs", ms, items),
         UNCHANGED <<up, queue, found, cache, database, asked, faults>>,
         LogsAt("logs", asked[work["logs"]], ms, items, tokens, logs)
  PROVE  IInv'
<1>1. TypeOK /\ HeldOK /\ RoutedOK
  BY DEF IInv
<1>2. "logs" \in Routes /\ pc["logs"] # "idle"
  BY <1>1 DEF Routes, EndQuery, TypeOK
<1>3. asked[work["logs"]].call.route = "logs"
  BY <1>1, <1>2, WorkFacts
<1>4. UNCHANGED <<up, queue, found, cache, tokens, configs, logs, email, held, changes,
                  asked, faults>>
  BY DEF database
<1>5. CASE ms = {} /\ Reply("logs", items)
  <2>1. TrueList(asked[work["logs"]], items, tokens, logs)
    <3>1. asked[work["logs"]].rows \subseteq items
      BY <1>5 DEF LogsAt
    <3>2. items \subseteq RowsIn(asked[work["logs"]].call, tokens, logs)
      BY <1>3, RowsCases DEF LogsAt
    <3> QED BY <1>3, <3>1, <3>2 DEF TrueList, ItemsIn
  <2> QED BY <1>2, <1>4, <1>5, <2>1, ReplyInvariant
<1>6. CASE /\ ms # {} /\ pc' = [pc EXCEPT !["logs"] = "logs"]
           /\ todo' = [todo EXCEPT !["logs"] = ms] /\ list' = [list EXCEPT !["logs"] = items]
           /\ UNCHANGED <<work, answer>>
  <2>1. MethodAt("logs", "logs", asked[work["logs"]], ms, items, found', tokens, logs, held)
    BY DEF MethodAt
  <2>2. /\ found' \in [meerkat : Meerkats, email : Emails \cup {None}] \cup {None}
        /\ cache' \in [Admins -> Emails \cup {None}]
    BY <1>1, <1>4 DEF TypeOK
  <2>3. \A a \in Admins : cache'[a] # None => cache'[a] \in held[a]
    BY <1>1, <1>4 DEF HeldOK
  <2> QED BY <1>2, <1>4, <1>6, <2>1, <2>2, <2>3, GoOnInvariant
<1> QED BY <1>5, <1>6 DEF Loop

\* The loop of MeerkatsByUser, likewise.
LEMMA LoopByUserInvariant ==
  ASSUME IInv, EndQuery("meerkatsbyuser"),
         NEW ms \in SUBSET Meerkats, NEW items \in SUBSET Item,
         Loop("meerkatsbyuser", "admin", ms, items), found' = None,
         UNCHANGED <<up, queue, cache, database, asked, faults>>,
         ByUserAt("admin", asked[work["meerkatsbyuser"]], ms, items, None, tokens, held)
  PROVE  IInv'
<1>1. TypeOK /\ HeldOK /\ RoutedOK
  BY DEF IInv
<1>2. "meerkatsbyuser" \in Routes /\ pc["meerkatsbyuser"] # "idle"
  BY <1>1 DEF Routes, EndQuery, TypeOK
<1>3. PICK a : a = asked[work["meerkatsbyuser"]]
  OBVIOUS
<1>4. a.call.route = "meerkatsbyuser"
  BY <1>1, <1>2, <1>3, WorkFacts
<1>5. UNCHANGED <<up, queue, cache, tokens, configs, logs, email, held, changes,
                  asked, faults>>
  BY DEF database
<1>6. CASE ms = {} /\ Reply("meerkatsbyuser", items)
  <2>1. TrueList(a, items, tokens, logs)
    <3>1. a.rows \subseteq {i.meerkat : i \in items}
      BY <1>3, <1>6 DEF ByUserAt
    <3>2. {i.meerkat : i \in items} \subseteq OwnedIn(tokens, a.call.arg)
      BY <1>3 DEF ByUserAt
    <3> QED BY <1>4, <3>1, <3>2, RowsCases DEF TrueList, ItemsIn
  <2> QED BY <1>2, <1>3, <1>5, <1>6, <2>1, ReplyInvariant
<1>7. CASE /\ ms # {} /\ pc' = [pc EXCEPT !["meerkatsbyuser"] = "admin"]
           /\ todo' = [todo EXCEPT !["meerkatsbyuser"] = ms]
           /\ list' = [list EXCEPT !["meerkatsbyuser"] = items]
           /\ UNCHANGED <<work, answer>>
  <2>1. MethodAt("meerkatsbyuser", "admin", asked[work["meerkatsbyuser"]], ms, items, found',
                 tokens, logs, held)
    BY DEF MethodAt
  <2>2. cache' \in [Admins -> Emails \cup {None}]
    BY <1>1, <1>5 DEF TypeOK
  <2>3. \A x \in Admins : cache'[x] # None => cache'[x] \in held[x]
    BY <1>1, <1>5 DEF HeldOK
  <2> QED BY <1>2, <1>5, <1>7, <2>1, <2>2, <2>3, GoOnInvariant
<1> QED BY <1>6, <1>7 DEF Loop

\* A query throws: it clashed, which is remembered, or there was a fault.
LEMMA QueryFailsInvariant ==
  ASSUME IInv, NEW r \in Routes, QueryFails(r)
  PROVE  IInv'
<1>1. TypeOK /\ ClashOK
  BY DEF IInv
<1>2. Leaves(r) /\ Throw(r)
  BY <1>1, EndLeaves DEF QueryFails
<1>3. UNCHANGED <<up, queue, cache, tokens, configs, logs, email, held, changes, asked>>
  BY DEF QueryFails, database
<1>4. CASE r \in clash /\ UNCHANGED faults
  <2>1. faults' \in 0..MaxFaults
    BY <1>1, <1>4 DEF TypeOK
  <2>2. work[r] \in overlapped
    BY <1>1, <1>4 DEF ClashOK
  <2> QED BY <1>2, <1>3, <1>4, <2>1, <2>2, ThrowInvariant
<1>5. CASE r \notin clash /\ Fault
  <2>1. faults' \in 0..MaxFaults /\ faults' > 0
    BY <1>1, <1>5, PresenterAssumption DEF TypeOK, Fault
  <2> QED BY <1>2, <1>3, <2>1, ThrowInvariant
<1> QED BY <1>4, <1>5 DEF QueryFails

\* A method throws before its first query, for an id that is none.
LEMMA ParseFailsInvariant ==
  ASSUME IInv, NEW r \in Routes, ParseFails(r)
  PROVE  IInv'
<1>1. TypeOK
  BY DEF IInv
<1>2. r \notin open /\ r \notin clash /\ pc[r] # "idle" /\ Throw(r)
  BY <1>1 DEF ParseFails, TypeOK
<1>3. UNCHANGED <<up, queue, open, clash, overlapped, cache, tokens, configs, logs, email,
                  held, changes, asked, faults>>
  BY DEF ParseFails, context, database
<1>4. Leaves(r)
  BY <1>2, <1>3 DEF Leaves
<1>5. Hopeless(asked[work[r]], tokens)
  BY DEF ParseFails, Hopeless, Arg
<1>6. faults' \in 0..MaxFaults /\ faults' = faults
  BY <1>1, <1>3 DEF TypeOK
<1> QED BY <1>2, <1>3, <1>4, <1>5, <1>6, ThrowInvariant

\* GetAdminClients is answered with all rows.
LEMMA FindClientsInvariant ==
  ASSUME IInv, FindClients
  PROVE  IInv'
<1>1. TypeOK /\ AskedOK /\ RoutedOK
  BY DEF IInv
<1>2. "clients" \in Routes /\ pc["clients"] # "idle"
  BY DEF FindClients, Routes
<1>3. PICK a : a = asked[work["clients"]]
  OBVIOUS
<1>4. /\ a.call.route = "clients" /\ a.rows \subseteq RowsIn(a.call, tokens, logs)
      /\ Arg("clients") = a.call.arg
  BY <1>1, <1>2, <1>3, WorkFacts DEF AskedOK, Arg
<1>5. PICK items : items = {m \in tokens : AdminOf[m] = a.call.arg}
  OBVIOUS
<1>6. items \subseteq Item
  BY <1>1, <1>5 DEF TypeOK, Item
<1>7. EndQuery("clients") /\ Reply("clients", items)
  BY <1>4, <1>5 DEF FindClients
<1>8. UNCHANGED <<up, queue, cache, tokens, configs, logs, email, held, changes, asked, faults>>
  BY DEF FindClients, database
<1>9. TrueList(a, items, tokens, logs)
  BY <1>4, <1>5, RowsCases DEF TrueList, ItemsIn
<1> QED BY <1>2, <1>3, <1>6, <1>7, <1>8, <1>9, ReplyInvariant

\* What the first query of r is about, once it is answered.
LEMMA FirstFacts ==
  ASSUME IInv, NEW r \in Routes, pc[r] # "idle", NEW a, a = asked[work[r]]
  PROVE  /\ a.call.route = r /\ a.rows \subseteq RowsIn(a.call, tokens, logs)
         /\ a.known => a.call.arg \in tokens
         /\ Arg(r) = a.call.arg
         /\ Owned(Arg(r)) = OwnedIn(tokens, a.call.arg)
         /\ OwnedIn(tokens, a.call.arg) \in SUBSET Meerkats
<1>1. TypeOK /\ AskedOK /\ RoutedOK
  BY DEF IInv
<1>2. Arg(r) = a.call.arg
  BY DEF Arg
<1>3. OwnedIn(tokens, a.call.arg) \in SUBSET Meerkats
  BY <1>1 DEF TypeOK, OwnedIn
<1> QED BY <1>1, <1>2, <1>3, WorkFacts, Bridge DEF AskedOK

\* The loops start with all tokens, of which nothing is in the response yet.
LEMMA FindTokensInvariant ==
  ASSUME IInv, FindTokens
  PROVE  IInv'
<1>1. "logs" \in Routes /\ pc["logs"] # "idle" /\ EndQuery("logs")
  BY DEF FindTokens, Routes
<1>2. PICK a : a = asked[work["logs"]]
  OBVIOUS
<1>3. PICK ms : ms = OwnedIn(tokens, a.call.arg)
  OBVIOUS
<1>4. PICK none \in SUBSET Item : none = {}
  OBVIOUS
<1>5. /\ a.call.route = "logs" /\ a.rows \subseteq RowsIn(a.call, tokens, logs)
      /\ ms \in SUBSET Meerkats /\ ms = Owned(Arg("logs"))
  BY <1>1, <1>2, <1>3, FirstFacts
<1>6. /\ Loop("logs", "logs", ms, none)
      /\ UNCHANGED <<up, queue, found, cache, database, asked, faults>>
  BY <1>4, <1>5 DEF FindTokens
<1>7. LogsAt("logs", a, ms, none, tokens, logs)
  <2>1. a.rows \subseteq {l \in logs : l.meerkat \in ms}
    BY <1>3, <1>5, RowsCases
  <2> QED BY <1>3, <1>4, <2>1 DEF LogsAt
<1> QED BY <1>1, <1>2, <1>5, <1>6, <1>7, LoopLogsInvariant

LEMMA FindMeerkatsInvariant ==
  ASSUME IInv, FindMeerkats
  PROVE  IInv'
<1>1. /\ "meerkatsbyuser" \in Routes /\ pc["meerkatsbyuser"] # "idle"
      /\ EndQuery("meerkatsbyuser")
  BY DEF FindMeerkats, Routes
<1>2. PICK a : a = asked[work["meerkatsbyuser"]]
  OBVIOUS
<1>3. PICK ms : ms = OwnedIn(tokens, a.call.arg)
  OBVIOUS
<1>4. PICK none \in SUBSET Item : none = {}
  OBVIOUS
<1>5. /\ a.call.route = "meerkatsbyuser" /\ a.rows \subseteq RowsIn(a.call, tokens, logs)
      /\ ms \in SUBSET Meerkats /\ ms = Owned(Arg("meerkatsbyuser"))
  BY <1>1, <1>2, <1>3, FirstFacts
<1>6. /\ Loop("meerkatsbyuser", "admin", ms, none) /\ found' = None
      /\ UNCHANGED <<up, queue, cache, database, asked, faults>>
  BY <1>4, <1>5 DEF FindMeerkats
<1>7. ByUserAt("admin", a, ms, none, None, tokens, held)
  BY <1>3, <1>4, <1>5, RowsCases DEF ByUserAt
<1> QED BY <1>1, <1>2, <1>5, <1>6, <1>7, LoopByUserInvariant

\* GetLogsForMeerkat goes on with the row that it found.
LEMMA FindMeerkatInvariant ==
  ASSUME IInv, FindMeerkat
  PROVE  IInv'
<1>1. TypeOK /\ HeldOK
  BY DEF IInv
<1>2. PICK r : r = "logsformeerkat"
  OBVIOUS
<1>3. r \in Routes /\ pc[r] # "idle" /\ EndQuery(r)
  BY <1>2 DEF FindMeerkat, Routes
<1>4. PICK a : a = asked[work[r]]
  OBVIOUS
<1>5. (a.known => a.call.arg \in tokens) /\ Arg(r) = a.call.arg
  BY <1>3, <1>4, FirstFacts
<1>6. PICK td : td = {Arg(r)} \cap tokens
  OBVIOUS
<1>7. /\ td \in SUBSET Meerkats /\ todo' = [todo EXCEPT ![r] = td]
      /\ pc' = [pc EXCEPT ![r] = "logs"]
  BY <1>1, <1>2, <1>6 DEF FindMeerkat, TypeOK
<1>8. UNCHANGED <<up, queue, work, found, list, cache, tokens, configs, logs, email, held,
                  changes, asked, answer, faults>>
  BY DEF FindMeerkat, database, gateway
<1>9. list[r] \in SUBSET Item /\ list' = [list EXCEPT ![r] = list[r]]
  BY <1>1, <1>3, <1>8 DEF TypeOK
<1>10. LogAt("logs", a, td)
  BY <1>5, <1>6 DEF LogAt
<1>11. MethodAt(r, "logs", asked[work[r]], td, list[r], found', tokens, logs, held)
  BY <1>2, <1>4, <1>10 DEF MethodAt
<1>12. /\ found' \in [meerkat : Meerkats, email : Emails \cup {None}] \cup {None}
       /\ cache' \in [Admins -> Emails \cup {None}]
  BY <1>1, <1>8 DEF TypeOK
<1>13. \A x \in Admins : cache'[x] # None => cache'[x] \in held[x]
  BY <1>1, <1>8 DEF HeldOK
<1> QED BY <1>2, <1>3, <1>7, <1>8, <1>9, <1>11, <1>12, <1>13, GoOnInvariant

\* The loop of GetLogsForUser moves a token's logs to the response.
LEMMA FindLogsInvariant ==
  ASSUME IInv, FindLogs
  PROVE  IInv'
<1>1. TypeOK /\ MethodsOK
  BY DEF IInv
<1>2. "logs" \in Routes /\ pc["logs"] = "logs" /\ EndQuery("logs")
  BY DEF FindLogs, Routes
<1>3. PICK a : a = asked[work["logs"]]
  OBVIOUS
<1>4. LogsAt("logs", a, todo["logs"], list["logs"], tokens, logs)
  BY <1>1, <1>2, <1>3 DEF MethodsOK, MethodAt
<1>5. PICK m \in todo["logs"] :
        Loop("logs", "logs", todo["logs"] \ {m}, list["logs"] \cup LogsOf(m))
  BY DEF FindLogs
<1>6. PICK ms, items : ms = todo["logs"] \ {m} /\ items = list["logs"] \cup LogsOf(m)
  OBVIOUS
<1>7. LogsOf(m) = {l \in logs : l.meerkat = m}
  BY Bridge
<1>8. ms \in SUBSET Meerkats /\ items \in SUBSET Item
  <2>1. todo["logs"] \subseteq Meerkats /\ list["logs"] \subseteq Item /\ logs \subseteq Log
    BY <1>1, <1>2 DEF TypeOK
  <2>2. LogsOf(m) \subseteq Item
    BY <1>7, <2>1 DEF Item
  <2> QED BY <1>6, <2>1, <2>2
<1>9. LogsAt("logs", a, ms, items, tokens, logs)
  BY <1>4, <1>6, <1>7 DEF LogsAt
<1>10. Loop("logs", "logs", ms, items)
  BY <1>5, <1>6
<1>11. UNCHANGED <<up, queue, found, cache, database, asked, faults>>
  BY DEF FindLogs
<1> QED BY <1>2, <1>3, <1>8, <1>9, <1>10, <1>11, LoopLogsInvariant

\* GetLogsForMeerkat replies with all rows, or throws for want of the token's.
LEMMA FindLogsForMeerkatInvariant ==
  ASSUME IInv, FindLogsForMeerkat
  PROVE  IInv'
<1>1. TypeOK /\ AskedOK /\ RoutedOK /\ MethodsOK
  BY DEF IInv
<1>2. PICK r : r = "logsformeerkat"
  OBVIOUS
<1>3. r \in Routes /\ pc[r] = "logs" /\ EndQuery(r)
  BY <1>2 DEF FindLogsForMeerkat, Routes
<1>4. PICK a : a = asked[work[r]]
  OBVIOUS
<1>5. /\ a.call.route = r /\ a.rows \subseteq RowsIn(a.call, tokens, logs)
      /\ Arg(r) = a.call.arg
  BY <1>1, <1>3, <1>4, WorkFacts DEF AskedOK, Arg
<1>6. LogAt("logs", a, todo[r])
  BY <1>1, <1>2, <1>3, <1>4 DEF MethodsOK, MethodAt
<1>7. PICK rows : rows = LogsOf(Arg(r))
  OBVIOUS
<1>8. rows = RowsIn(a.call, tokens, logs) /\ rows \in SUBSET Item
  <2>1. rows = {l \in logs : l.meerkat = a.call.arg} /\ logs \subseteq Log
    BY <1>1, <1>5, <1>7, Bridge DEF TypeOK
  <2>2. RowsIn(a.call, tokens, logs) = {l \in logs : l.meerkat = a.call.arg}
    BY <1>2, <1>5, RowsCases
  <2> QED BY <2>1, <2>2 DEF Item
<1>9. UNCHANGED <<up, queue, cache, tokens, configs, logs, email, held, changes, asked, faults>>
  BY DEF FindLogsForMeerkat, database
<1>10. CASE Reply(r, rows)
  <2>1. TrueList(a, rows, tokens, logs)
    BY <1>2, <1>5, <1>8 DEF TrueList, ItemsIn
  <2> QED BY <1>3, <1>4, <1>8, <1>9, <1>10, <2>1, ReplyInvariant
<1>11. CASE todo[r] = {} /\ Throw(r)
  <2>1. Hopeless(a, tokens)
    BY <1>2, <1>5, <1>6, <1>11 DEF Hopeless, LogAt
  <2>2. faults' \in 0..MaxFaults
    BY <1>1, <1>9 DEF TypeOK
  <2>3. Leaves(r)
    BY <1>1, <1>3, EndLeaves
  <2> QED BY <1>3, <1>4, <1>9, <1>11, <2>1, <2>2, <2>3, ThrowInvariant
<1> QED BY <1>2, <1>7, <1>10, <1>11 DEF FindLogsForMeerkat

\* What the context gives for an admin is an address it has had.
LEMMA SeenFacts ==
  ASSUME TypeOK, HeldOK
  PROVE  /\ \A a \in Admins : Seen(a) \in Emails /\ Seen(a) # None /\ Seen(a) \in held[a]
         /\ \A a : a \notin Admins => Seen(a) = None
  BY PresenterAssumption DEF TypeOK, HeldOK, Seen

\* MeerkatsByUser reads the admin of a token that is left.
LEMMA FindAdminInvariant ==
  ASSUME IInv, FindAdmin
  PROVE  IInv'
<1>1. TypeOK /\ HeldOK /\ MethodsOK
  BY DEF IInv
<1>2. PICK r : r = "meerkatsbyuser"
  OBVIOUS
<1>3. r \in Routes /\ pc[r] = "admin" /\ EndQuery(r)
  BY <1>2 DEF FindAdmin, Routes
<1>4. PICK a : a = asked[work[r]]
  OBVIOUS
<1>5. ByUserAt("admin", a, todo[r], list[r], found, tokens, held)
  BY <1>1, <1>2, <1>3, <1>4 DEF MethodsOK, MethodAt
<1>6. PICK m \in todo[r] :
        /\ found' = [meerkat |-> m, email |-> Seen(AdminOf[m])]
        /\ cache' = [x \in Admins |-> IF x = AdminOf[m] THEN Seen(x) ELSE cache[x]]
  BY <1>2 DEF FindAdmin
<1>7. todo[r] \in SUBSET Meerkats /\ list[r] \in SUBSET Item
  BY <1>1, <1>3 DEF TypeOK
<1>8. /\ found' \in [meerkat : todo[r], email : Emails \cup {None}]
      /\ HeldBy(found', held)
  <2>1. found'.meerkat = m /\ found'.email = Seen(AdminOf[m])
    BY <1>6
  <2>2. Seen(AdminOf[m]) \in Emails \cup {None}
    BY <1>1, SeenFacts
  <2>3. found' \in [meerkat : todo[r], email : Emails \cup {None}]
    BY <1>6, <2>2
  <2>4. HeldBy(found', held)
    BY <1>1, <2>1, SeenFacts DEF HeldBy
  <2> QED BY <2>3, <2>4
<1>9. MethodAt(r, "config", a, todo[r], list[r], found', tokens, logs, held)
  <2>1. ByUserAt("config", a, todo[r], list[r], found', tokens, held)
    BY <1>5, <1>8 DEF ByUserAt
  <2> QED BY <1>2, <2>1 DEF MethodAt
<1>10. /\ cache' \in [Admins -> Emails \cup {None}]
       /\ \A x \in Admins : cache'[x] # None => cache'[x] \in held[x]
  BY <1>1, <1>6, SeenFacts DEF TypeOK, HeldOK
<1>11. /\ pc' = [pc EXCEPT ![r] = "config"]
       /\ todo' = [todo EXCEPT ![r] = todo[r]] /\ list' = [list EXCEPT ![r] = list[r]]
  BY <1>1, <1>2 DEF FindAdmin, TypeOK
<1>12. UNCHANGED <<up, queue, work, tokens, configs, logs, email, held, changes, asked,
                   answer, faults>>
  BY DEF FindAdmin, database, gateway
<1>13. found' \in [meerkat : Meerkats, email : Emails \cup {None}] \cup {None}
  BY <1>7, <1>8
<1> QED BY <1>2, <1>3, <1>4, <1>7, <1>9, <1>10, <1>11, <1>12, <1>13, GoOnInvariant

\* What FindConfig finds: where the loop is, and what makes the meerkat whole.
LEMMA FindConfigFacts ==
  ASSUME IInv, FindConfig, NEW a, a = asked[work["meerkatsbyuser"]]
  PROVE  /\ pc["meerkatsbyuser"] = "config" /\ EndQuery("meerkatsbyuser")
         /\ ByUserAt("config", a, todo["meerkatsbyuser"], list["meerkatsbyuser"], found,
                     tokens, held)
         /\ a.call.route = "meerkatsbyuser"
<1>1. TypeOK /\ RoutedOK /\ MethodsOK
  BY DEF IInv
<1>2. "meerkatsbyuser" \in Routes /\ pc["meerkatsbyuser"] = "config"
      /\ EndQuery("meerkatsbyuser")
  BY DEF FindConfig, Routes
<1>3. a.call.route = "meerkatsbyuser"
  BY <1>1, <1>2, WorkFacts
<1>4. ByUserAt("config", a, todo["meerkatsbyuser"], list["meerkatsbyuser"], found,
               tokens, held)
  BY <1>1, <1>2 DEF MethodsOK, MethodAt
<1> QED BY <1>2, <1>3, <1>4

\* It moves to the response, with the address, or its admin is not known: a token
\* is never without its clientconfig.
LEMMA FindConfigInvariant ==
  ASSUME IInv, FindConfig
  PROVE  IInv'
<1>1. TypeOK /\ AskedOK
  BY DEF IInv
<1>2. PICK r : r = "meerkatsbyuser"
  OBVIOUS
<1>3. r \in Routes
  BY <1>2 DEF Routes
<1>4. PICK a : a = asked[work[r]]
  OBVIOUS
<1>5. /\ EndQuery(r) /\ a.call.route = r
      /\ ByUserAt("config", a, todo[r], list[r], found, tokens, held)
  BY <1>2, <1>4, FindConfigFacts
<1>6. /\ found.meerkat \in todo[r] /\ found.meerkat \in OwnedIn(tokens, a.call.arg)
      /\ found.meerkat \in Meerkats /\ found.meerkat \in tokens
      /\ found \in [meerkat : Meerkats, email : Emails \cup {None}]
      /\ HeldBy(found, held)
  <2>1. /\ found \in [meerkat : todo[r], email : Emails \cup {None}] /\ HeldBy(found, held)
        /\ todo[r] \subseteq OwnedIn(tokens, a.call.arg)
    BY <1>5 DEF ByUserAt
  <2>2. OwnedIn(tokens, a.call.arg) \subseteq tokens /\ tokens \subseteq Meerkats
    BY <1>1 DEF OwnedIn, TypeOK
  <2> QED BY <2>1, <2>2
<1>7. UNCHANGED <<up, queue, cache, database, asked, faults>>
  BY DEF FindConfig
<1>8. CASE /\ found.email # None
           /\ Loop(r, "admin", todo[r] \ {found.meerkat}, list[r] \cup {found})
           /\ found' = None
  <2>1. PICK ms, items : ms = todo[r] \ {found.meerkat} /\ items = list[r] \cup {found}
    OBVIOUS
  <2>2. found \in MeerkatInfo
    BY <1>6, <1>8 DEF MeerkatInfo
  <2>3. ms \in SUBSET Meerkats /\ items \in SUBSET Item
    BY <1>1, <1>3, <2>1, <2>2 DEF TypeOK, Item
  <2>4. ByUserAt("admin", a, ms, items, None, tokens, held)
    <3>1. ms \subseteq OwnedIn(tokens, a.call.arg)
      BY <1>5, <2>1 DEF ByUserAt
    <3>2. a.rows \subseteq {i.meerkat : i \in items} \cup ms
      <4>1. a.rows \subseteq {i.meerkat : i \in list[r]} \cup todo[r]
        BY <1>5 DEF ByUserAt
      <4> QED BY <2>1, <4>1
    <3>3. \A i \in items : /\ i \in MeerkatInfo
                           /\ i.meerkat \in OwnedIn(tokens, a.call.arg) /\ HeldBy(i, held)
      <4>1. \A i \in list[r] : /\ i \in MeerkatInfo
                               /\ i.meerkat \in OwnedIn(tokens, a.call.arg)
                               /\ HeldBy(i, held)
        BY <1>5 DEF ByUserAt
      <4> QED BY <1>6, <2>1, <2>2, <4>1
    <3> QED BY <3>1, <3>2, <3>3 DEF ByUserAt
  <2> QED BY <1>2, <1>4, <1>5, <1>7, <1>8, <2>1, <2>3, <2>4, LoopByUserInvariant
<1>9. CASE ~(found.email # None /\ found.meerkat \in configs) /\ Throw(r)
  <2>1. found.email = None
    BY <1>1, <1>6, <1>9 DEF AskedOK
  <2>2. AdminOf[found.meerkat] \notin Admins
    BY <1>6, <2>1 DEF HeldBy
  <2>3. Hopeless(a, tokens)
    BY <1>2, <1>5, <1>6, <2>2 DEF Hopeless
  <2>4. UNCHANGED <<up, queue, cache, tokens, configs, logs, email, held, changes, asked,
                    faults>>
    BY <1>7 DEF database
  <2>5. faults' \in 0..MaxFaults
    BY <1>1, <2>4 DEF TypeOK
  <2>6. Leaves(r)
    BY <1>1, <1>3, <1>5, EndLeaves
  <2> QED BY <1>3, <1>4, <1>9, <2>3, <2>4, <2>5, <2>6, ThrowInvariant
<1> QED BY <1>2, <1>8, <1>9 DEF FindConfig

\* The presenter starts with nothing tracked and no method under way.
LEMMA StartInvariant ==
  ASSUME IInv, Start
  PROVE  IInv'
<1>1. /\ TypeOK /\ UpOK /\ HeldOK /\ AskedOK /\ RoutedOK /\ PcOK /\ MethodsOK /\ ClashOK
      /\ AnswersOK
  BY DEF IInv
<1>2. /\ ~up /\ up' = TRUE /\ held' = [a \in Admins |-> {email[a]}]
      /\ UNCHANGED <<queue, work, pc, todo, found, list, open, clash, overlapped, cache,
                     tokens, configs, logs, email, changes, asked, answer, faults>>
  BY DEF Start, handler, context, gateway
<1>3. /\ \A r \in Routes : pc[r] = "idle"
      /\ \A a \in Admins : cache[a] = None
  BY <1>1, <1>2 DEF UpOK
<1>4. TypeOK'
  <2>1. held' \in [Admins -> SUBSET Emails]
    BY <1>1, <1>2 DEF TypeOK
  <2>2. up' \in BOOLEAN
    BY <1>2
  <2> QED BY <1>1, <1>2, <2>1, <2>2 DEF TypeOK
<1>5. UpOK' /\ AskedOK' /\ RoutedOK' /\ PcOK' /\ ClashOK'
  BY <1>1, <1>2 DEF UpOK, AskedOK, RoutedOK, PcOK, ClashOK
<1>6. HeldOK'
  BY <1>2, <1>3 DEF HeldOK
<1>7. MethodsOK'
  BY <1>2, <1>3, MethodFirst DEF MethodsOK
<1>8. AnswersOK'
  BY <1>1, <1>2, AnswersKept
<1> QED BY <1>4, <1>5, <1>6, <1>7, <1>8 DEF IInv

\* It stops in the middle of anything.
LEMMA CrashInvariant ==
  ASSUME IInv, Crash
  PROVE  IInv'
<1>1. /\ TypeOK /\ UpOK /\ HeldOK /\ AskedOK /\ RoutedOK /\ PcOK /\ MethodsOK /\ ClashOK
      /\ AnswersOK
  BY DEF IInv
<1>2. UNCHANGED <<overlapped, tokens, configs, logs, email, held, changes, asked, answer>>
  BY DEF Crash, database, gateway
<1>3. /\ up' = FALSE /\ queue' = [r \in Routes |-> <<>>]
      /\ work' = [r \in Routes |-> None] /\ pc' = [r \in Routes |-> "idle"]
      /\ todo' = [r \in Routes |-> {}] /\ list' = [r \in Routes |-> {}] /\ found' = None
      /\ open' = {} /\ clash' = {} /\ cache' = [a \in Admins |-> None]
  BY DEF Crash, Stop
<1>4. faults' \in 0..MaxFaults /\ faults' > 0
  BY <1>1, PresenterAssumption DEF Crash, Fault, TypeOK
<1>5. \A r \in Routes : queue'[r] = <<>> /\ work'[r] = None /\ pc'[r] = "idle"
  BY <1>3
<1>6. TypeOK'
  <2>1. queue' \in [Routes -> Seq(Requests)]
    BY <1>3, EmptySeq
  <2>2. /\ work' \in [Routes -> Requests \cup {None}] /\ todo' \in [Routes -> SUBSET Meerkats]
        /\ list' \in [Routes -> SUBSET Item] /\ cache' \in [Admins -> Emails \cup {None}]
        /\ pc' \in [Routes -> {"idle", "tokens", "logs", "admin", "config"}]
    BY <1>3
  <2> QED BY <1>1, <1>2, <1>3, <1>4, <1>5, <2>1, <2>2 DEF TypeOK
<1>7. UpOK' /\ HeldOK' /\ ClashOK'
  BY <1>1, <1>2, <1>3, <1>5 DEF UpOK, HeldOK, ClashOK
<1>8. AskedOK'
  BY <1>1, <1>2 DEF AskedOK
<1>9. RoutedOK'
  <2>1. \A r \in Routes : DOMAIN queue'[r] = {}
    BY <1>5, EmptySeq
  <2> QED BY <1>1, <1>2, <1>5, <2>1 DEF RoutedOK
<1>10. PcOK' /\ MethodsOK'
  BY <1>5, MethodFirst DEF PcOK, MethodsOK, Routes
<1>11. AnswersOK'
  BY <1>1, <1>2, <1>4, AnswersKept
<1> QED BY <1>6, <1>7, <1>8, <1>9, <1>10, <1>11 DEF IInv

\* Every step keeps the invariant.
LEMMA NextInvariant == IInv /\ [Next]_vars => IInv'
<1> SUFFICES ASSUME IInv, [Next]_vars PROVE IInv'
  OBVIOUS
<1>1. CASE \E q \in Requests, c \in Calls : Send(q, c)
  BY <1>1, SendInvariant
<1>2. ASSUME NEW r \in Routes, Take(r) \/ ParseFails(r) \/ BeginQuery(r) \/ QueryFails(r)
      PROVE  IInv'
  BY <1>2, TakeInvariant, ParseFailsInvariant, BeginQueryInvariant, QueryFailsInvariant
<1>3. CASE \/ FindTokens \/ FindLogs \/ FindMeerkat \/ FindLogsForMeerkat
           \/ FindClients \/ FindMeerkats \/ FindAdmin \/ FindConfig
  BY <1>3, FindTokensInvariant, FindLogsInvariant, FindMeerkatInvariant,
     FindLogsForMeerkatInvariant, FindClientsInvariant, FindMeerkatsInvariant,
     FindAdminInvariant, FindConfigInvariant
<1>4. CASE \/ \E m \in Meerkats : Create(m)
           \/ \E m \in tokens \cup Unlisted : Put(m)
           \/ \E a \in Admins : ChangeAdminConfig(a)
  BY <1>4, StoredInvariant
<1>5. CASE Start \/ Crash
  BY <1>5, StartInvariant, CrashInvariant
<1>6. CASE UNCHANGED vars
  BY <1>6 DEF vars, handler, context, database, gateway, IInv, TypeOK, UpOK, HeldOK, AskedOK,
     RoutedOK, PcOK, MethodsOK, ClashOK, AnswersOK
<1> QED BY <1>1, <1>2, <1>3, <1>4, <1>5, <1>6 DEF Next
-----------------------------------------------------------------------------
(* The theorems. *)

\* The invariant holds in every state of every behaviour, for any number of
\* requests, meerkats and admins.
THEOREM Invariance == Spec => []IInv
<1>1. Init => IInv
  BY InitInvariant
<1>2. IInv /\ [Next]_vars => IInv'
  BY NextInvariant
<1> QED BY <1>1, <1>2, PTL DEF Spec

\* Every variable keeps its type.
THEOREM PresenterTypeOK == Spec => []TypeOK
<1>1. IInv => TypeOK
  BY DEF IInv
<1> QED BY <1>1, Invariance, PTL

\* A list that is shown leaves out nothing that was stored when it was asked
\* for and holds nothing that is not stored.
THEOREM PresenterListTrue == Spec => []ListTrue
<1>1. IInv => ListTrue
  <2> SUFFICES ASSUME IInv, NEW q \in Requests, answer[q] # None, answer[q].status = 200
               PROVE  asked[q].rows \subseteq Items(q) /\ Items(q) \subseteq Rows(asked[q].call)
    BY DEF ListTrue
  <2>1. TrueList(asked[q], answer[q].list, tokens, logs)
    BY DEF IInv, AnswersOK
  <2>2. Items(q) = ItemsIn(asked[q].call, answer[q].list)
    BY DEF Items, ItemsIn
  <2>3. Rows(asked[q].call) = RowsIn(asked[q].call, tokens, logs)
    BY Bridge
  <2> QED BY <2>1, <2>2, <2>3 DEF TrueList
<1> QED BY <1>1, Invariance, PTL

\* A request fails only for data that cannot be listed, for a fault, or because
\* one of its queries ran at the same time as another request's; never for a
\* clientconfig that is missing.
THEOREM PresenterFailedForAReason == Spec => []FailedForAReason
<1>1. IInv => FailedForAReason
  <2> SUFFICES ASSUME IInv, NEW q \in Requests, answer[q] # None, answer[q].status = 500
               PROVE  faults > 0 \/ q \in overlapped \/ Unlistable(q)
    BY DEF FailedForAReason
  <2>1. faults > 0 \/ q \in overlapped \/ Hopeless(asked[q], tokens)
    BY DEF IInv, AnswersOK
  <2>2. Hopeless(asked[q], tokens) => Unlistable(q)
    BY Bridge DEF Hopeless, Unlistable
  <2> QED BY <2>1, <2>2
<1> QED BY <1>1, Invariance, PTL

\* An answer that changes is that of the request its route works on.
LEMMA ChangedIsWork ==
  ASSUME IInv, NEW r \in Routes, pc[r] # "idle", NEW x,
         answer' = [answer EXCEPT ![work[r]] = x],
         NEW q \in Requests, answer'[q] # answer[q]
  PROVE  q = work[r] /\ asked[q].call.route = r /\ answer'[q] = x
<1>1. TypeOK /\ RoutedOK
  BY DEF IInv
<1>3. work[r] \in Requests /\ asked[work[r]].call.route = r
  BY <1>1, WorkFacts
<1> QED BY <1>1, <1>3 DEF TypeOK

\* A list of meerkats comes from the loop of MeerkatsByUser, the items of which
\* have their address from the tracked or the stored row.
LEMMA ShownIsHeld ==
  ASSUME IInv, [Next]_vars, NEW q \in Requests, answer'[q] # answer[q],
         asked[q].call.route = "meerkatsbyuser"
  PROVE  \A i \in answer'[q].list : i.email \in held[AdminOf[i.meerkat]]
<1>1. TypeOK
  BY DEF IInv
<1>2. ASSUME NEW r \in Routes, pc[r] # "idle", Throw(r)
      PROVE  answer'[q].list = {}
  <2>1. PICK x : x = [status |-> 500, list |-> {}]
    OBVIOUS
  <2>2. answer' = [answer EXCEPT ![work[r]] = x]
    BY <1>2, <2>1 DEF Throw
  <2>3. answer'[q] = x
    BY <1>2, <2>2, ChangedIsWork
  <2> QED BY <2>1, <2>3
<1>3. ASSUME NEW r \in Routes, pc[r] # "idle", NEW items, Reply(r, items)
      PROVE  r = "meerkatsbyuser" /\ answer'[q].list = items
  <2>1. PICK x : x = [status |-> 200, list |-> items]
    OBVIOUS
  <2>2. answer' = [answer EXCEPT ![work[r]] = x]
    BY <1>3, <2>1 DEF Reply
  <2>3. answer'[q] = x /\ asked[q].call.route = r
    BY <1>3, <2>2, ChangedIsWork
  <2> QED BY <2>1, <2>3
<1>4. ASSUME NEW r \in Routes, pc[r] # "idle", NEW next, NEW ms, NEW items,
             Loop(r, next, ms, items)
      PROVE  r = "meerkatsbyuser" /\ answer'[q].list = items
  <2>1. Reply(r, items)
    BY <1>4 DEF Loop
  <2> QED BY <1>3, <1>4, <2>1
<1>5. CASE \E r \in Routes : ParseFails(r) \/ QueryFails(r)
  <2>1. PICK r \in Routes : pc[r] # "idle" /\ Throw(r)
    BY <1>1, <1>5 DEF ParseFails, QueryFails, EndQuery, TypeOK
  <2> QED BY <1>2, <2>1
<1>6. CASE FindTokens \/ FindMeerkats
  <2>1. PICK none : none = {}
    OBVIOUS
  <2>2. PICK r, next, ms : r \in Routes /\ pc[r] # "idle" /\ Loop(r, next, ms, none)
    BY <1>6, <2>1 DEF FindTokens, FindMeerkats, Routes
  <2>3. answer'[q].list = none
    BY <1>4, <2>2
  <2> QED BY <2>1, <2>3
<1>7. CASE FindClients
  <2>1. "clients" \in Routes /\ pc["clients"] # "idle"
    BY <1>7 DEF FindClients, Routes
  <2>2. PICK items : Reply("clients", items)
    BY <1>7 DEF FindClients
  <2> QED BY <1>3, <2>1, <2>2
<1>8. CASE FindLogs
  <2>1. "logs" \in Routes /\ pc["logs"] # "idle"
    BY <1>8 DEF FindLogs, Routes
  <2>2. PICK ms, items : Loop("logs", "logs", ms, items)
    BY <1>8 DEF FindLogs
  <2> QED BY <1>4, <2>1, <2>2
<1>9. CASE FindLogsForMeerkat
  <2>1. "logsformeerkat" \in Routes /\ pc["logsformeerkat"] # "idle"
    BY <1>9 DEF FindLogsForMeerkat, Routes
  <2>2. CASE \E items : Reply("logsformeerkat", items)
    BY <1>3, <2>1, <2>2
  <2>3. CASE Throw("logsformeerkat")
    BY <1>2, <2>1, <2>3
  <2> QED BY <1>9, <2>2, <2>3 DEF FindLogsForMeerkat
<1>10. CASE FindConfig
  <2>1. PICK r : r = "meerkatsbyuser"
    OBVIOUS
  <2>2. r \in Routes /\ pc[r] # "idle"
    BY <1>10, <2>1 DEF FindConfig, Routes
  <2>3. PICK a : a = asked[work[r]]
    OBVIOUS
  <2>4. ByUserAt("config", a, todo[r], list[r], found, tokens, held)
    BY <1>10, <2>1, <2>3, FindConfigFacts
  <2>5. PICK items : items = list[r] \cup {found}
    OBVIOUS
  <2>6. CASE found.email # None /\ Loop(r, "admin", todo[r] \ {found.meerkat}, items)
    <3>1. answer'[q].list = items
      BY <1>4, <2>2, <2>6
    <3>2. \A i \in list[r] : i.email # None /\ HeldBy(i, held)
      BY <2>4, PresenterAssumption DEF ByUserAt, MeerkatInfo
    <3>3. found.email # None /\ HeldBy(found, held)
      BY <2>4, <2>6 DEF ByUserAt
    <3>4. \A i \in items : i.email \in held[AdminOf[i.meerkat]]
      BY <2>5, <3>2, <3>3 DEF HeldBy
    <3> QED BY <3>1, <3>4
  <2>7. CASE Throw(r)
    BY <1>2, <2>2, <2>7
  <2> QED BY <1>10, <2>1, <2>5, <2>6, <2>7 DEF FindConfig
<1>11. CASE UNCHANGED answer
  BY <1>11
<1>12. \/ \E r \in Routes : ParseFails(r) \/ QueryFails(r)
       \/ FindTokens \/ FindMeerkats
       \/ FindClients \/ FindLogs \/ FindLogsForMeerkat \/ FindConfig
       \/ UNCHANGED answer
  BY DEF Next, Send, Take, BeginQuery, FindMeerkat, FindAdmin, Create, Put, ChangeAdminConfig, Start, Crash,
     gateway, vars
<1> QED BY <1>5, <1>6, <1>7, <1>8, <1>9, <1>10, <1>11, <1>12

\* The address shown for an admin is one it has had since the presenter's start.
THEOREM PresenterEmailHeld == Spec => EmailHeld
<1>1. IInv /\ [Next]_vars =>
        [\A q \in Requests :
            answer'[q] # answer[q] /\ asked[q].call.route = "meerkatsbyuser" =>
                \A i \in answer'[q].list : i.email \in held[AdminOf[i.meerkat]]]_vars
  BY ShownIsHeld
<1> QED BY <1>1, Invariance, PTL DEF Spec, EmailHeld
=============================================================================

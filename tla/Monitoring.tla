----------------------------- MODULE Monitoring -----------------------------
(***************************************************************************)
(* From a reading to an alert.  An agent (VigilantMeerkat.Micro.Meerkat)   *)
(* reports a reading to central.put, which stores it through the one       *)
(* AppDbContext of its process and tells notifier.notify, one-way; the     *)
(* notifier looks up who administers the agent and asks the e-mail or the  *)
(* SMS service to send.  A call is what module Amqp shows it to be: handed *)
(* to its route at most once, lost with the queue of the route, never      *)
(* answered with somebody else's reply.  PostgreSQL, Redis and SMTP are    *)
(* external.                                                               *)
(***************************************************************************)
EXTENDS Integers, Sequences

CONSTANTS
    Tokens,      \* the agents, each by its token
    Stock,       \* those that run MeerkatService; the others are like the
                 \* tests, which call central.put with any type
    Registered,  \* the tokens with rows in token, clientconfig, adminconfig
    Admins,      \* the rows of adminconfig
    AdminOf,     \* [Registered -> Admins], token.AdminId
    Types,       \* the types the other agents send
    Cpus,        \* the values of the CPU counter
    Addresses,   \* the values of adminconfig.Email
    MaxReadings, \* bound on the reports of one agent
    MaxChanges,  \* bound on the changes of an admin's configuration
    MaxFaults,   \* bound on the crashes, failed saves and Redis losses
    None

ASSUME MonitoringAssumption ==
    /\ Stock \subseteq Tokens /\ Registered \subseteq Tokens
    /\ AdminOf \in [Registered -> Admins]
    /\ Cpus \subseteq 0..99
    /\ MaxReadings \in Nat /\ MaxChanges \in Nat /\ MaxFaults \in Nat

-----------------------------------------------------------------------------
(* Levels. *)

\* Mutant: the tests of ProvideData in the other order.
ProvideDataErrorFirst(cpu) ==
    IF cpu > 75 THEN "ERROR" ELSE IF cpu > 50 THEN "WARN" ELSE "LOG"

\* The type of a reading: the branch for ERROR is behind the one for WARN.
ProvideData(cpu) ==
    IF cpu > 50 THEN "WARN" ELSE IF cpu > 75 THEN "ERROR" ELSE "LOG"

\* List.IndexOf: -1 for a level that is not listed.
IndexOf(level) ==
    LET levels == <<"LOG", "WARN", "ERROR">>
    IN IF level \in {levels[i] : i \in DOMAIN levels}
       THEN (CHOOSE i \in DOMAIN levels : levels[i] = level) - 1
       ELSE -1

\* Mutant: the arguments swapped.
CanSendSwapped(current, setting) == IndexOf(setting) >= IndexOf(current)

CanSend(current, setting) == IndexOf(current) >= IndexOf(setting)

\* The TriggerLevel of every clientconfig row, which nothing changes.
TriggerLevel == "ERROR"

AllTypes == Types \cup {"LOG", "WARN", "ERROR"}
Reading == [token : Tokens, n : 1..MaxReadings, type : AllTypes]
AdminConfig == [kind : {"EMAIL", "SMS"}, email : Addresses]
Alert == [reading : Reading, to : Addresses]

ASSUME NoneAssumption == None \notin Reading \cup AdminConfig

Senders == {"emailnotifier", "smsnotifier"}
Services == {"central", "notifier"} \cup Senders

VARIABLES
    up,      \* the services whose process runs, their queues declared
    queue,   \* [Services -> Seq], what the service still has to handle
    waiting, \* [Tokens -> Reading \cup {None}], the agent's call in Take()
    count,   \* [Tokens -> Nat], the agent's reports so far
    work,    \* the reading Put is storing, or None
    stage,   \* how far Put is with it
    pending, \* the Log entities central's context holds as Added
    log,     \* the table log
    redis,   \* the tokens authorization.verify finds
    config,  \* the table adminconfig
    cache,   \* the AdminConfig entities the notifier's context tracks
    sent,    \* the alerts sent, in order
    submitted, \* history: the readings reported
    acked,   \* history: the readings whose agent was answered `true`
    held,    \* history: the configurations since the notifier's start
    changes, \* changes of config so far
    faults   \* faults so far

storing == <<work, stage, pending, log>>
administration == <<config, held, changes>>
agents == <<waiting, count, submitted, acked>>
vars == <<up, queue, agents, storing, redis, administration, cache, sent, faults>>

TypeOK ==
    /\ up \subseteq Services
    /\ queue \in [Services -> Seq(Reading \cup Alert)]
    /\ \A s \in {"central", "notifier"} : queue[s] \in Seq(Reading)
    /\ \A s \in Senders : queue[s] \in Seq(Alert)
    /\ waiting \in [Tokens -> Reading \cup {None}]
    /\ count \in [Tokens -> 0..MaxReadings]
    /\ stage \in {"idle", "save", "saved", "notified"}
    /\ stage = "idle" <=> work = None
    /\ stage = "save" => work \in pending
    /\ work \in Reading \cup {None}
    /\ pending \subseteq Reading /\ log \subseteq Reading
    /\ redis \subseteq Tokens
    /\ config \in [Admins -> AdminConfig]
    /\ cache \in [Admins -> AdminConfig \cup {None}]
    /\ sent \in Seq(Alert)
    /\ submitted \subseteq Reading /\ acked \subseteq Reading
    /\ held \in [Admins -> SUBSET AdminConfig]
    /\ changes \in 0..MaxChanges /\ faults \in 0..MaxFaults

Init ==
    /\ up = {}
    /\ queue = [s \in Services |-> <<>>]
    /\ waiting = [t \in Tokens |-> None]
    /\ count = [t \in Tokens |-> 0]
    /\ work = None /\ stage = "idle" /\ pending = {} /\ log = {}
    /\ redis = Tokens
    /\ config \in [Admins -> AdminConfig]
    /\ cache = [a \in Admins |-> None]
    /\ sent = <<>> /\ submitted = {} /\ acked = {}
    /\ held = [a \in Admins |-> {config[a]}]
    /\ changes = 0 /\ faults = 0

Fault == faults < MaxFaults /\ faults' = faults + 1

\* Amqp.Call: a message for a service that is down is dropped.
Publish(s, m) ==
    queue' = IF s \in up THEN [queue EXCEPT ![s] = Append(@, m)] ELSE queue

Consume(s) ==
    /\ s \in up
    /\ queue[s] # <<>>

Rest(s) == [queue EXCEPT ![s] = Tail(@)]
-----------------------------------------------------------------------------
(* The agent. *)

Report(t) ==
    /\ waiting[t] = None
    /\ count[t] < MaxReadings
    /\ \E type \in IF t \in Stock THEN {ProvideData(cpu) : cpu \in Cpus} ELSE Types :
          LET r == [token |-> t, n |-> count[t] + 1, type |-> type]
          IN /\ waiting' = [waiting EXCEPT ![t] = r]
             /\ submitted' = submitted \cup {r}
             /\ Publish("central", r)
    /\ count' = [count EXCEPT ![t] = @ + 1]
    /\ UNCHANGED <<up, acked, storing, redis, administration, cache, sent, faults>>

\* The agent ignores what it is answered; it only stops waiting.
Answered(r) ==
    waiting' = [t \in Tokens |-> IF waiting[t] = r THEN None ELSE waiting[t]]
-----------------------------------------------------------------------------
(* CentralMicroservice.Put. *)

\* The head of the queue is answered with a failure, and nothing else happens.
Dismiss ==
    /\ Consume("central")
    /\ stage = "idle"
    /\ queue' = Rest("central")
    /\ Answered(Head(queue["central"]))
    /\ UNCHANGED <<up, count, submitted, acked, storing, redis, administration, cache, sent, faults>>

\* authorization.verify does not find the token.
Refuse == Dismiss /\ Head(queue["central"]).token \notin redis

\* The entity cannot be built: Cpu or Ram is no number, or there is no
\* Timestamp.  MeerkatService always sends all of them.
BadData == Dismiss /\ Head(queue["central"]).token \in redis \ Stock

\* Verified: the new entity is added to the context.
Add ==
    /\ Consume("central")
    /\ stage = "idle"
    /\ Head(queue["central"]).token \in redis
    /\ queue' = Rest("central")
    /\ work' = Head(queue["central"])
    /\ stage' = "save"
    /\ pending' = pending \cup {work'}
    /\ UNCHANGED <<up, agents, log, redis, administration, cache, sent, faults>>

\* An entity that is in the table already and is Added again.
Poisoned == pending \cap log # {}

\* Mutant: rows that exist already are skipped instead of failing the save.
SaveIgnoringDuplicates ==
    /\ stage = "save"
    /\ log' = log \cup pending
    /\ pending' = {}
    /\ stage' = "saved"
    /\ UNCHANGED <<up, queue, agents, work, redis, administration, cache, sent, faults>>

\* SaveChangesAsync inserts all that is pending in one transaction.
Save ==
    /\ stage = "save"
    /\ ~Poisoned
    /\ log' = log \cup pending
    /\ pending' = {}
    /\ stage' = "saved"
    /\ UNCHANGED <<up, queue, agents, work, redis, administration, cache, sent, faults>>

\* Mutant: the result of SaveChangesAsync is not awaited.
SaveUnawaited ==
    /\ stage = "save"
    /\ \/ Poisoned /\ UNCHANGED <<log, faults>>
       \/ ~Poisoned /\ Fault /\ log' \in {log, log \cup pending}
    /\ stage' = "saved"
    /\ UNCHANGED <<up, queue, agents, work, pending, redis, administration, cache, sent>>

\* Mutant: Put returns without leaving its request.
SaveFailsHalfway ==
    /\ stage = "save"
    /\ \/ Poisoned /\ UNCHANGED <<log, faults>>
       \/ ~Poisoned /\ Fault /\ log' \in {log, log \cup pending}
    /\ stage' = "idle"
    /\ Answered(work)
    /\ UNCHANGED <<up, queue, count, submitted, acked, work, pending, redis, administration, cache, sent>>

\* It throws: on a duplicate key, or with a connection that fails before or
\* after the commit.  The entities stay Added, and the call is answered with
\* a failure.
SaveFails ==
    /\ stage = "save"
    /\ \/ Poisoned /\ UNCHANGED <<log, faults>>
       \/ ~Poisoned /\ Fault /\ log' \in {log, log \cup pending}
    /\ stage' = "idle" /\ work' = None
    /\ Answered(work)
    /\ UNCHANGED <<up, queue, count, submitted, acked, pending, redis, administration, cache, sent>>

NotifyNotifier ==
    /\ stage = "saved"
    /\ Publish("notifier", work)
    /\ stage' = "notified"
    /\ UNCHANGED <<up, agents, work, pending, log, redis, administration, cache, sent, faults>>

Return ==
    /\ stage = "notified"
    /\ acked' = acked \cup {r \in {work} : waiting[r.token] = r}
    /\ Answered(work)
    /\ stage' = "idle" /\ work' = None
    /\ UNCHANGED <<up, queue, count, submitted, pending, log, redis, administration, cache, sent, faults>>
-----------------------------------------------------------------------------
(* NotifierMicroservice.Notify and the senders. *)

\* FirstOrDefault returns the entity the context tracks already, if any,
\* with the values it had when it was first read.
Seen(a) == IF cache[a] # None THEN cache[a] ELSE config[a]

\* Mutant: without the `else` in front of the second `if`.
NotifyWithoutElse ==
    /\ Consume("notifier")
    /\ LET r == Head(queue["notifier"])
           a == AdminOf[r.token]
           alert == [reading |-> r, to |-> Seen(a).email]
       IN /\ r.token \in Registered
          /\ cache' = [cache EXCEPT ![a] = Seen(a)]
          /\ queue' = [s \in Services |->
                IF s = "notifier" THEN Tail(queue[s])
                ELSE IF /\ s \in up \cap Senders /\ CanSend(r.type, TriggerLevel)
                        /\ s = "emailnotifier" => Seen(a).kind = "EMAIL"
                     THEN Append(queue[s], alert) ELSE queue[s]]
    /\ UNCHANGED <<up, agents, storing, redis, administration, sent, faults>>

\* Mutant: the branch for the SMS service is missing.
NotifyEmailOnly ==
    /\ Consume("notifier")
    /\ LET r == Head(queue["notifier"])
           a == AdminOf[r.token]
           alert == [reading |-> r, to |-> Seen(a).email]
       IN /\ r.token \in Registered
          /\ cache' = [cache EXCEPT ![a] = Seen(a)]
          /\ queue' = IF /\ Seen(a).kind = "EMAIL" /\ "emailnotifier" \in up
                         /\ CanSend(r.type, TriggerLevel)
                      THEN [Rest("notifier") EXCEPT !["emailnotifier"] = Append(@, alert)]
                      ELSE Rest("notifier")
    /\ UNCHANGED <<up, agents, storing, redis, administration, sent, faults>>

Notify ==
    /\ Consume("notifier")
    /\ LET r == Head(queue["notifier"])
           a == AdminOf[r.token]
           to == IF Seen(a).kind = "EMAIL" THEN "emailnotifier" ELSE "smsnotifier"
           alert == [reading |-> r, to |-> Seen(a).email]
       IN /\ r.token \in Registered
          /\ cache' = [cache EXCEPT ![a] = Seen(a)]
          /\ queue' = IF to \in up /\ CanSend(r.type, TriggerLevel)
                      THEN [Rest("notifier") EXCEPT ![to] = Append(@, alert)]
                      ELSE Rest("notifier")
    /\ UNCHANGED <<up, agents, storing, redis, administration, sent, faults>>

\* SmtpClient.Send, or the line the SMS service writes instead of sending.
Send(s) ==
    /\ Consume(s)
    /\ sent' = Append(sent, Head(queue[s]))
    /\ queue' = Rest(s)
    /\ UNCHANGED <<up, agents, storing, redis, administration, cache, faults>>
-----------------------------------------------------------------------------
(* The account service's ChangeAdminConfig, as far as it is stored. *)

ChangeAdminConfig(a) ==
    /\ changes < MaxChanges
    /\ \E c \in AdminConfig :
          /\ config' = [config EXCEPT ![a] = c]
          /\ held' = [held EXCEPT ![a] = @ \cup {c}]
    /\ changes' = changes + 1
    /\ UNCHANGED <<up, queue, agents, storing, redis, cache, sent, faults>>
-----------------------------------------------------------------------------
(* Processes. *)

Start(s) ==
    /\ s \in Services \ up
    /\ up' = up \cup {s}
    /\ held' = IF s = "notifier" THEN [a \in Admins |-> {config[a]}] ELSE held
    /\ UNCHANGED <<queue, agents, storing, redis, config, changes, cache, sent, faults>>

\* Mutant: what the notifier has read is kept outside its process.
StopKeepingCache(s) ==
    /\ up' = up \ {s}
    /\ queue' = [queue EXCEPT ![s] = <<>>]
    /\ IF s = "central"
       THEN work' = None /\ stage' = "idle" /\ pending' = {} /\ UNCHANGED log
       ELSE UNCHANGED storing
    /\ UNCHANGED <<cache, agents, redis, administration, sent>>

\* A process ends: its queue, its context and its work are gone.
Stop(s) ==
    /\ up' = up \ {s}
    /\ queue' = [queue EXCEPT ![s] = <<>>]
    /\ IF s = "central"
       THEN work' = None /\ stage' = "idle" /\ pending' = {} /\ UNCHANGED log
       ELSE UNCHANGED storing
    /\ cache' = IF s = "notifier" THEN [a \in Admins |-> None] ELSE cache
    /\ UNCHANGED <<agents, redis, administration, sent>>

\* Killed, or an exception of a handler that is `async void`.
Crash(s) == Fault /\ s \in up /\ Stop(s)

\* There is no row for the token: tokenInfo is null, Notify throws, and being
\* `async void` takes the process of the notifier with it.
NotifyUnregistered ==
    /\ Consume("notifier")
    /\ Head(queue["notifier"]).token \notin Registered
    /\ Stop("notifier")
    /\ UNCHANGED faults

AgentRestart(t) ==
    /\ Fault
    /\ waiting[t] # None
    /\ waiting' = [waiting EXCEPT ![t] = None]
    /\ UNCHANGED <<up, queue, count, submitted, acked, storing, redis, administration, cache, sent>>

RedisLoss ==
    /\ Fault
    /\ redis # {}
    /\ redis' = {}
    /\ UNCHANGED <<up, queue, agents, storing, administration, cache, sent>>
-----------------------------------------------------------------------------
Put == Refuse \/ BadData \/ Add \/ Save \/ SaveFails \/ NotifyNotifier \/ Return

Next ==
    \/ \E t \in Tokens : Report(t) \/ AgentRestart(t)
    \/ Put \/ Notify \/ NotifyUnregistered
    \/ \E s \in Senders : Send(s)
    \/ \E s \in Services : Start(s) \/ Crash(s)
    \/ \E a \in Admins : ChangeAdminConfig(a)
    \/ RedisLoss

Spec == Init /\ [][Next]_vars

(***************************************************************************)
(* Processes are started and their consumers run; nobody is obliged to     *)
(* report, to change a configuration or to fail.                           *)
(***************************************************************************)
Fairness ==
    /\ WF_vars(Put) /\ WF_vars(Notify \/ NotifyUnregistered)
    /\ \A s \in Senders : WF_vars(Send(s))
    /\ \A s \in Services : WF_vars(Start(s))

FairSpec == Spec /\ Fairness
-----------------------------------------------------------------------------
(* What monitoring guarantees. *)

\* A reading the agent was told of as stored is in the table, although saves
\* fail, the reply to a commit gets lost and the context is left half-way.
AckedIsLogged == acked \subseteq log

\* A save whose outcome was lost leaves central unable to store or to accept
\* anything until its process ends: the context is never replaced
\* (MicroOptions.UseDbContext), and inserts the stored row again and again.
PoisonedRejects ==
    [][Poisoned /\ "central" \in up' =>
          Poisoned' /\ log' = log /\ acked' = acked]_vars

\* No reading is alerted of twice, by either sender, whatever restarts.
AlertedOnce ==
    \A i, j \in DOMAIN sent : sent[i].reading = sent[j].reading => i = j

\* The address and the sender of a new alert are those of a configuration
\* its admin has had since the notifier was started: the tracked entities
\* are as stale as the process is old, and no staler.
AddressHeld ==
    [][\A s \in Senders : Len(queue'[s]) > Len(queue[s]) =>
          LET alert == queue'[s][Len(queue'[s])]
          IN \E c \in held[AdminOf[alert.reading.token]] :
                /\ alert.to = c.email
                /\ (s = "emailnotifier") = (c.kind = "EMAIL")]_vars

\* As shipped, no agent ever causes an alert: its readings never reach the
\* level every client is configured with.
StockAgentSilent == \A i \in DOMAIN sent : sent[i].reading.token \notin Stock

\* The chain implements the abstract telemetry.
Severe == {r \in Reading : r.type = "ERROR"}
T == INSTANCE Telemetry WITH
        Readings <- Reading,
        alerts <- [i \in DOMAIN sent |-> sent[i].reading]
ImplementsTelemetry == T!Spec

\* Without faults, when every agent is registered and all services ran before
\* the first report, the admin is told of every stored reading of level ERROR.
EveryAlarmIsSent ==
    Registered = Tokens /\ [](up # Services => submitted = {}) =>
        \A r \in Severe :
            r \in log ~> \E i \in DOMAIN sent : sent[i].reading = r
=============================================================================

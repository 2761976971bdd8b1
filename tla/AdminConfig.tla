----------------------------- MODULE AdminConfig -----------------------------
(***************************************************************************)
(* Changing how an admin is notified (VigilantMeerkat.Micro.Account).  The *)
(* route changeadminconfig handles one request after the other on the one  *)
(* AppDbContext of its process: it looks the row up, merges the fields the *)
(* request gives into the entity the context tracks, marks every column    *)
(* modified and saves.  A save that failed leaves the entity modified, so  *)
(* the next save, of any admin, writes it as well.                         *)
(***************************************************************************)
EXTENDS Integers, Sequences

CONSTANTS
    Admins,      \* the ids of the requests
    Stored,      \* those with a row in adminconfig
    Values,      \* the values of a column
    Columns,     \* DefaultNotificationType, Email, PhoneNumber
    Empty,       \* "" or null: the request does not give the column
    Initial,     \* the value all columns have at first
    MaxRequests, \* bound on the requests
    MaxFaults,   \* bound on the failed saves and crashes
    None

ASSUME AdminConfigAssumption ==
    /\ Stored \subseteq Admins
    /\ Empty \notin Values /\ Initial \in Values
    /\ MaxRequests \in Nat /\ MaxFaults \in Nat

Row == [Columns -> Values]
Given == Values \cup {Empty}
Request == [n : 1..MaxRequests, id : Admins, cols : [Columns -> Given]]

ASSUME NoneIsNoRow == None \notin Row /\ None \notin Request

VARIABLES
    up,       \* the account process runs and has its queue
    queue,    \* Seq(Request)
    work,     \* the request whose save is under way, or None
    table,    \* [Stored -> Row], the table adminconfig
    tracked,  \* [Stored -> Row \cup {None}], the entities of the context
    modified, \* the tracked entities that the next save writes
    sent,     \* the requests sent so far
    answers,  \* history: [n -> answer], None: not answered
    possible, \* history: the values a column can have, by the answers
    faults    \* faults so far

context == <<tracked, modified>>
vars == <<up, queue, work, table, context, sent, answers, possible, faults>>

TypeOK ==
    /\ up \in BOOLEAN
    /\ queue \in Seq(Request)
    /\ work \in Request \cup {None}
    /\ ~up => queue = <<>> /\ work = None /\ modified = {}
    /\ table \in [Stored -> Row]
    /\ tracked \in [Stored -> Row \cup {None}]
    /\ modified \subseteq {a \in Stored : tracked[a] # None}
    /\ work # None => work.id \in modified
    /\ sent \in 0..MaxRequests
    /\ answers \in [1..MaxRequests -> {"true", "false", "Failed", "none"}]
    /\ possible \in [Stored -> [Columns -> SUBSET Values]]
    /\ faults \in 0..MaxFaults

Init ==
    /\ up = FALSE /\ queue = <<>> /\ work = None
    /\ table = [a \in Stored |-> [c \in Columns |-> Initial]]
    /\ tracked = [a \in Stored |-> None] /\ modified = {}
    /\ sent = 0
    /\ answers = [n \in 1..MaxRequests |-> "none"]
    /\ possible = [a \in Stored |-> [c \in Columns |-> {Initial}]]
    /\ faults = 0

Fault == faults < MaxFaults /\ faults' = faults + 1
Answer(r, value) == answers' = [answers EXCEPT ![r.n] = value]
-----------------------------------------------------------------------------
\* A caller sends a request; without a queue the message is dropped.
Send ==
    /\ sent < MaxRequests
    /\ sent' = sent + 1
    /\ \E a \in Admins, cols \in [Columns -> Given] :
          queue' = IF up THEN Append(queue, [n |-> sent + 1, id |-> a, cols |-> cols])
                   ELSE queue
    /\ UNCHANGED <<up, work, table, context, answers, possible, faults>>

Take ==
    /\ work = None
    /\ queue # <<>>
    /\ queue' = Tail(queue)

ChangeUnknown ==
    /\ Take
    /\ Head(queue).id \notin Stored
    /\ Answer(Head(queue), "false")
    /\ UNCHANGED <<up, work, table, context, sent, possible, faults>>

\* FirstOrDefault: the tracked entity, or the row.
Found(a) == IF tracked[a] # None THEN tracked[a] ELSE table[a]

\* Mutant: the columns the request does not give are reset.
MergeResetting(row, cols) ==
    [c \in Columns |-> IF cols[c] = Empty THEN Initial ELSE cols[c]]

Merge(row, cols) ==
    [c \in Columns |-> IF cols[c] = Empty THEN row[c] ELSE cols[c]]

ChangeAdminConfig ==
    /\ Take
    /\ LET r == Head(queue) IN
          /\ r.id \in Stored
          /\ work' = r
          /\ tracked' = [tracked EXCEPT ![r.id] = Merge(Found(r.id), r.cols)]
          /\ modified' = modified \cup {r.id}
    /\ UNCHANGED <<up, table, sent, answers, possible, faults>>

\* Mutant: only the entity of the request is written.
WrittenOwn == [table EXCEPT ![work.id] = tracked[work.id]]

\* Update marks every column of an entity.
Written == [a \in Stored |-> IF a \in modified THEN tracked[a] ELSE table[a]]

\* The values of the columns the request gives are now the only possible ones.
SaveChanges ==
    /\ work # None
    /\ table' = Written
    /\ modified' = {}
    /\ Answer(work, "true")
    /\ possible' = [possible EXCEPT ![work.id] =
          [c \in Columns |-> IF work.cols[c] = Empty THEN @[c] ELSE {work.cols[c]}]]
    /\ work' = None
    /\ UNCHANGED <<up, queue, tracked, sent, faults>>

\* The values a request gives whose outcome its caller does not know.
Allow(r) ==
    possible' = [possible EXCEPT ![r.id] =
        [c \in Columns |-> @[c] \cup ({r.cols[c]} \ {Empty})]]

\* The save throws, before or after its commit; the entities stay modified.
SaveFails ==
    /\ work # None
    /\ Fault
    /\ table' \in {table, Written}
    /\ Answer(work, "Failed")
    /\ Allow(work)
    /\ work' = None
    /\ UNCHANGED <<up, queue, context, sent>>
-----------------------------------------------------------------------------
Start ==
    /\ ~up
    /\ up' = TRUE
    /\ UNCHANGED <<queue, work, table, context, sent, answers, possible, faults>>

\* Mutant: the context outlives its process.
CrashKeepingContext ==
    /\ Fault
    /\ up
    /\ up' = FALSE /\ queue' = <<>> /\ work' = None
    /\ UNCHANGED <<table, context, sent, answers, possible>>

\* The process ends, perhaps after the commit of the save under way.
Crash ==
    /\ Fault
    /\ up
    /\ up' = FALSE /\ queue' = <<>> /\ work' = None
    /\ tracked' = [a \in Stored |-> None] /\ modified' = {}
    /\ \/ UNCHANGED <<table, possible>>
       \/ work # None /\ table' = Written /\ Allow(work)
    /\ UNCHANGED <<sent, answers>>

Next ==
    \/ Send \/ ChangeUnknown \/ ChangeAdminConfig \/ SaveChanges \/ SaveFails
    \/ Start \/ Crash

Spec == Init /\ [][Next]_vars
-----------------------------------------------------------------------------
\* A column has the value of the last change that was answered with `true`, or
\* of a later one whose outcome is not known: merging into an entity that is
\* tracked from earlier requests, and writing all its columns, overwrites
\* nothing with an older value.
NoLostChange == \A a \in Stored, c \in Columns : table[a][c] \in possible[a][c]

\* Once an answer `true` is out and nothing is under way, the context has
\* nothing left to write: a failed change ends up stored or forgotten by then.
TrueLeavesNothing ==
    [][\A n \in 1..MaxRequests : answers'[n] = "true" /\ answers[n] # "true"
          => \A a \in Stored : tracked'[a] # None => table'[a] = tracked'[a]]_vars
-----------------------------------------------------------------------------
(* The inductive invariant: what the context can hold.                      *)

\* The values the request under way gives.
UnderWay(a, c) == IF work # None /\ work.id = a THEN {work.cols[c]} \ {Empty} ELSE {}

\* A tracked entity differs from its row only if it is to be saved, and holds
\* what a column can have or is being given.
TrackedAt(a) ==
    tracked[a] # None =>
        /\ a \notin modified => tracked[a] = table[a]
        /\ \A c \in Columns :
              /\ tracked[a][c] \in possible[a][c] \cup UnderWay(a, c)
              /\ UnderWay(a, c) # {} => tracked[a][c] \in UnderWay(a, c)

IInv == TypeOK /\ NoLostChange /\ \A a \in Stored : TrackedAt(a)
=============================================================================

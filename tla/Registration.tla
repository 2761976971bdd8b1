---------------------------- MODULE Registration ----------------------------
(***************************************************************************)
(* Accounts (AccountController of the gateway).  A registration looks the  *)
(* address up, stores an adminconfig row in the application's database if  *)
(* the address is an administrator's, and stores the user in the users'    *)
(* database.  Each HTTP request has contexts of its own (AddDbContext is   *)
(* scoped), requests run concurrently, and no table has a unique key but   *)
(* its id (db/user/init.sql).  A row is told by the request whose Guid it  *)
(* carries.                                                                *)
(***************************************************************************)
EXTENDS Integers, FiniteSets

CONSTANTS
    Requests,    \* the registrations, retries of the same person included
    EmailOf,     \* [Requests -> Emails]
    Emails,
    AdminEmails, \* the addresses that end with "admin.pl"
    MaxFaults    \* bound on the saves that fail

ASSUME RegistrationAssumption ==
    /\ EmailOf \in [Requests -> Emails]
    /\ AdminEmails \subseteq Emails
    /\ MaxFaults \in Nat

VARIABLES
    pc,           \* [Requests -> ...], how far Register is
    users,        \* the rows of user
    adminconfigs, \* the rows of adminconfig
    overlap,      \* history: the pairs of requests that ran at the same time
    faults        \* faults so far

vars == <<pc, users, adminconfigs, overlap, faults>>

Running == {"admin", "user"}
InFlight == {q \in Requests : pc[q] \in Running}

TypeOK ==
    /\ pc \in [Requests -> Running \cup {"new", "ok", "bad", "error"}]
    /\ users \subseteq Requests /\ adminconfigs \subseteq Requests
    /\ \A q \in adminconfigs : EmailOf[q] \in AdminEmails
    /\ overlap \subseteq SUBSET Requests
    /\ faults \in 0..MaxFaults

Init ==
    /\ pc = [q \in Requests |-> "new"]
    /\ users = {} /\ adminconfigs = {}
    /\ overlap = {} /\ faults = 0

Goto(q, label) == pc' = [pc EXCEPT ![q] = label]

IsAdmin(q) == EmailOf[q] \in AdminEmails

\* Mutant: every address is taken for an administrator's.
CheckAllAdmins(q) ==
    /\ pc[q] = "new"
    /\ Goto(q, IF \E u \in users : EmailOf[u] = EmailOf[q] THEN "bad" ELSE "admin")
    /\ overlap' = overlap \cup {{q, p} : p \in InFlight}
    /\ UNCHANGED <<users, adminconfigs, faults>>

\* Mutant: an administrator's address is not looked up.
CheckUsersOnly(q) ==
    /\ pc[q] = "new"
    /\ Goto(q, IF IsAdmin(q) THEN "admin"
               ELSE IF \E u \in users : EmailOf[u] = EmailOf[q] THEN "bad" ELSE "user")
    /\ overlap' = overlap \cup {{q, p} : p \in InFlight}
    /\ UNCHANGED <<users, adminconfigs, faults>>

\* FirstOrDefaultAsync on the address; BadRequest if there is a user.
Check(q) ==
    /\ pc[q] = "new"
    /\ Goto(q, IF \E u \in users : EmailOf[u] = EmailOf[q] THEN "bad"
               ELSE IF IsAdmin(q) THEN "admin" ELSE "user")
    /\ overlap' = overlap \cup {{q, p} : p \in InFlight}
    /\ UNCHANGED <<users, adminconfigs, faults>>

\* Mutant: a failed save of the configuration does not end the registration.
SaveAdminConfigIgnoringFailure(q) ==
    /\ pc[q] = "admin"
    /\ \/ adminconfigs' = adminconfigs \cup {q} /\ UNCHANGED faults
       \/ /\ faults < MaxFaults /\ faults' = faults + 1
          /\ UNCHANGED adminconfigs
    /\ Goto(q, "user")
    /\ UNCHANGED <<users, overlap>>

\* Mutant: the address is looked up once more after the configuration is stored.
SaveAdminConfigCheckingAgain(q) ==
    /\ pc[q] = "admin"
    /\ adminconfigs' = adminconfigs \cup {q}
    /\ Goto(q, IF \E u \in users : EmailOf[u] = EmailOf[q] THEN "bad" ELSE "user")
    /\ UNCHANGED <<users, overlap, faults>>

SaveAdminConfig(q) ==
    /\ pc[q] = "admin"
    /\ adminconfigs' = adminconfigs \cup {q}
    /\ Goto(q, "user")
    /\ UNCHANGED <<users, overlap, faults>>

SaveUser(q) ==
    /\ pc[q] = "user"
    /\ users' = users \cup {q}
    /\ Goto(q, "ok")
    /\ UNCHANGED <<adminconfigs, overlap, faults>>

\* A save throws, before or after its commit, or the gateway stops.
Fail(q) ==
    /\ q \in InFlight
    /\ faults < MaxFaults /\ faults' = faults + 1
    /\ \/ UNCHANGED <<users, adminconfigs>>
       \/ pc[q] = "admin" /\ adminconfigs' = adminconfigs \cup {q} /\ UNCHANGED users
       \/ pc[q] = "user" /\ users' = users \cup {q} /\ UNCHANGED adminconfigs
    /\ Goto(q, "error")
    /\ UNCHANGED overlap

Register(q) == Check(q) \/ SaveAdminConfig(q) \/ SaveUser(q) \/ Fail(q)

Next == \E q \in Requests : Register(q)

Spec == Init /\ [][Next]_vars
-----------------------------------------------------------------------------
\* The rows a login with the address of q can be given: FirstOrDefaultAsync
\* orders nothing.
LoginCandidates(q) == {u \in users : EmailOf[u] = EmailOf[q]}

\* Who registered successfully, and not at the same time as another one with
\* the same address, is the account every login with that address finds.
LoginFindsAccount ==
    \A q \in Requests :
        /\ pc[q] = "ok"
        /\ \A p \in Requests \ {q} : EmailOf[p] = EmailOf[q] => {p, q} \notin overlap
        => LoginCandidates(q) = {q}

\* An administrator's user row has its adminconfig row, although the two are
\* stored in two databases and either save can fail.
AdminHasConfig == \A q \in users : IsAdmin(q) => q \in adminconfigs

\* The other way round only once nothing is running and nothing has failed:
\* an adminconfig without a user gets clients, and nobody can log in as it.
ConfigHasAdmin ==
    faults = 0 /\ InFlight = {} => adminconfigs \subseteq users

\* What the front end tells who is refused: a user with the given address
\* exists already (Register.tsx), so no two users have the same address.
NoDuplicateEmail ==
    \A q, p \in users : EmailOf[q] = EmailOf[p] => q = p
-----------------------------------------------------------------------------
(* The inductive invariant: how far a registration is and what it stored.   *)

Twins(p, q) == p # q /\ EmailOf[p] = EmailOf[q]

\* Whoever has stored, or may still store, a user with the address of another
\* one that has or may, ran at the same time as that one.
TwinsOverlap ==
    \A p, q \in users \cup InFlight : Twins(p, q) => {p, q} \in overlap

Progress ==
    \A q \in Requests :
        /\ pc[q] = "ok" => q \in users
        /\ q \in users => pc[q] \in {"ok", "error"}
        /\ q \in adminconfigs => pc[q] \in {"user", "ok", "error"}
        /\ pc[q] = "admin" => IsAdmin(q)
        /\ pc[q] = "user" /\ IsAdmin(q) => q \in adminconfigs
        /\ pc[q] = "error" => faults > 0

IInv == TypeOK /\ Progress /\ AdminHasConfig /\ TwinsOverlap
=============================================================================

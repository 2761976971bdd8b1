------------------------ MODULE Registration_proofs ------------------------
(***************************************************************************)
(* Proofs about Registration, for any number of requests, any addresses    *)
(* and any number of failing saves.                                        *)
(***************************************************************************)
EXTENDS Registration, TLAPS

\* The initial state satisfies the inductive invariant: nothing is stored.
LEMMA InitInvariant == Init => IInv
  BY RegistrationAssumption
     DEF Init, IInv, TypeOK, Progress, AdminHasConfig, TwinsOverlap, Twins,
         Running, InFlight, IsAdmin

\* Looking the address up keeps the invariant: a request that goes on finds
\* no user with its address, and is paired with all that are in flight.
LEMMA CheckInvariant ==
  ASSUME IInv, NEW q \in Requests, Check(q)
  PROVE  IInv'
<1> USE DEF Check, Goto, InFlight, Running, IsAdmin
<1>1. pc' \in [Requests -> Running \cup {"new", "ok", "bad", "error"}]
  BY DEF IInv, TypeOK
<1>2. overlap' \subseteq SUBSET Requests
  BY DEF IInv, TypeOK
<1>3. TypeOK'
  BY <1>1, <1>2 DEF IInv, TypeOK
<1>4. \A p \in Requests \ {q} : pc'[p] = pc[p]
  BY DEF IInv, TypeOK
<1>5. /\ pc'[q] \in {"bad", "admin", "user"}
      /\ pc'[q] = "admin" <=> pc'[q] # "bad" /\ IsAdmin(q)
  BY DEF IInv, TypeOK
<1>6. Progress'
  <2> SUFFICES ASSUME NEW p \in Requests
               PROVE  /\ pc'[p] = "ok" => p \in users
                      /\ p \in users => pc'[p] \in {"ok", "error"}
                      /\ p \in adminconfigs => pc'[p] \in {"user", "ok", "error"}
                      /\ pc'[p] = "admin" => IsAdmin(p)
                      /\ pc'[p] = "user" /\ IsAdmin(p) => p \in adminconfigs
                      /\ pc'[p] = "error" => faults > 0
    BY DEF Progress
  <2>1. CASE p = q
    BY <1>5, <2>1 DEF IInv, TypeOK, Progress
  <2>2. CASE p # q
    BY <1>4, <2>2 DEF IInv, Progress
  <2> QED BY <2>1, <2>2
<1>7. AdminHasConfig'
  BY DEF IInv, AdminHasConfig
<1>8. TwinsOverlap'
  <2> SUFFICES ASSUME NEW p \in users \cup InFlight', NEW r \in users \cup InFlight',
                      Twins(p, r)
               PROVE  {p, r} \in overlap'
    BY DEF TwinsOverlap, Twins
  <2>1. users \subseteq Requests
    BY DEF IInv, TypeOK
  <2>2. q \notin users
    BY DEF IInv, Progress
  <2>3. pc'[q] \in Running => \A u \in users : EmailOf[u] # EmailOf[q]
    BY <2>1 DEF IInv, TypeOK
  <2>4. CASE p # q /\ r # q
    <3>1. p \in users \cup InFlight /\ r \in users \cup InFlight
      BY <1>4, <2>4
    <3> QED BY <3>1 DEF IInv, TwinsOverlap
  <2>5. CASE p = q
    <3>1. r \in InFlight
      BY <1>4, <2>2, <2>3, <2>5 DEF Twins
    <3> QED BY <3>1, <2>5
  <2>6. CASE r = q
    <3>1. p \in InFlight
      BY <1>4, <2>2, <2>3, <2>6 DEF Twins
    <3>2. {p, r} = {r, p}
      OBVIOUS
    <3> QED BY <3>1, <3>2, <2>6
  <2> QED BY <2>4, <2>5, <2>6
<1> QED BY <1>3, <1>6, <1>7, <1>8 DEF IInv

\* Storing the configuration, storing the user and failing keep it: a request
\* stays among those that have stored or may store a user, or leaves them.
LEMMA SavesInvariant ==
  ASSUME IInv, NEW q \in Requests,
         SaveAdminConfig(q) \/ SaveUser(q) \/ Fail(q)
  PROVE  IInv'
<1> USE DEF SaveAdminConfig, SaveUser, Fail, Goto, InFlight, Running
<1>1. /\ pc[q] \in Running
      /\ pc' = [pc EXCEPT ![q] = pc'[q]]
      /\ pc'[q] \in {"user", "ok", "error"}
  BY DEF IInv, TypeOK
<1>2. \A p \in Requests \ {q} : pc'[p] = pc[p]
  BY <1>1 DEF IInv, TypeOK
<1>3. /\ users' \in {users, users \cup {q}}
      /\ adminconfigs' \in {adminconfigs, adminconfigs \cup {q}}
      /\ pc[q] = "admin" => users' = users
      /\ pc[q] = "user" => adminconfigs' = adminconfigs
      /\ overlap' = overlap
      /\ faults' \in {faults, faults + 1}
      /\ faults' # faults => faults < MaxFaults
  BY DEF IInv, TypeOK
<1>4. pc[q] = "admin" => IsAdmin(q)
  BY DEF IInv, Progress
<1>5. TypeOK'
  <2>1. pc' \in [Requests -> Running \cup {"new", "ok", "bad", "error"}]
    BY <1>1 DEF IInv, TypeOK
  <2>2. \A p \in adminconfigs' : EmailOf[p] \in AdminEmails
    BY <1>1, <1>3, <1>4 DEF IInv, TypeOK, IsAdmin
  <2>3. faults' \in 0..MaxFaults
    BY <1>3, RegistrationAssumption DEF IInv, TypeOK
  <2> QED BY <1>3, <2>1, <2>2, <2>3 DEF IInv, TypeOK
<1>6. Progress'
  <2> SUFFICES ASSUME NEW p \in Requests
               PROVE  /\ pc'[p] = "ok" => p \in users'
                      /\ p \in users' => pc'[p] \in {"ok", "error"}
                      /\ p \in adminconfigs' => pc'[p] \in {"user", "ok", "error"}
                      /\ pc'[p] = "admin" => IsAdmin(p)
                      /\ pc'[p] = "user" /\ IsAdmin(p) => p \in adminconfigs'
                      /\ pc'[p] = "error" => faults' > 0
    BY DEF Progress
  <2>1. faults \in Nat
    BY RegistrationAssumption DEF IInv, TypeOK
  <2>2. CASE p # q
    <3>1. faults' >= faults
      BY <1>3, <2>1
    <3> QED BY <1>2, <1>3, <2>1, <2>2, <3>1 DEF IInv, Progress
  <2>3. CASE p = q
    <3>1. /\ pc'[q] = "ok" => q \in users'
          /\ pc'[q] = "user" => q \in adminconfigs' /\ users' = users
          /\ pc'[q] = "error" => faults' = faults + 1
      BY DEF IInv, TypeOK
    <3>2. q \notin users
      BY <1>1 DEF IInv, Progress
    <3> QED BY <1>1, <2>1, <2>3, <3>1, <3>2
  <2> QED BY <2>2, <2>3
<1>7. AdminHasConfig'
  <2>1. q \in users' /\ IsAdmin(q) => q \in adminconfigs'
    BY <1>1, <1>3 DEF IInv, Progress, AdminHasConfig
  <2> QED BY <1>3, <2>1 DEF IInv, AdminHasConfig
<1>8. TwinsOverlap'
  <2>1. users' \cup InFlight' \subseteq users \cup InFlight
    BY <1>1, <1>2, <1>3
  <2> QED BY <1>3, <2>1 DEF IInv, TwinsOverlap, Twins
<1> QED BY <1>5, <1>6, <1>7, <1>8 DEF IInv

\* In every reachable state, what a registration has stored is as far as its
\* request says, and twins ran at the same time.
THEOREM RegistrationInvariance == Spec => []IInv
<1>1. Init => IInv
  BY InitInvariant
<1>2. IInv /\ [Next]_vars => IInv'
  <2> SUFFICES ASSUME IInv, [Next]_vars PROVE IInv'
    OBVIOUS
  <2>1. CASE Next
    BY <2>1, CheckInvariant, SavesInvariant DEF Next, Register
  <2>2. CASE UNCHANGED vars
    BY <2>2 DEF vars, IInv, TypeOK, Progress, AdminHasConfig, TwinsOverlap,
                Twins, InFlight, Running, IsAdmin
  <2> QED BY <2>1, <2>2
<1> QED BY <1>1, <1>2, PTL DEF Spec

\* The variables have their types, and only administrators' addresses have an
\* adminconfig.
THEOREM RegistrationTypeOK == Spec => []TypeOK
<1>1. IInv => TypeOK
  BY DEF IInv
<1> QED BY <1>1, RegistrationInvariance, PTL

\* An administrator's user row has its adminconfig row, whichever saves of the
\* two databases fail.
THEOREM RegistrationAdminHasConfig == Spec => []AdminHasConfig
<1>1. IInv => AdminHasConfig
  BY DEF IInv
<1> QED BY <1>1, RegistrationInvariance, PTL

\* A successful registration that had no concurrent twin is the one row every
\* login with its address finds.
THEOREM RegistrationLoginFindsAccount == Spec => []LoginFindsAccount
<1>1. IInv => LoginFindsAccount
  <2> SUFFICES ASSUME IInv, NEW q \in Requests, pc[q] = "ok",
                      \A p \in Requests \ {q} :
                         EmailOf[p] = EmailOf[q] => {p, q} \notin overlap
               PROVE  LoginCandidates(q) = {q}
    BY DEF LoginFindsAccount
  <2>1. q \in users /\ users \subseteq Requests
    BY DEF IInv, TypeOK, Progress
  <2>2. \A p \in users : p # q => EmailOf[p] # EmailOf[q]
    BY <2>1 DEF IInv, TwinsOverlap, Twins
  <2> QED BY <2>1, <2>2 DEF LoginCandidates
<1> QED BY <1>1, RegistrationInvariance, PTL

\* Without failures, once nothing runs, every adminconfig has its user.
THEOREM RegistrationConfigHasAdmin == Spec => []ConfigHasAdmin
<1>1. IInv => ConfigHasAdmin
  <2> SUFFICES ASSUME IInv, faults = 0, InFlight = {}, NEW q \in adminconfigs
               PROVE  q \in users
    BY DEF ConfigHasAdmin
  <2>1. q \in Requests
    BY DEF IInv, TypeOK
  <2>2. pc[q] \in {"user", "ok", "error"} /\ pc[q] # "error"
    BY <2>1 DEF IInv, Progress
  <2>3. pc[q] # "user"
    BY <2>1 DEF InFlight, Running
  <2> QED BY <2>1, <2>2, <2>3 DEF IInv, Progress
<1> QED BY <1>1, RegistrationInvariance, PTL
=============================================================================

------------------------ MODULE ClientCreator_proofs ------------------------
(***************************************************************************)
(* Proofs about ClientCreator, for any requests, users, tokens and admins  *)
(* and any number of faults.                                               *)
(***************************************************************************)
EXTENDS ClientCreator, FiniteSetTheorems, SequenceTheorems, TLAPS

\* The ids of the rows of a table among some rows.
IdsIn(rows, table) == {e.id : e \in {x \in rows : x.table = table}}

\* Rows come in pairs, stored or still pending.
Paired(rows) == IdsIn(rows, "token") = IdsIn(rows, "clientconfig")

PairsOK == Paired(db) /\ Paired(pending)

\* The row that request r, its token and its user make.
RowFor(r, token, rows) ==
    \E e \in rows : e.table = "token" /\ e.id = r /\ e.token = token /\ e.user = UserOf[r]

\* The row is added before the save and in the table after it.
WorkOK ==
    /\ stage = "jwt" => got # None
    /\ stage \in {"count", "list", "save", "saved"} => UserOf[work] # None
    /\ stage = "save" => RowFor(work, got, pending)
    /\ stage = "saved" => RowFor(work, got, db)

\* A release build takes an admin that has registered.
AdminsOK ==
    ~debug => \A e \in db \cup pending : e.table = "token" => e.admin \in admins

\* A request waits or is handled once, before it is answered.
RequestsOK ==
    /\ work # None => work \in sent /\ answer[work] = None
    /\ \A i \in DOMAIN queue : /\ queue[i] \in sent /\ answer[queue[i]] = None
                               /\ queue[i] # work
                               /\ \A j \in DOMAIN queue : queue[i] = queue[j] => i = j

\* Without faults nothing is left behind by a request: its rows are pending
\* until its save, and stored when it is answered.
FaultlessOK ==
    faults = 0 =>
        /\ \A e \in db : answer[e.id] \in Values \/ (stage = "saved" /\ e.id = work)
        /\ \A e \in pending : stage = "save" /\ e.id = work

IInv ==
    /\ TypeOK
    /\ PairsOK /\ WorkOK /\ AdminsOK /\ RequestsOK /\ FaultlessOK
    /\ AnsweredIsCreated
-----------------------------------------------------------------------------
(* Rows. *)

\* Ids of a union of rows.
LEMMA IdsUnion ==
  ASSUME NEW S, NEW U, NEW table
  PROVE  IdsIn(S \cup U, table) = IdsIn(S, table) \cup IdsIn(U, table)
  BY DEF IdsIn

\* CreateToken adds one row to either table, the token's with all it needs.
LEMMA EntitiesFacts ==
  ASSUME TypeOK, work # None, UserOf[work] # None, got \in Values,
         NEW a \in admins \cup {Stray}
  PROVE  /\ Entities(a) \subseteq Row
         /\ IdsIn(Entities(a), "token") = {work}
         /\ IdsIn(Entities(a), "clientconfig") = {work}
         /\ RowFor(work, got, Entities(a))
         /\ \A e \in Entities(a) : e.id = work /\ (e.table = "token" => e.admin = a)
<1> DEFINE c == [table |-> "clientconfig", id |-> work]
           k == [table |-> "token", id |-> work, token |-> got,
                 user |-> UserOf[work], admin |-> a]
<1>1. Entities(a) = {c, k}
  BY DEF Entities
<1>2. work \in Requests /\ UserOf[work] \in Users /\ a \in Admins \cup {Stray}
  BY ClientCreatorAssumption DEF TypeOK
<1>3. c \in ConfigRow /\ k \in TokenRow
  BY <1>2 DEF ConfigRow, TokenRow
<1>4. /\ c.table = "clientconfig" /\ c.id = work
      /\ k.table = "token" /\ k.id = work /\ k.token = got /\ k.user = UserOf[work]
      /\ k.admin = a
  OBVIOUS
<1> HIDE DEF c, k
<1>5. IdsIn({c, k}, "token") = {work} /\ IdsIn({c, k}, "clientconfig") = {work}
  BY <1>4 DEF IdsIn
<1>6. RowFor(work, got, {c, k})
  BY <1>4 DEF RowFor
<1>7. \A e \in {c, k} : e.id = work /\ (e.table = "token" => e.admin = a)
  BY <1>4
<1> QED BY <1>1, <1>3, <1>5, <1>6, <1>7 DEF Row

\* More rows take none away.
LEMMA RowForMore ==
  ASSUME NEW r, NEW token, NEW S, NEW U, RowFor(r, token, S), S \subseteq U
  PROVE  RowFor(r, token, U)
  BY DEF RowFor

\* Pairs added to pairs are pairs, and no rows are pairs.
LEMMA PairedUnion ==
  ASSUME NEW S, NEW U, Paired(S), Paired(U)
  PROVE  Paired(S \cup U)
<1>1. /\ IdsIn(S \cup U, "token") = IdsIn(S, "token") \cup IdsIn(U, "token")
      /\ IdsIn(S \cup U, "clientconfig") = IdsIn(S, "clientconfig") \cup IdsIn(U, "clientconfig")
  BY IdsUnion
<1> QED BY <1>1 DEF Paired

\* An empty set of rows is paired.
LEMMA PairedNone == Paired({})
  BY DEF Paired, IdsIn

\* AnsweredIsCreated, as a fact about the table.
LEMMA AnsweredRows ==
  /\ AnsweredIsCreated <=> \A r \in Requests : answer[r] \in Values => RowFor(r, answer[r], db)
  /\ AnsweredIsCreated' <=>
        \A r \in Requests : answer'[r] \in Values => RowFor(r, answer'[r], db')
  BY DEF AnsweredIsCreated, RowFor, TokenRows

\* The texts of a failed reply and of none are not tokens.
LEMMA NotValues ==
  /\ Exception \notin Values /\ None \notin Values /\ Exception # None /\ Guids \subseteq Values
  /\ None \notin Requests
  BY ClientCreatorAssumption DEF Values
-----------------------------------------------------------------------------
(* The steps. *)

\* The service starts with two empty tables.
LEMMA InitInvariant == Init => IInv
<1> SUFFICES ASSUME Init PROVE IInv
  OBVIOUS
<1>1. queue \in Seq(Requests) /\ DOMAIN queue = {}
  BY EmptySeq DEF Init
<1>2. TypeOK
  <2>1. up \in BOOLEAN /\ (~up => queue = <<>> /\ stage = "idle" /\ pending = {})
    BY DEF Init
  <2>2. answer \in [Requests -> Values \cup {Exception, None}]
    BY DEF Init
  <2>3. faults \in 0..MaxFaults /\ index \in Nat
    BY ClientCreatorAssumption DEF Init
  <2> QED BY <1>1, <2>1, <2>2, <2>3 DEF Init, TypeOK
<1>3. PairsOK
  BY PairedNone DEF Init, PairsOK
<1>4. WorkOK /\ AdminsOK /\ FaultlessOK
  BY DEF Init, WorkOK, AdminsOK, FaultlessOK
<1>5. RequestsOK
  BY <1>1 DEF Init, RequestsOK
<1>6. AnsweredIsCreated
  BY NotValues DEF Init, AnsweredIsCreated
<1> QED BY <1>2, <1>3, <1>4, <1>5, <1>6 DEF IInv

\* The service's queue takes a request that was never sent before.
LEMMA IndexInvariant ==
  ASSUME IInv, NEW r \in Requests, Index(r)
  PROVE  IInv'
<1>1. /\ TypeOK /\ PairsOK /\ WorkOK /\ AdminsOK /\ RequestsOK /\ FaultlessOK
      /\ AnsweredIsCreated
  BY DEF IInv
<1>2. /\ r \notin sent /\ sent' = sent \cup {r}
      /\ queue' = IF up THEN Append(queue, r) ELSE queue
      /\ UNCHANGED <<up, work, stage, got, index, pending, db, admins, stored, debug,
                     answer, faults>>
  BY DEF Index, handler, tables, environment
<1>3. queue \in Seq(Requests) /\ DOMAIN queue = 1..Len(queue) /\ Len(queue) \in Nat
  BY <1>1, LenProperties DEF TypeOK
<1>4. /\ queue' \in Seq(Requests)
      /\ \A i \in DOMAIN queue' :
            \/ i \in DOMAIN queue /\ queue'[i] = queue[i]
            \/ queue'[i] = r /\ i = Len(queue) + 1
  <2>1. CASE queue' = queue
    BY <1>3, <2>1
  <2>2. CASE queue' = Append(queue, r)
    <3>1. /\ queue' \in Seq(Requests) /\ Len(queue') = Len(queue) + 1
          /\ \A i \in 1..Len(queue) : queue'[i] = queue[i]
          /\ queue'[Len(queue) + 1] = r
      BY <1>3, <2>2, AppendProperties
    <3>2. DOMAIN queue' = 1..(Len(queue) + 1)
      BY <3>1, LenProperties
    <3>3. \A i \in 1..(Len(queue) + 1) : i \in 1..Len(queue) \/ i = Len(queue) + 1
      BY <1>3
    <3> QED BY <1>3, <3>1, <3>2, <3>3
  <2> QED BY <1>2, <2>1, <2>2
<1>5. answer[r] = None /\ r # work
  BY <1>1, <1>2, NotValues DEF TypeOK, RequestsOK
<1>6. TypeOK'
  BY <1>1, <1>2, <1>4 DEF TypeOK
<1>7. RequestsOK'
  BY <1>1, <1>2, <1>3, <1>4, <1>5 DEF RequestsOK
<1>8. PairsOK' /\ WorkOK' /\ AdminsOK' /\ FaultlessOK'
  BY <1>1, <1>2 DEF PairsOK, WorkOK, AdminsOK, FaultlessOK
<1>9. AnsweredIsCreated'
  BY <1>1, <1>2, AnsweredRows
<1> QED BY <1>6, <1>7, <1>8, <1>9 DEF IInv

\* A request is taken from the queue.
LEMMA TakeInvariant ==
  ASSUME IInv, Take
  PROVE  IInv'
<1>1. /\ TypeOK /\ PairsOK /\ WorkOK /\ AdminsOK /\ RequestsOK /\ FaultlessOK
      /\ AnsweredIsCreated
  BY DEF IInv
<1>2. /\ stage = "idle" /\ queue # <<>> /\ work' = Head(queue) /\ queue' = Tail(queue)
      /\ stage' = "create"
      /\ UNCHANGED <<up, got, index, pending, db, admins, stored, debug, sent, answer, faults>>
  BY DEF Take, tables, environment, gateway
<1>3. queue \in Seq(Requests) /\ DOMAIN queue = 1..Len(queue) /\ Len(queue) \in Nat \ {0}
  BY <1>1, <1>2, LenProperties, EmptySeq DEF TypeOK
<1>4. /\ queue' \in Seq(Requests) /\ Len(queue') = Len(queue) - 1
      /\ DOMAIN queue' = 1..(Len(queue) - 1)
      /\ \A i \in 1..(Len(queue) - 1) : queue'[i] = queue[i + 1]
  <2>1. /\ queue' \in Seq(Requests) /\ Len(queue') = Len(queue) - 1
        /\ \A i \in 1..Len(queue') : queue'[i] = queue[i + 1]
    BY <1>2, <1>3, HeadTailProperties
  <2>2. DOMAIN queue' = 1..Len(queue')
    BY <2>1, LenProperties
  <2> QED BY <2>1, <2>2
<1>5. 1 \in DOMAIN queue /\ work' = queue[1] /\ work' \in Requests
  <2>1. 1 \in 1..Len(queue) /\ Head(queue) = queue[1]
    BY <1>2, <1>3
  <2> QED BY <1>2, <1>3, <2>1, ElementOfSeq
<1>6. TypeOK'
  BY <1>1, <1>2, <1>4, <1>5, NotValues DEF TypeOK
<1>7. RequestsOK'
  <2>1. work' \in sent' /\ answer'[work'] = None
    BY <1>1, <1>2, <1>5 DEF RequestsOK
  <2>2. \A i \in DOMAIN queue' : i \in Nat /\ i + 1 \in DOMAIN queue /\ i + 1 # 1 /\ queue'[i] = queue[i + 1]
    BY <1>3, <1>4
  <2>3. \A i \in DOMAIN queue' : queue'[i] \in sent /\ answer[queue'[i]] = None
    BY <1>1, <2>2 DEF RequestsOK
  <2>4. \A i \in DOMAIN queue' : queue'[i] # work'
    BY <1>1, <1>5, <2>2 DEF RequestsOK
  <2>5. ASSUME NEW i \in DOMAIN queue', NEW j \in DOMAIN queue', queue'[i] = queue'[j]
        PROVE  i = j
    <3>1. i + 1 = j + 1
      BY <1>1, <2>2, <2>5 DEF RequestsOK
    <3> QED BY <2>2, <3>1
  <2> QED BY <1>2, <2>1, <2>3, <2>4, <2>5 DEF RequestsOK
<1>8. PairsOK' /\ WorkOK' /\ AdminsOK' /\ FaultlessOK'
  BY <1>1, <1>2 DEF PairsOK, WorkOK, AdminsOK, FaultlessOK
<1>9. AnsweredIsCreated'
  BY <1>1, <1>2, AnsweredRows
<1> QED BY <1>6, <1>7, <1>8, <1>9 DEF IInv

\* authorization.create has answered, with a new token or an exception.
LEMMA TokenCreatedInvariant ==
  ASSUME IInv, TokenCreated
  PROVE  IInv'
<1>1. /\ TypeOK /\ PairsOK /\ WorkOK /\ AdminsOK /\ RequestsOK /\ FaultlessOK
      /\ AnsweredIsCreated
  BY DEF IInv
<1>2. /\ stage = "create" /\ stage' = "jwt"
      /\ UNCHANGED <<up, queue, work, index, pending, db, admins, debug, sent, answer>>
  BY DEF TokenCreated, tables, gateway
<1>3. /\ stored' \subseteq Guids /\ got' \in Values \cup {Exception}
      /\ faults' \in 0..MaxFaults /\ (faults' = 0 => faults = 0)
  <2>1. CASE \E t \in Guids \ stored :
               stored' = stored \cup {t} /\ got' = t /\ UNCHANGED faults
    BY <1>1, <2>1 DEF TypeOK, Values
  <2>2. CASE got' = Empty /\ UNCHANGED <<stored, faults>>
    BY <1>1, <2>2 DEF TypeOK, Values
  <2>3. CASE /\ Fault
             /\ got' = Exception
             /\ stored' \in {stored} \cup {stored \cup {t} : t \in Guids \ stored}
    <3>1. stored' \subseteq Guids
      BY <1>1, <2>3 DEF TypeOK
    <3>2. faults' \in 0..MaxFaults /\ faults' # 0
      BY <1>1, <2>3, ClientCreatorAssumption DEF TypeOK, Fault
    <3> QED BY <2>3, <3>1, <3>2
  <2> QED BY <2>1, <2>2, <2>3 DEF TokenCreated
<1>4. TypeOK'
  BY <1>1, <1>2, <1>3 DEF TypeOK
<1>5. PairsOK' /\ WorkOK' /\ AdminsOK' /\ RequestsOK' /\ FaultlessOK'
  BY <1>1, <1>2, <1>3, NotValues DEF PairsOK, WorkOK, AdminsOK, RequestsOK, FaultlessOK
<1>6. AnsweredIsCreated'
  BY <1>1, <1>2, AnsweredRows
<1> QED BY <1>4, <1>5, <1>6 DEF IInv

\* The JWT names a user.
LEMMA ReadJwtInvariant ==
  ASSUME IInv, ReadJwt
  PROVE  IInv'
<1>1. /\ TypeOK /\ PairsOK /\ WorkOK /\ AdminsOK /\ RequestsOK /\ FaultlessOK
      /\ AnsweredIsCreated
  BY DEF IInv
<1>2. /\ stage = "jwt" /\ stage' = "count" /\ UserOf[work] # None /\ got # Exception
      /\ UNCHANGED <<up, queue, work, got, index, pending, db, admins, stored, debug, sent,
                     answer, faults>>
  BY DEF ReadJwt, Readable, tables, environment, gateway
<1>3. got \in Values
  BY <1>1, <1>2 DEF TypeOK, WorkOK
<1>4. TypeOK'
  BY <1>1, <1>2, <1>3 DEF TypeOK
<1>5. PairsOK' /\ WorkOK' /\ AdminsOK' /\ RequestsOK' /\ FaultlessOK'
  BY <1>1, <1>2 DEF PairsOK, WorkOK, AdminsOK, RequestsOK, FaultlessOK
<1>6. AnsweredIsCreated'
  BY <1>1, <1>2, AnsweredRows
<1> QED BY <1>4, <1>5, <1>6 DEF IInv

\* What Count and List do once an admin is chosen, or not yet.
LEMMA ChosenInvariant ==
  ASSUME IInv, stage \in {"count", "list"}, index' \in Nat,
         faults' = faults,
         UNCHANGED <<up, queue, work, got, db, admins, stored, debug, sent, answer>>,
         \/ stage' = "list" /\ pending' = pending
         \/ /\ stage' = "save"
            /\ \E a \in admins \cup {Stray} :
                  (a = Stray => debug) /\ pending' = pending \cup Entities(a)
  PROVE  IInv'
<1>1. /\ TypeOK /\ PairsOK /\ WorkOK /\ AdminsOK /\ RequestsOK /\ FaultlessOK
      /\ AnsweredIsCreated
  BY DEF IInv
<1>2. RequestsOK' /\ AnsweredIsCreated'
  BY <1>1, AnsweredRows DEF RequestsOK
<1>3. CASE stage' = "list" /\ pending' = pending
  <2>1. TypeOK'
    BY <1>1, <1>3 DEF TypeOK
  <2>2. PairsOK' /\ WorkOK' /\ AdminsOK' /\ FaultlessOK'
    BY <1>1, <1>3 DEF PairsOK, WorkOK, AdminsOK, FaultlessOK
  <2> QED BY <1>2, <2>1, <2>2 DEF IInv
<1>4. CASE /\ stage' = "save"
           /\ \E a \in admins \cup {Stray} :
                 (a = Stray => debug) /\ pending' = pending \cup Entities(a)
  <2>1. PICK a \in admins \cup {Stray} :
          /\ a = Stray => debug
          /\ pending' = pending \cup Entities(a)
    BY <1>4
  <2>2. work # None /\ UserOf[work] # None /\ got \in Values
    BY <1>1 DEF TypeOK, WorkOK
  <2>3. PICK new : new = Entities(a)
    OBVIOUS
  <2>4. /\ new \subseteq Row
        /\ IdsIn(new, "token") = {work} /\ IdsIn(new, "clientconfig") = {work}
        /\ RowFor(work, got, new)
        /\ \A e \in new : e.id = work /\ (e.table = "token" => e.admin = a)
    BY <1>1, <2>2, <2>3, EntitiesFacts
  <2>5. pending' = pending \cup new
    BY <2>1, <2>3
  <2>6. TypeOK'
    BY <1>1, <1>4, <2>4, <2>5 DEF TypeOK
  <2>7. PairsOK'
    <3>1. Paired(new)
      BY <2>4 DEF Paired
    <3>2. Paired(db') /\ Paired(pending')
      BY <1>1, <2>5, <3>1, PairedUnion DEF PairsOK
    <3> QED BY <3>2 DEF PairsOK, Paired, IdsIn
  <2>8. WorkOK'
    <3>1. RowFor(work, got, pending')
      BY <2>4, <2>5, RowForMore
    <3>2. RowFor(work, got, pending)'
      BY <3>1 DEF RowFor
    <3> QED BY <1>4, <2>2, <3>2 DEF WorkOK
  <2>9. AdminsOK'
    BY <1>1, <2>1, <2>4, <2>5 DEF AdminsOK
  <2>10. FaultlessOK'
    BY <1>1, <1>4, <2>4, <2>5 DEF FaultlessOK
  <2> QED BY <1>2, <2>6, <2>7, <2>8, <2>9, <2>10 DEF IInv
<1> QED BY <1>3, <1>4

\* The count of admins only bounds the index.
LEMMA CountInvariant ==
  ASSUME IInv, Count
  PROVE  IInv'
<1>1. index' \in Nat
  <2>1. IsFiniteSet(admins)
    BY ClientCreatorAssumption, FS_Subset DEF IInv, TypeOK
  <2>2. Cardinality(admins) \in Nat
    BY <2>1, FS_CardinalityType
  <2> QED BY <2>2 DEF Count, RandomIndexes
<1>2. \/ stage' = "list" /\ pending' = pending
      \/ stage' = "save" /\ debug /\ pending' = pending \cup Entities(Stray)
  BY DEF Count
<1> QED BY <1>1, <1>2, ChosenInvariant DEF Count, environment, gateway

\* A row of each table, of one new token, is added to what is pending.
LEMMA ListInvariant ==
  ASSUME IInv, List
  PROVE  IInv'
<1>1. PICK a \in admins : pending' = pending \cup Entities(a)
  BY DEF List
<1>2. a # Stray
  BY ClientCreatorAssumption DEF IInv, TypeOK
<1>3. index' \in Nat
  BY DEF List, IInv, TypeOK
<1> QED BY <1>1, <1>2, <1>3, ChosenInvariant DEF List, environment, gateway

\* All that is pending is stored in one transaction.
LEMMA SaveInvariant ==
  ASSUME IInv, Save
  PROVE  IInv'
<1>1. /\ TypeOK /\ PairsOK /\ WorkOK /\ AdminsOK /\ RequestsOK /\ FaultlessOK
      /\ AnsweredIsCreated
  BY DEF IInv
<1>2. /\ stage = "save" /\ stage' = "saved" /\ db' = db \cup pending /\ pending' = {}
      /\ UNCHANGED <<up, queue, work, got, index, admins, stored, debug, sent, answer, faults>>
  BY DEF Save, environment, gateway
<1>3. TypeOK'
  BY <1>1, <1>2 DEF TypeOK
<1>4. PairsOK'
  <2>1. Paired(db') /\ Paired(pending')
    BY <1>1, <1>2, PairedUnion, PairedNone DEF PairsOK
  <2> QED BY <2>1 DEF PairsOK, Paired, IdsIn
<1>5. WorkOK'
  <2>1. RowFor(work, got, db')
    BY <1>1, <1>2, RowForMore DEF WorkOK
  <2>2. RowFor(work, got, db)'
    BY <1>2, <2>1 DEF RowFor
  <2> QED BY <1>1, <1>2, <2>2 DEF WorkOK
<1>6. AdminsOK' /\ RequestsOK' /\ FaultlessOK'
  BY <1>1, <1>2 DEF AdminsOK, RequestsOK, FaultlessOK
<1>7. AnsweredIsCreated'
  BY <1>1, <1>2, AnsweredRows, RowForMore
<1> QED BY <1>3, <1>4, <1>5, <1>6, <1>7 DEF IInv

\* CreateToken answers: with the token when its rows are stored, else with the
\* exception, and then without faults it has added nothing.
LEMMA ReplyInvariant ==
  ASSUME IInv, NEW value \in Values \cup {Exception}, work # None, Reply(value),
         value \in Values <=> stage = "saved", value \in Values => value = got,
         db' \in {db, db \cup pending}, pending' = pending,
         faults' \in 0..MaxFaults, faults' = 0 => faults = 0 /\ stage # "save"
  PROVE  IInv'
<1>1. /\ TypeOK /\ PairsOK /\ WorkOK /\ AdminsOK /\ RequestsOK /\ FaultlessOK
      /\ AnsweredIsCreated
  BY DEF IInv
<1>2. /\ answer' = [answer EXCEPT ![work] = value] /\ work' = None /\ stage' = "idle"
      /\ UNCHANGED <<up, queue, got, index, admins, stored, debug, sent>>
  BY DEF Reply, environment
<1>3. /\ work \in Requests /\ work \in sent /\ answer[work] = None
      /\ answer'[work] = value /\ \A r \in Requests : r # work => answer'[r] = answer[r]
  BY <1>1, <1>2 DEF TypeOK, RequestsOK
<1>4. TypeOK'
  <2>1. answer' \in [Requests -> Values \cup {Exception, None}]
    BY <1>1, <1>2, <1>3 DEF TypeOK
  <2>2. \A r \in Requests : answer'[r] # None => r \in sent'
    BY <1>1, <1>2, <1>3 DEF TypeOK
  <2> QED BY <1>1, <1>2, <2>1, <2>2 DEF TypeOK
<1>5. PairsOK'
  <2>1. Paired(db') /\ Paired(pending')
    BY <1>1, PairedUnion DEF PairsOK
  <2> QED BY <2>1 DEF PairsOK, Paired, IdsIn
<1>6. WorkOK' /\ AdminsOK'
  BY <1>1, <1>2 DEF WorkOK, AdminsOK
<1>7. RequestsOK'
  <2>1. \A i \in DOMAIN queue : queue[i] \in Requests
    BY <1>1, LenProperties, ElementOfSeq DEF TypeOK
  <2> QED BY <1>1, <1>2, <1>3, <2>1, NotValues DEF RequestsOK
<1>8. FaultlessOK'
  <2> SUFFICES ASSUME faults' = 0
               PROVE  /\ \A e \in db' : answer'[e.id] \in Values
                      /\ pending' = {}
    BY DEF FaultlessOK
  <2>1. pending = {} /\ db' = db
    BY <1>1 DEF FaultlessOK
  <2>2. ASSUME NEW e \in db PROVE answer'[e.id] \in Values
    <3>1. answer[e.id] \in Values \/ (stage = "saved" /\ e.id = work)
      BY <1>1 DEF FaultlessOK
    <3>2. e.id \in Requests
      BY <1>1 DEF TypeOK, Row, TokenRow, ConfigRow
    <3> QED BY <1>3, <3>1, <3>2, NotValues
  <2> QED BY <2>1, <2>2
<1>9. AnsweredIsCreated'
  <2>1. ASSUME NEW r \in Requests, answer'[r] \in Values
        PROVE  RowFor(r, answer'[r], db')
    <3>1. db \subseteq db'
      OBVIOUS
    <3>2. CASE r = work
      <4>1. RowFor(work, got, db) /\ answer'[r] = got
        BY <1>1, <1>3, <2>1, <3>2 DEF WorkOK
      <4> QED BY <3>1, <3>2, <4>1, RowForMore
    <3>3. CASE r # work
      <4>1. RowFor(r, answer[r], db) /\ answer'[r] = answer[r]
        BY <1>1, <1>3, <2>1, <3>3, AnsweredRows
      <4> QED BY <3>1, <4>1, RowForMore
    <3> QED BY <3>2, <3>3
  <2> QED BY <2>1, AnsweredRows
<1> QED BY <1>4, <1>5, <1>6, <1>7, <1>8, <1>9 DEF IInv

\* The token is the answer: its rows are stored since Save.
LEMMA ReturnInvariant ==
  ASSUME IInv, Return
  PROVE  IInv'
<1>1. stage = "saved" /\ Reply(got) /\ pending' = pending /\ db' = db /\ faults' = faults
  BY DEF Return, tables
<1>2. work # None /\ got \in Values /\ faults \in 0..MaxFaults
  BY <1>1 DEF IInv, TypeOK
<1> QED BY <1>1, <1>2, ReplyInvariant

\* The handler ends before anything of its request is pending.
LEMMA ThrowInvariant ==
  ASSUME IInv, Throw
  PROVE  IInv'
<1>1. /\ stage \in {"jwt", "count", "list"} /\ Reply(Exception)
      /\ pending' = pending /\ db' = db
      /\ faults' = faults \/ Fault
  BY DEF Throw, tables
<1>2. work # None
  BY <1>1 DEF IInv, TypeOK
<1>3. faults' \in 0..MaxFaults /\ (faults' = 0 => faults = 0)
  BY <1>1, ClientCreatorAssumption DEF IInv, TypeOK, Fault
<1> QED BY <1>1, <1>2, <1>3, NotValues, ReplyInvariant

\* A failed save leaves its rows pending, and stored too if it was a commit.
LEMMA SaveFailsInvariant ==
  ASSUME IInv, SaveFails
  PROVE  IInv'
<1>1. /\ stage = "save" /\ Reply(Exception) /\ pending' = pending
      /\ \/ Poisoned /\ UNCHANGED <<db, faults>>
         \/ ~Poisoned /\ Fault /\ db' \in {db, db \cup pending}
  BY DEF SaveFails
<1>2. work # None
  BY <1>1 DEF IInv, TypeOK
<1>3. faults = 0 => ~Poisoned
  <2> SUFFICES ASSUME faults = 0, NEW e \in pending \cap db PROVE FALSE
    BY DEF Poisoned
  <2>1. e.id = work /\ answer[work] \in Values
    BY <1>1 DEF IInv, FaultlessOK
  <2>2. answer[work] = None
    BY <1>2 DEF IInv, RequestsOK
  <2> QED BY <2>1, <2>2, NotValues
<1>4. faults' \in 0..MaxFaults /\ faults' # 0
  <2>1. CASE Fault
    BY <2>1, ClientCreatorAssumption DEF IInv, TypeOK, Fault
  <2>2. CASE Poisoned /\ faults' = faults
    BY <1>3, <2>2 DEF IInv, TypeOK
  <2> QED BY <1>1, <2>1, <2>2
<1>5. db' \in {db, db \cup pending}
  BY <1>1
<1> QED BY <1>1, <1>2, <1>4, <1>5, NotValues, ReplyInvariant

\* A process starts.
LEMMA StartInvariant ==
  ASSUME IInv, Start
  PROVE  IInv'
<1>1. /\ TypeOK /\ PairsOK /\ WorkOK /\ AdminsOK /\ RequestsOK /\ FaultlessOK
      /\ AnsweredIsCreated
  BY DEF IInv
<1>2. /\ up' = TRUE
      /\ UNCHANGED <<queue, work, stage, got, index, pending, db, admins, stored, debug, sent,
                     answer, faults>>
  BY DEF Start, handler, tables, environment, gateway
<1>3. TypeOK'
  BY <1>1, <1>2 DEF TypeOK
<1>4. PairsOK' /\ WorkOK' /\ AdminsOK' /\ RequestsOK' /\ FaultlessOK'
  BY <1>1, <1>2 DEF PairsOK, WorkOK, AdminsOK, RequestsOK, FaultlessOK
<1>5. AnsweredIsCreated'
  BY <1>1, <1>2, AnsweredRows
<1> QED BY <1>3, <1>4, <1>5 DEF IInv

\* The process takes its context with it; only whole pairs are in the tables.
LEMMA CrashInvariant ==
  ASSUME IInv, Crash
  PROVE  IInv'
<1>1. /\ TypeOK /\ PairsOK /\ WorkOK /\ AdminsOK /\ RequestsOK /\ FaultlessOK
      /\ AnsweredIsCreated
  BY DEF IInv
<1>2. /\ up' = FALSE /\ queue' = <<>> /\ work' = None /\ stage' = "idle" /\ pending' = {}
      /\ UNCHANGED <<got, index, db, admins, stored, debug, sent, answer>>
  BY DEF Crash, environment, gateway
<1>3. faults' \in 0..MaxFaults /\ faults' # 0
  BY <1>1, ClientCreatorAssumption DEF Crash, Fault, TypeOK
<1>4. queue' \in Seq(Requests) /\ DOMAIN queue' = {}
  BY <1>2, EmptySeq
<1>5. TypeOK'
  BY <1>1, <1>2, <1>3, <1>4 DEF TypeOK
<1>6. PairsOK' /\ WorkOK' /\ AdminsOK'
  BY <1>1, <1>2, PairedNone DEF PairsOK, WorkOK, AdminsOK
<1>7. RequestsOK' /\ FaultlessOK'
  BY <1>2, <1>3, <1>4 DEF RequestsOK, FaultlessOK
<1>8. AnsweredIsCreated'
  BY <1>1, <1>2, AnsweredRows
<1> QED BY <1>5, <1>6, <1>7, <1>8 DEF IInv

\* Admins are only added, so that a known one stays known.
LEMMA RegisterAdminInvariant ==
  ASSUME IInv, NEW a \in Admins, RegisterAdmin(a)
  PROVE  IInv'
<1>1. /\ TypeOK /\ PairsOK /\ WorkOK /\ AdminsOK /\ RequestsOK /\ FaultlessOK
      /\ AnsweredIsCreated
  BY DEF IInv
<1>2. /\ admins' = admins \cup {a}
      /\ UNCHANGED <<up, queue, work, stage, got, index, pending, db, stored, debug, sent,
                     answer, faults>>
  BY DEF RegisterAdmin, handler, tables, gateway
<1>3. TypeOK'
  BY <1>1, <1>2 DEF TypeOK
<1>4. PairsOK' /\ WorkOK' /\ AdminsOK' /\ RequestsOK' /\ FaultlessOK'
  BY <1>1, <1>2 DEF PairsOK, WorkOK, AdminsOK, RequestsOK, FaultlessOK
<1>5. AnsweredIsCreated'
  BY <1>1, <1>2, AnsweredRows
<1> QED BY <1>3, <1>4, <1>5 DEF IInv

\* Nothing changes.
LEMMA StutterInvariant ==
  ASSUME IInv, UNCHANGED vars
  PROVE  IInv'
<1>1. /\ TypeOK /\ PairsOK /\ WorkOK /\ AdminsOK /\ RequestsOK /\ FaultlessOK
      /\ AnsweredIsCreated
  BY DEF IInv
<1>2. UNCHANGED <<up, queue, work, stage, got, index, pending, db, admins, stored, debug, sent,
                  answer, faults>>
  BY DEF vars, handler, tables, gateway
<1>3. TypeOK'
  BY <1>1, <1>2 DEF TypeOK
<1>4. PairsOK' /\ WorkOK' /\ AdminsOK' /\ RequestsOK' /\ FaultlessOK'
  BY <1>1, <1>2 DEF PairsOK, WorkOK, AdminsOK, RequestsOK, FaultlessOK
<1>5. AnsweredIsCreated'
  BY <1>1, <1>2, AnsweredRows
<1> QED BY <1>3, <1>4, <1>5 DEF IInv

\* Every step keeps the invariant.
LEMMA NextInvariant == IInv /\ [Next]_vars => IInv'
<1> SUFFICES ASSUME IInv, [Next]_vars PROVE IInv'
  OBVIOUS
<1>1. ASSUME NEW r \in Requests, Index(r) PROVE IInv'
  BY <1>1, IndexInvariant
<1>2. CASE CreateToken
  BY <1>2, TakeInvariant, TokenCreatedInvariant, ReadJwtInvariant, CountInvariant,
     ListInvariant, SaveInvariant, ReturnInvariant, ThrowInvariant, SaveFailsInvariant
  DEF CreateToken
<1>3. CASE Start \/ Crash
  BY <1>3, StartInvariant, CrashInvariant
<1>4. ASSUME NEW a \in Admins, RegisterAdmin(a) PROVE IInv'
  BY <1>4, RegisterAdminInvariant
<1>5. CASE UNCHANGED vars
  BY <1>5, StutterInvariant
<1> QED BY <1>1, <1>2, <1>3, <1>4, <1>5 DEF Next
-----------------------------------------------------------------------------
(* What holds. *)

\* The invariant is one.
THEOREM Invariance == Spec => []IInv
<1> QED BY InitInvariant, NextInvariant, PTL DEF Spec

\* What the model keeps has the types TypeOK states.
THEOREM ClientCreatorTypeOK == Spec => []TypeOK
<1>1. IInv => TypeOK
  BY DEF IInv
<1> QED BY Invariance, <1>1, PTL

\* A token row has its clientconfig row and the other way round: CreateToken
\* adds both to the context before the one save that inserts them.
THEOREM ClientCreatorRowsPaired == Spec => []RowsPaired
<1>1. IInv => RowsPaired
  BY DEF IInv, PairsOK, Paired, RowsPaired, Ids, IdsIn
<1> QED BY Invariance, <1>1, PTL

\* A request answered with a token has its row with that token and user.
THEOREM ClientCreatorAnsweredIsCreated == Spec => []AnsweredIsCreated
<1>1. IInv => AnsweredIsCreated
  BY DEF IInv
<1> QED BY Invariance, <1>1, PTL

\* A release build gives every meerkat an admin that has registered, although
\* GetRandomAdmin counts and lists in two queries.
THEOREM ClientCreatorAdminKnown == Spec => []AdminKnown
<1>1. IInv => AdminKnown
  BY DEF IInv, AdminsOK, AdminKnown, TokenRows
<1> QED BY Invariance, <1>1, PTL

\* Whatever CreateToken throws by itself, it throws before it has added
\* anything to the context.
THEOREM ClientCreatorFailedLeavesNothing == Spec => []FailedLeavesNothing
<1>1. ASSUME IInv PROVE FailedLeavesNothing
  <2> SUFFICES ASSUME faults = 0, NEW r \in Requests, answer[r] = Exception
               PROVE  r \notin Ids("token") \cup Ids("clientconfig")
    BY DEF FailedLeavesNothing
  <2>1. \A e \in db : answer[e.id] \in Values \/ (stage = "saved" /\ e.id = work)
    BY <1>1 DEF IInv, FaultlessOK
  <2>2. stage = "saved" => answer[work] = None
    BY <1>1 DEF IInv, TypeOK, RequestsOK
  <2>3. \A e \in db : e.id # r
    BY <2>1, <2>2, NotValues
  <2> QED BY <2>3 DEF Ids
<1>2. IInv => FailedLeavesNothing
  BY <1>1
<1> QED BY Invariance, <1>2, PTL
=============================================================================

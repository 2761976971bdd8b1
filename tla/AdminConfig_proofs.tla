------------------------- MODULE AdminConfig_proofs -------------------------
(***************************************************************************)
(* Proofs about AdminConfig, for any admins, columns and values and any    *)
(* number of requests, failed saves and crashes.                           *)
(***************************************************************************)
EXTENDS AdminConfig, TLAPS

\* Nothing is tracked and nothing is sent at first.
LEMMA InitInvariant == Init => IInv
<1> SUFFICES ASSUME Init PROVE IInv
  OBVIOUS
<1>1. TypeOK
  <2>1. queue \in Seq(Request)
    BY DEF Init
  <2>2. table \in [Stored -> Row]
    BY AdminConfigAssumption DEF Init, Row
  <2>3. possible \in [Stored -> [Columns -> SUBSET Values]]
    BY AdminConfigAssumption DEF Init
  <2>4. 0 \in 0..MaxRequests /\ 0 \in 0..MaxFaults
    BY AdminConfigAssumption
  <2> QED BY <2>1, <2>2, <2>3, <2>4 DEF Init, TypeOK
<1>2. NoLostChange
  BY DEF Init, NoLostChange
<1>3. \A a \in Stored : TrackedAt(a)
  BY DEF Init, TrackedAt
<1> QED BY <1>1, <1>2, <1>3 DEF IInv

\* What a tracked or stored row of an admin is.
LEMMA RowTypes ==
  ASSUME TypeOK
  PROVE  /\ \A a \in Stored : table[a] \in Row /\ Found(a) \in Row
         /\ \A a \in modified : a \in Stored /\ tracked[a] \in Row
         /\ Written \in [Stored -> Row]
         /\ work # None => /\ work \in Request /\ work.id \in modified
                           /\ work.n \in 1..MaxRequests
                           /\ work.cols \in [Columns -> Given]
  BY DEF TypeOK, Found, Written, Request

\* Merging keeps a row a row.
LEMMA MergeType ==
  ASSUME NEW row \in Row, NEW cols \in [Columns -> Given]
  PROVE  Merge(row, cols) \in Row
  BY DEF Merge, Row, Given

\* The first of a queue's requests is one, and the rest is a queue.
LEMMA TakeType ==
  ASSUME TypeOK, Take
  PROVE  /\ Head(queue) \in Request
         /\ Head(queue).n \in 1..MaxRequests
         /\ Head(queue).cols \in [Columns -> Given]
         /\ queue' \in Seq(Request)
<1>1. Head(queue) \in Request /\ queue' \in Seq(Request)
  <2> DEFINE Q == Request
  <2>1. queue \in Seq(Q) /\ queue # <<>> /\ queue' = Tail(queue)
    BY DEF TypeOK, Take
  <2> HIDE DEF Q
  <2>2. Head(queue) \in Q /\ Tail(queue) \in Seq(Q)
    BY <2>1
  <2> QED BY <2>1, <2>2 DEF Q
<1> QED BY <1>1 DEF Request

\* Sending a request changes nothing but the queue.
LEMMA SendInvariant ==
  ASSUME IInv, Send
  PROVE  IInv'
<1>1. PICK a \in Admins, cols \in [Columns -> Given] :
         queue' = IF up THEN Append(queue, [n |-> sent + 1, id |-> a, cols |-> cols])
                  ELSE queue
  BY DEF Send
<1>2. sent' \in 0..MaxRequests /\ sent + 1 \in 1..MaxRequests
  BY AdminConfigAssumption DEF Send, IInv, TypeOK
<1>3. queue' \in Seq(Request)
  <2> DEFINE Q == Request
             q == [n |-> sent + 1, id |-> a, cols |-> cols]
  <2>1. q \in Q
    BY <1>2 DEF Request
  <2>2. queue \in Seq(Q)
    BY DEF IInv, TypeOK
  <2>3. queue' \in {queue, Append(queue, q)}
    BY <1>1
  <2> HIDE DEF Q, q
  <2>4. queue' \in Seq(Q)
    BY <2>1, <2>2, <2>3
  <2> QED BY <2>4 DEF Q
<1>4. ~up => queue' = <<>>
  BY <1>1 DEF IInv, TypeOK
<1>5. TypeOK'
  BY <1>2, <1>3, <1>4 DEF Send, context, IInv, TypeOK
<1>6. NoLostChange' /\ \A b \in Stored : TrackedAt(b)'
  BY DEF Send, context, IInv, NoLostChange, TrackedAt, UnderWay
<1> QED BY <1>5, <1>6 DEF IInv

\* A request for an unknown admin changes nothing but the queue.
LEMMA UnknownInvariant ==
  ASSUME IInv, ChangeUnknown
  PROVE  IInv'
<1>1. TypeOK'
  <2>1. Head(queue).n \in 1..MaxRequests /\ queue' \in Seq(Request)
    BY TakeType DEF IInv, ChangeUnknown
  <2>2. answers' \in [1..MaxRequests -> {"true", "false", "Failed", "none"}]
    BY <2>1 DEF ChangeUnknown, Answer, IInv, TypeOK
  <2>3. up
    BY DEF IInv, TypeOK, ChangeUnknown, Take
  <2> QED BY <2>1, <2>2, <2>3 DEF ChangeUnknown, context, IInv, TypeOK
<1>2. NoLostChange' /\ \A b \in Stored : TrackedAt(b)'
  BY DEF ChangeUnknown, context, IInv, NoLostChange, TrackedAt, UnderWay
<1> QED BY <1>1, <1>2 DEF IInv

\* Merging a request into its entity: the columns it gives are under way, the
\* others were possible before.
LEMMA ChangeInvariant ==
  ASSUME IInv, ChangeAdminConfig
  PROVE  IInv'
<1> DEFINE r == Head(queue)
<1>1. /\ r \in Request /\ r.id \in Stored /\ r.cols \in [Columns -> Given]
      /\ queue' \in Seq(Request) /\ work = None /\ up
  BY TakeType DEF IInv, ChangeAdminConfig, Take, TypeOK
<1>2. /\ work' = r
      /\ tracked' = [tracked EXCEPT ![r.id] = Merge(Found(r.id), r.cols)]
      /\ modified' = modified \cup {r.id}
      /\ UNCHANGED <<up, table, sent, answers, possible, faults>>
  BY DEF ChangeAdminConfig
<1> HIDE DEF r
<1>3. Merge(Found(r.id), r.cols) \in Row
  BY <1>1, RowTypes, MergeType DEF IInv
<1>4. r # None /\ None \notin Row
  BY <1>1, NoneIsNoRow
<1>5. /\ tracked' \in [Stored -> Row \cup {None}]
      /\ tracked'[r.id] = Merge(Found(r.id), r.cols)
      /\ \A b \in Stored \ {r.id} : tracked'[b] = tracked[b]
  BY <1>1, <1>2, <1>3 DEF IInv, TypeOK
<1>6. TypeOK'
  BY <1>1, <1>2, <1>3, <1>4, <1>5 DEF IInv, TypeOK
<1>7. NoLostChange'
  BY <1>2 DEF IInv, NoLostChange
<1>8. ASSUME NEW b \in Stored PROVE TrackedAt(b)'
  <2>1. CASE b # r.id
    BY <1>1, <1>2, <1>5, <2>1 DEF IInv, TrackedAt, UnderWay
  <2>2. CASE b = r.id
    <3>1. SUFFICES ASSUME NEW c \in Columns
                   PROVE  /\ tracked'[b][c] \in possible[b][c] \cup UnderWay(b, c)'
                          /\ UnderWay(b, c)' # {} => tracked'[b][c] \in UnderWay(b, c)'
      BY <1>2, <2>2 DEF TrackedAt
    <3>2. UnderWay(b, c)' = {r.cols[c]} \ {Empty}
      BY <1>2, <1>4, <2>2 DEF UnderWay
    <3>3. tracked'[b][c] = IF r.cols[c] = Empty THEN Found(b)[c] ELSE r.cols[c]
      BY <1>5, <2>2 DEF Merge
    <3>4. Found(b)[c] \in possible[b][c]
      BY <1>1 DEF IInv, NoLostChange, TrackedAt, UnderWay, Found
    <3> QED BY <3>2, <3>3, <3>4
  <2> QED BY <2>1, <2>2
<1> QED BY <1>6, <1>7, <1>8 DEF IInv

\* After any save, the written entities are their rows again, and each written
\* column was possible or is one the request under way gives.
LEMMA WrittenPossible ==
  ASSUME IInv, NEW a \in Stored, NEW c \in Columns
  PROVE  /\ tracked[a] # None => Written[a] = tracked[a]
         /\ Written[a][c] \in possible[a][c] \cup UnderWay(a, c)
         /\ UnderWay(a, c) # {} => Written[a][c] \in UnderWay(a, c)
<1>1. tracked[a] # None => Written[a] = tracked[a]
  BY DEF IInv, TrackedAt, Written
<1>2. CASE tracked[a] # None
  BY <1>1, <1>2 DEF IInv, TrackedAt
<1>3. CASE tracked[a] = None
  <2>1. a \notin modified
    BY <1>3 DEF IInv, TypeOK
  <2>2. Written[a] = table[a] /\ UnderWay(a, c) = {}
    BY <2>1 DEF IInv, TypeOK, Written, UnderWay
  <2> QED BY <1>3, <2>2 DEF IInv, NoLostChange
<1> QED BY <1>1, <1>2, <1>3

\* A save that succeeds stores every tracked entity; the columns the request
\* gave have the value it gave.
LEMMA SaveInvariant ==
  ASSUME IInv, SaveChanges
  PROVE  IInv'
<1>1. /\ work # None /\ work.id \in Stored /\ work.n \in 1..MaxRequests
      /\ work.cols \in [Columns -> Given]
      /\ Written \in [Stored -> Row]
  BY RowTypes DEF IInv, SaveChanges, TypeOK
<1>2. /\ table' = Written /\ modified' = {} /\ work' = None
      /\ UNCHANGED <<up, queue, tracked, sent, faults>>
  BY DEF SaveChanges
<1>3. /\ possible' \in [Stored -> [Columns -> SUBSET Values]]
      /\ \A a \in Stored \ {work.id} : possible'[a] = possible[a]
      /\ \A c \in Columns : possible'[work.id][c] =
            IF work.cols[c] = Empty THEN possible[work.id][c] ELSE {work.cols[c]}
  <2> DEFINE new == [c \in Columns |->
                IF work.cols[c] = Empty THEN possible[work.id][c] ELSE {work.cols[c]}]
  <2>1. possible' = [possible EXCEPT ![work.id] = new]
    BY DEF SaveChanges
  <2>2. new \in [Columns -> SUBSET Values]
    BY <1>1 DEF IInv, TypeOK, Given
  <2>3. \A c \in Columns : new[c] =
            IF work.cols[c] = Empty THEN possible[work.id][c] ELSE {work.cols[c]}
    OBVIOUS
  <2> HIDE DEF new
  <2> QED BY <1>1, <2>1, <2>2, <2>3 DEF IInv, TypeOK
<1>4. answers' \in [1..MaxRequests -> {"true", "false", "Failed", "none"}]
  BY <1>1 DEF SaveChanges, Answer, IInv, TypeOK
<1>5. TypeOK'
  BY <1>1, <1>2, <1>3, <1>4 DEF IInv, TypeOK
<1>6. NoLostChange'
  <2> SUFFICES ASSUME NEW a \in Stored, NEW c \in Columns
               PROVE  Written[a][c] \in possible'[a][c]
    BY <1>2 DEF NoLostChange
  <2>1. CASE a # work.id
    BY <1>3, <2>1, WrittenPossible DEF UnderWay
  <2>2. CASE a = work.id
    <3>1. UnderWay(a, c) = {work.cols[c]} \ {Empty}
      BY <1>1, <2>2 DEF UnderWay
    <3>2. possible'[a][c] = IF work.cols[c] = Empty THEN possible[a][c] ELSE {work.cols[c]}
      BY <1>3, <2>2
    <3>3. /\ Written[a][c] \in possible[a][c] \cup UnderWay(a, c)
          /\ UnderWay(a, c) # {} => Written[a][c] \in UnderWay(a, c)
      BY WrittenPossible
    <3> QED BY <3>1, <3>2, <3>3
  <2> QED BY <2>1, <2>2
<1>7. ASSUME NEW a \in Stored PROVE TrackedAt(a)'
  <2> SUFFICES ASSUME tracked[a] # None
               PROVE  /\ tracked[a] = table'[a]
                      /\ \A c \in Columns : tracked[a][c] \in possible'[a][c]
    BY <1>2 DEF TrackedAt, UnderWay
  <2>1. tracked[a] = table'[a]
    <3>1. Written[a] = tracked[a]
      BY DEF IInv, TrackedAt, Written
    <3> QED BY <1>2, <3>1
  <2> QED BY <1>6, <2>1 DEF NoLostChange
<1> QED BY <1>5, <1>6, <1>7 DEF IInv

\* A value whose outcome is not known becomes possible.
LEMMA AllowType ==
  ASSUME IInv, work # None, Allow(work)
  PROVE  /\ possible' \in [Stored -> [Columns -> SUBSET Values]]
         /\ \A a \in Stored, c \in Columns :
               possible'[a][c] = possible[a][c] \cup UnderWay(a, c)
<1>1. work.id \in Stored /\ work.cols \in [Columns -> Given]
  BY RowTypes DEF IInv, TypeOK
<1> DEFINE new == [c \in Columns |-> possible[work.id][c] \cup ({work.cols[c]} \ {Empty})]
<1>2. possible' = [possible EXCEPT ![work.id] = new]
  BY DEF Allow
<1>3. new \in [Columns -> SUBSET Values]
  BY <1>1 DEF IInv, TypeOK, Given
<1>4. \A c \in Columns : new[c] = possible[work.id][c] \cup UnderWay(work.id, c)
  BY DEF UnderWay
<1> HIDE DEF new
<1>5. possible' \in [Stored -> [Columns -> SUBSET Values]]
  BY <1>1, <1>2, <1>3 DEF IInv, TypeOK
<1>6. ASSUME NEW a \in Stored, NEW c \in Columns
      PROVE  possible'[a][c] = possible[a][c] \cup UnderWay(a, c)
  <2>1. CASE a = work.id
    BY <1>1, <1>2, <1>4, <2>1 DEF IInv, TypeOK
  <2>2. CASE a # work.id
    BY <1>1, <1>2, <2>2 DEF IInv, TypeOK, UnderWay
  <2> QED BY <2>1, <2>2
<1> QED BY <1>5, <1>6

\* A save that fails stores nothing or everything, and the entity stays to be
\* saved.
LEMMA SaveFailsInvariant ==
  ASSUME IInv, SaveFails
  PROVE  IInv'
<1>1. /\ work # None /\ work.n \in 1..MaxRequests /\ Written \in [Stored -> Row]
  BY RowTypes DEF IInv, SaveFails
<1>2. /\ table' \in {table, Written} /\ work' = None
      /\ UNCHANGED <<up, queue, tracked, modified, sent>>
      /\ Allow(work)
  BY DEF SaveFails, context
<1>3. faults' \in 0..MaxFaults
  BY AdminConfigAssumption DEF SaveFails, Fault, IInv, TypeOK
<1>4. answers' \in [1..MaxRequests -> {"true", "false", "Failed", "none"}]
  BY <1>1 DEF SaveFails, Answer, IInv, TypeOK
<1>5. TypeOK'
  BY <1>1, <1>2, <1>3, <1>4, AllowType DEF IInv, TypeOK
<1>6. NoLostChange'
  BY <1>1, <1>2, AllowType, WrittenPossible DEF IInv, NoLostChange
<1>7. ASSUME NEW a \in Stored PROVE TrackedAt(a)'
  <2> SUFFICES ASSUME tracked[a] # None
               PROVE  /\ a \notin modified => tracked[a] = table'[a]
                      /\ \A c \in Columns : tracked[a][c] \in possible'[a][c]
    BY <1>2 DEF TrackedAt, UnderWay
  <2>1. a \notin modified => tracked[a] = table'[a]
    BY <1>2 DEF IInv, TrackedAt, Written
  <2>2. \A c \in Columns : tracked[a][c] \in possible'[a][c]
    BY <1>1, <1>2, AllowType DEF IInv, TrackedAt
  <2> QED BY <2>1, <2>2
<1> QED BY <1>5, <1>6, <1>7 DEF IInv

\* Starting and ending the process: nothing is tracked afterwards.
LEMMA ProcessInvariant ==
  ASSUME IInv, Start \/ Crash
  PROVE  IInv'
<1>1. CASE Start
  <2>1. TypeOK'
    BY <1>1 DEF Start, context, IInv, TypeOK
  <2>2. NoLostChange' /\ \A b \in Stored : TrackedAt(b)'
    BY <1>1 DEF Start, context, IInv, NoLostChange, TrackedAt, UnderWay
  <2> QED BY <2>1, <2>2 DEF IInv
<1>2. CASE Crash
  <2>1. /\ up' = FALSE /\ queue' = <<>> /\ work' = None
        /\ tracked' = [a \in Stored |-> None] /\ modified' = {}
        /\ UNCHANGED <<sent, answers>>
        /\ \/ UNCHANGED <<table, possible>>
           \/ work # None /\ table' = Written /\ Allow(work)
    BY <1>2 DEF Crash
  <2>2. faults' \in 0..MaxFaults
    BY <1>2, AdminConfigAssumption DEF Crash, Fault, IInv, TypeOK
  <2>3. /\ table' \in [Stored -> Row]
        /\ possible' \in [Stored -> [Columns -> SUBSET Values]]
    BY <2>1, RowTypes, AllowType DEF IInv, TypeOK
  <2>4. TypeOK'
    <3>1. queue' \in Seq(Request)
      BY <2>1
    <3>2. tracked' \in [Stored -> Row \cup {None}]
      BY <2>1
    <3> QED BY <2>1, <2>2, <2>3, <3>1, <3>2 DEF IInv, TypeOK
  <2>5. NoLostChange'
    BY <2>1, AllowType, WrittenPossible DEF IInv, NoLostChange
  <2>6. \A b \in Stored : TrackedAt(b)'
    BY <2>1 DEF TrackedAt
  <2> QED BY <2>4, <2>5, <2>6 DEF IInv
<1> QED BY <1>1, <1>2

\* In every reachable state the context holds only what can be, or is being,
\* stored.
THEOREM AdminConfigInvariance == Spec => []IInv
<1>1. Init => IInv
  BY InitInvariant
<1>2. IInv /\ [Next]_vars => IInv'
  <2> SUFFICES ASSUME IInv, [Next]_vars PROVE IInv'
    OBVIOUS
  <2>1. CASE Next
    BY <2>1, SendInvariant, UnknownInvariant, ChangeInvariant, SaveInvariant,
       SaveFailsInvariant, ProcessInvariant DEF Next
  <2>2. CASE UNCHANGED vars
    BY <2>2 DEF vars, context, IInv, TypeOK, NoLostChange, TrackedAt, UnderWay
  <2> QED BY <2>1, <2>2
<1> QED BY <1>1, <1>2, PTL DEF Spec

\* The variables have their types; a process that does not run has neither
\* requests nor entities.
THEOREM AdminConfigTypeOK == Spec => []TypeOK
<1>1. IInv => TypeOK
  BY DEF IInv
<1> QED BY <1>1, AdminConfigInvariance, PTL

\* Every column has the value of the last change answered with `true`, or of a
\* later one whose outcome is not known.
THEOREM AdminConfigNoLostChange == Spec => []NoLostChange
<1>1. IInv => NoLostChange
  BY DEF IInv
<1> QED BY <1>1, AdminConfigInvariance, PTL

\* When an answer `true` goes out, every tracked entity is its row.
THEOREM AdminConfigTrueLeavesNothing == Spec => TrueLeavesNothing
<1>1. IInv /\ [Next]_vars =>
         [\A n \in 1..MaxRequests : answers'[n] = "true" /\ answers[n] # "true"
            => \A a \in Stored : tracked'[a] # None => table'[a] = tracked'[a]]_vars
  <2> SUFFICES ASSUME IInv, Next, NEW n \in 1..MaxRequests,
                      answers'[n] = "true", answers[n] # "true",
                      NEW a \in Stored, tracked'[a] # None
               PROVE  table'[a] = tracked'[a]
    BY DEF vars
  <2>1. SaveChanges
    <3>1. CASE ChangeUnknown
      BY <3>1, TakeType DEF ChangeUnknown, Answer, IInv, TypeOK
    <3>2. CASE SaveFails
      BY <3>2, RowTypes DEF SaveFails, Answer, IInv, TypeOK
    <3> QED BY <3>1, <3>2 DEF Next, Send, ChangeAdminConfig, Start, Crash
  <2>2. /\ table' = Written /\ tracked' = tracked
    BY <2>1 DEF SaveChanges
  <2>3. tracked[a] # None => Written[a] = tracked[a]
    BY DEF IInv, TrackedAt, Written
  <2> QED BY <2>2, <2>3
<1> QED BY <1>1, AdminConfigInvariance, PTL DEF Spec, TrueLeavesNothing
=============================================================================

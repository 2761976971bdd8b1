-------------------------- MODULE Monitoring_proofs --------------------------
(***************************************************************************)
(* Proofs about Monitoring, for any agents, admins, levels and addresses   *)
(* and any number of readings, changes and faults.                         *)
(***************************************************************************)
EXTENDS Monitoring, SequenceTheorems, TLAPS

\* The reading that entry i of the queue of s is about.
ReadingOf(s, m) == IF s \in Senders THEN m.reading ELSE m
About(q, s, i) == ReadingOf(s, q[s][i])

\* What has been reported, by whom, and what is made of it.
SubmittedOK ==
    /\ \A r \in submitted : /\ r.n <= count[r.token]
                            /\ r.token \in Stock => r.type # "ERROR"
    /\ pending \subseteq submitted /\ log \subseteq submitted

\* What waits behind central is stored, what waits at a sender is severe.
EntriesOK ==
    \A s \in Services : \A i \in DOMAIN queue[s] :
        /\ About(queue, s, i) \in submitted
        /\ s # "central" => About(queue, s, i) \in log
        /\ s \in Senders => About(queue, s, i).type = "ERROR"

\* A reading waits in one place at most.
EntriesApart ==
    \A s, u \in Services : \A i \in DOMAIN queue[s], j \in DOMAIN queue[u] :
        About(queue, s, i) = About(queue, u, j) => s = u /\ i = j

\* What was sent waits nowhere any more.
SentOK ==
    \A j \in DOMAIN sent :
        /\ sent[j].reading \in submitted \cap log /\ sent[j].reading.type = "ERROR"
        /\ \A s \in Services : \A i \in DOMAIN queue[s] : About(queue, s, i) # sent[j].reading

\* What central works on has gone no further than its stage says, and the
\* context is empty after a save.
WorkOK ==
    /\ work # None => work \in submitted
    /\ stage \in {"saved", "notified"} => work \in log /\ pending = {}
    /\ \A s \in Services : \A i \in DOMAIN queue[s] :
          About(queue, s, i) = work => stage = "notified" /\ s # "central"
    /\ \A j \in DOMAIN sent : sent[j].reading = work => stage = "notified"

\* Tracked entities live as long as the notifier's process.
CacheOK ==
    \A a \in Admins : /\ config[a] \in held[a]
                      /\ cache[a] # None => cache[a] \in held[a] /\ "notifier" \in up

IInv ==
    /\ TypeOK
    /\ SubmittedOK /\ EntriesOK /\ EntriesApart /\ SentOK /\ WorkOK /\ CacheOK
    /\ AckedIsLogged
    /\ AlertedOnce
-----------------------------------------------------------------------------
(* Levels. *)

\* Of the three levels, the last one has index 2, and no other level has it.
LEMMA IndexOfLevels ==
  /\ IndexOf("LOG") = 0 /\ IndexOf("WARN") = 1 /\ IndexOf("ERROR") = 2
  /\ \A level : level \notin {"LOG", "WARN", "ERROR"} => IndexOf(level) = -1
<1> DEFINE levels == <<"LOG", "WARN", "ERROR">>
<1>1. /\ DOMAIN levels = {1, 2, 3}
      /\ levels[1] = "LOG" /\ levels[2] = "WARN" /\ levels[3] = "ERROR"
  OBVIOUS
<1>2. \A level : IndexOf(level) =
        IF level \in {levels[i] : i \in DOMAIN levels}
        THEN (CHOOSE i \in DOMAIN levels : levels[i] = level) - 1 ELSE -1
  BY DEF IndexOf
<1> HIDE DEF levels
<1>3. {levels[i] : i \in DOMAIN levels} = {"LOG", "WARN", "ERROR"}
  BY <1>1
<1>4. /\ (CHOOSE i \in DOMAIN levels : levels[i] = "LOG") = 1
      /\ (CHOOSE i \in DOMAIN levels : levels[i] = "WARN") = 2
      /\ (CHOOSE i \in DOMAIN levels : levels[i] = "ERROR") = 3
  BY <1>1
<1> QED BY <1>2, <1>3, <1>4

\* Only ERROR reaches the level every client is configured with.
LEMMA CanSendError ==
  ASSUME NEW type
  PROVE  CanSend(type, TriggerLevel) <=> type = "ERROR"
<1>1. IndexOf(type) >= 2 <=> type = "ERROR"
  BY IndexOfLevels
<1> QED BY <1>1, IndexOfLevels DEF CanSend, TriggerLevel

\* The branch for ERROR is never reached.
LEMMA ProvideDataMild ==
  ASSUME NEW cpu \in Cpus
  PROVE  ProvideData(cpu) \in {"LOG", "WARN"}
  BY MonitoringAssumption DEF ProvideData
-----------------------------------------------------------------------------
(* Queues. *)

\* The element of the queue of s.
Of(s) == IF s \in Senders THEN Alert ELSE Reading

QueueType(q) ==
    /\ q \in [Services -> Seq(Reading \cup Alert)]
    /\ \A s \in {"central", "notifier"} : q[s] \in Seq(Reading)
    /\ \A s \in Senders : q[s] \in Seq(Alert)

\* The index in the queue of s before the head of `from` was taken.
Before(s, i, from) == IF s = from THEN i + 1 ELSE i

\* The queues p hold what q held, but perhaps the head of `from`, and m at the
\* end of `to`.
Moved(q, p, from, to, m) ==
    /\ QueueType(p)
    /\ \A s \in Services : \A i \in DOMAIN p[s] :
          \/ /\ Before(s, i, from) \in DOMAIN q[s] /\ i \in Nat \ {0}
             /\ p[s][i] = q[s][Before(s, i, from)]
          \/ s = to /\ i = Len(p[s]) /\ p[s][i] = m
    /\ \A s \in Services : s = to \/ Len(p[s]) <= Len(q[s])

\* Entries are sequences, of readings or of alerts about them.
LEMMA QueueFacts ==
  ASSUME NEW q, QueueType(q), NEW s \in Services
  PROVE  /\ q[s] \in Seq(Of(s))
         /\ Len(q[s]) \in Nat /\ DOMAIN q[s] = 1..Len(q[s])
         /\ \A i \in DOMAIN q[s] : /\ q[s][i] \in Of(s)
                                  /\ ReadingOf(s, q[s][i]) \in Reading
<1>1. q[s] \in Seq(Of(s))
  <2>1. CASE s \in Senders
    BY <2>1 DEF QueueType, Of
  <2>2. CASE s \notin Senders
    BY <2>2 DEF QueueType, Of, Services
  <2> QED BY <2>1, <2>2
<1>2. Len(q[s]) \in Nat /\ DOMAIN q[s] = 1..Len(q[s])
  BY <1>1
<1>3. \A i \in DOMAIN q[s] : q[s][i] \in Of(s)
  BY <1>1, <1>2, ElementOfSeq
<1>4. \A i \in DOMAIN q[s] : ReadingOf(s, q[s][i]) \in Reading
  BY <1>3 DEF ReadingOf, Alert, Of
<1> QED BY <1>1, <1>2, <1>3, <1>4

\* What Append and Tail do, index by index.
LEMMA AppendFacts ==
  ASSUME NEW S, NEW q \in Seq(S), NEW m \in S
  PROVE  /\ Append(q, m) \in Seq(S)
         /\ Len(Append(q, m)) = Len(q) + 1 /\ DOMAIN Append(q, m) = 1..(Len(q) + 1)
         /\ \A i \in 1..Len(q) : Append(q, m)[i] = q[i]
         /\ Append(q, m)[Len(q) + 1] = m
  BY AppendProperties

\* What remains of a queue when its head is taken.
LEMMA TailFacts ==
  ASSUME NEW S, NEW q \in Seq(S), q # <<>>
  PROVE  /\ Tail(q) \in Seq(S)
         /\ Len(Tail(q)) = Len(q) - 1 /\ DOMAIN Tail(q) = 1..(Len(q) - 1)
         /\ \A i \in 1..(Len(q) - 1) : Tail(q)[i] = q[i + 1]
         /\ 1 \in DOMAIN q /\ Head(q) = q[1] /\ q[1] \in S
<1>1. Len(q) \in Nat \ {0} /\ DOMAIN q = 1..Len(q)
  BY EmptySeq, LenProperties
<1>2. 1 \in DOMAIN q /\ q[1] \in S /\ Head(q) = q[1]
  BY <1>1, ElementOfSeq
<1>3. Tail(q) \in Seq(S) /\ Len(Tail(q)) = Len(q) - 1
      /\ \A i \in 1..Len(Tail(q)) : Tail(q)[i] = q[i + 1]
  BY HeadTailProperties
<1>4. DOMAIN Tail(q) = 1..Len(Tail(q))
  BY <1>3, LenProperties
<1> QED BY <1>2, <1>3, <1>4

Replaced(q, s, x) == [q EXCEPT ![s] = x]

\* Putting one queue in place keeps the types of the queues.
LEMMA QueueTypeExcept ==
  ASSUME NEW q, QueueType(q), NEW s \in Services, NEW x \in Seq(Of(s))
  PROVE  /\ QueueType(Replaced(q, s, x))
         /\ Replaced(q, s, x)[s] = x
         /\ \A u \in Services : u # s => Replaced(q, s, x)[u] = q[u]
<1>1. x \in Seq(Reading \cup Alert)
  <2>1. Of(s) \subseteq Reading \cup Alert
    BY DEF Of
  <2> QED BY <2>1, SeqMonotonic
<1>2. s \in {"central", "notifier"} => x \in Seq(Reading)
  BY DEF Of, Senders
<1>3. s \in Senders => x \in Seq(Alert)
  BY DEF Of
<1> QED BY <1>1, <1>2, <1>3 DEF QueueType, Services, Replaced

\* Nothing moves.
LEMMA MovedSame ==
  ASSUME NEW q, QueueType(q)
  PROVE  Moved(q, q, "nobody", "nobody", None)
<1>1. \A u \in Services : Len(q[u]) \in Nat /\ DOMAIN q[u] = 1..Len(q[u])
  BY QueueFacts
<1>2. "nobody" \notin Services
  BY DEF Services, Senders
<1>3. \A u \in Services : \A i \in DOMAIN q[u] : i \in Nat \ {0}
  BY <1>1
<1>4. \A u \in Services : Len(q[u]) <= Len(q[u])
  BY <1>1
<1> QED BY <1>2, <1>3, <1>4 DEF Moved, Before

\* One message is appended, after the head of `from` was taken perhaps.
LEMMA MovedAppend ==
  ASSUME NEW q, QueueType(q), NEW p, NEW from, Moved(q, p, from, "nobody", None),
         NEW s \in Services, NEW m \in Of(s)
  PROVE  Moved(q, Replaced(p, s, Append(p[s], m)), from, s, m)
<1> DEFINE x == Append(p[s], m)
           new == Replaced(p, s, x)
<1>1. QueueType(p)
  BY DEF Moved
<1>2. /\ x \in Seq(Of(s))
      /\ Len(x) = Len(p[s]) + 1 /\ DOMAIN x = 1..(Len(p[s]) + 1)
      /\ \A i \in 1..Len(p[s]) : x[i] = p[s][i]
      /\ x[Len(p[s]) + 1] = m
  <2>1. p[s] \in Seq(Of(s))
    BY <1>1, QueueFacts
  <2> QED BY <2>1, AppendFacts
<1> HIDE DEF x
<1>3. QueueType(new) /\ new[s] = x /\ \A u \in Services : u # s => new[u] = p[u]
  BY <1>1, <1>2, QueueTypeExcept
<1> HIDE DEF new
<1>4. /\ "nobody" \notin Services
      /\ \A u \in Services : Len(p[u]) \in Nat /\ DOMAIN p[u] = 1..Len(p[u])
  BY <1>1, QueueFacts DEF Services, Senders
<1>5. \A u \in Services : \A i \in DOMAIN p[u] :
        /\ Before(u, i, from) \in DOMAIN q[u] /\ i \in Nat \ {0}
        /\ p[u][i] = q[u][Before(u, i, from)]
  BY <1>4 DEF Moved
<1>6. ASSUME NEW u \in Services, NEW i \in DOMAIN new[u]
      PROVE  \/ /\ Before(u, i, from) \in DOMAIN q[u] /\ i \in Nat \ {0}
                /\ new[u][i] = q[u][Before(u, i, from)]
             \/ u = s /\ i = Len(new[u]) /\ new[u][i] = m
  <2>1. CASE u # s
    BY <1>3, <1>5, <2>1
  <2>2. CASE u = s /\ i = Len(p[s]) + 1
    BY <1>2, <1>3, <2>2
  <2>3. CASE u = s /\ i # Len(p[s]) + 1
    <3>1. i \in 1..Len(p[s]) /\ i \in DOMAIN p[s]
      BY <1>2, <1>3, <1>4, <2>3
    <3>2. new[u][i] = p[s][i]
      BY <1>2, <1>3, <2>3, <3>1
    <3> QED BY <1>5, <2>3, <3>1, <3>2
  <2> QED BY <2>1, <2>2, <2>3
<1>7. \A u \in Services : u = s \/ Len(new[u]) <= Len(q[u])
  BY <1>3, <1>4 DEF Moved
<1>8. Moved(q, new, from, s, m)
  BY <1>3, <1>6, <1>7 DEF Moved
<1> QED BY <1>8 DEF new, x

\* Publishing appends one message, or nothing.
LEMMA PublishMoves ==
  ASSUME QueueType(queue), NEW s \in Services, NEW m \in Of(s), Publish(s, m)
  PROVE  \/ Moved(queue, queue', "nobody", "nobody", None)
         \/ Moved(queue, queue', "nobody", s, m)
<1>1. queue' = queue \/ queue' = Replaced(queue, s, Append(queue[s], m))
  BY DEF Publish, Replaced
<1>2. Moved(queue, queue, "nobody", "nobody", None)
  BY MovedSame
<1>3. Moved(queue, Replaced(queue, s, Append(queue[s], m)), "nobody", s, m)
  BY <1>2, MovedAppend
<1> QED BY <1>1, <1>2, <1>3

\* A queue is lost.
LEMMA StopMoves ==
  ASSUME QueueType(queue), NEW s \in Services
  PROVE  Moved(queue, Replaced(queue, s, <<>>), "nobody", "nobody", None)
<1> DEFINE p == Replaced(queue, s, <<>>)
<1>1. <<>> \in Seq(Of(s)) /\ Len(<<>>) = 0 /\ DOMAIN <<>> = {}
  BY EmptySeq
<1>2. QueueType(p) /\ p[s] = <<>> /\ \A u \in Services : u # s => p[u] = queue[u]
  BY <1>1, QueueTypeExcept
<1> HIDE DEF p
<1>3. /\ "nobody" \notin Services
      /\ \A u \in Services : Len(queue[u]) \in Nat /\ DOMAIN queue[u] = 1..Len(queue[u])
  BY QueueFacts DEF Services, Senders
<1>4. ASSUME NEW u \in Services, NEW i \in DOMAIN p[u]
      PROVE  /\ Before(u, i, "nobody") \in DOMAIN queue[u] /\ i \in Nat \ {0}
             /\ p[u][i] = queue[u][Before(u, i, "nobody")]
  <2>1. u # s /\ p[u] = queue[u]
    BY <1>1, <1>2
  <2> QED BY <1>3, <2>1 DEF Before
<1>5. \A u \in Services : Len(p[u]) <= Len(queue[u])
  BY <1>1, <1>2, <1>3
<1>6. Moved(queue, p, "nobody", "nobody", None)
  BY <1>2, <1>4, <1>5 DEF Moved
<1> QED BY <1>6 DEF p

\* Taking the head of a queue.
LEMMA RestMoves ==
  ASSUME QueueType(queue), NEW s \in Services, Consume(s)
  PROVE  /\ Moved(queue, Rest(s), s, "nobody", None)
         /\ 1 \in DOMAIN queue[s] /\ Head(queue[s]) = queue[s][1]
         /\ Head(queue[s]) \in Of(s)
<1>1. \A u \in Services : Len(queue[u]) \in Nat /\ DOMAIN queue[u] = 1..Len(queue[u])
  BY QueueFacts
<1>2. queue[s] \in Seq(Of(s)) /\ queue[s] # <<>>
  BY QueueFacts DEF Consume
<1>3. /\ Tail(queue[s]) \in Seq(Of(s))
      /\ Len(Tail(queue[s])) = Len(queue[s]) - 1
      /\ DOMAIN Tail(queue[s]) = 1..(Len(queue[s]) - 1)
      /\ \A i \in 1..(Len(queue[s]) - 1) : Tail(queue[s])[i] = queue[s][i + 1]
      /\ 1 \in DOMAIN queue[s] /\ Head(queue[s]) = queue[s][1] /\ queue[s][1] \in Of(s)
  BY <1>2, TailFacts
<1>4. PICK p : /\ p = Rest(s) /\ QueueType(p) /\ p[s] = Tail(queue[s])
               /\ \A u \in Services : u # s => p[u] = queue[u]
  <2> DEFINE x == Tail(queue[s])
  <2>1. Rest(s) = Replaced(queue, s, x) /\ x \in Seq(Of(s))
    BY <1>3 DEF Rest, Replaced
  <2> HIDE DEF x
  <2>2. /\ QueueType(Rest(s)) /\ Rest(s)[s] = x
        /\ \A u \in Services : u # s => Rest(s)[u] = queue[u]
    BY <2>1, QueueTypeExcept
  <2> QED BY <2>2 DEF x
<1>5. ASSUME NEW u \in Services, NEW i \in DOMAIN p[u]
      PROVE  /\ Before(u, i, s) \in DOMAIN queue[u] /\ i \in Nat \ {0}
             /\ p[u][i] = queue[u][Before(u, i, s)]
  <2>1. CASE u = s
    <3>1. i \in 1..(Len(queue[s]) - 1) /\ p[u] = Tail(queue[s])
      BY <1>3, <1>4, <2>1
    <3>2. i \in Nat \ {0} /\ i + 1 \in DOMAIN queue[s]
      BY <1>1, <3>1
    <3>3. p[u][i] = queue[s][i + 1]
      BY <1>3, <3>1
    <3> QED BY <2>1, <3>2, <3>3 DEF Before
  <2>2. CASE u # s
    BY <1>1, <1>4, <2>2 DEF Before
  <2> QED BY <2>1, <2>2
<1>6. \A u \in Services : Len(p[u]) <= Len(queue[u])
  <2> TAKE u \in Services
  <2>1. CASE u = s
    <3>1. Len(p[u]) = Len(queue[s]) - 1 /\ Len(queue[s]) \in Nat
      BY <1>1, <1>3, <1>4, <2>1
    <3> QED BY <2>1, <3>1
  <2>2. CASE u # s
    BY <1>1, <1>4, <2>2
  <2> QED BY <2>1, <2>2
<1>7. Moved(queue, p, s, "nobody", None)
  BY <1>4, <1>5, <1>6 DEF Moved
<1> QED BY <1>3, <1>4, <1>7

\* An entry was there before, and not as the head that was taken, or is new.
LEMMA Origin ==
  ASSUME QueueType(queue), NEW from, NEW to, NEW m, Moved(queue, queue', from, to, m)
  PROVE  \A s \in Services : \A i \in DOMAIN queue'[s] :
            /\ i \in Nat
            /\ \/ \E k \in DOMAIN queue[s] :
                     /\ k = Before(s, i, from) /\ (s = from => k # 1)
                     /\ About(queue', s, i) = About(queue, s, k)
               \/ s = to /\ i = Len(queue'[s]) /\ About(queue', s, i) = ReadingOf(to, m)
<1> TAKE s \in Services
<1> TAKE i \in DOMAIN queue'[s]
<1>1. i \in Nat /\ i # 0
  BY QueueFacts DEF Moved
<1>2. CASE /\ Before(s, i, from) \in DOMAIN queue[s]
           /\ queue'[s][i] = queue[s][Before(s, i, from)]
  <2>1. s = from => Before(s, i, from) # 1
    BY <1>1 DEF Before
  <2> QED BY <1>1, <1>2, <2>1 DEF About
<1>3. CASE s = to /\ i = Len(queue'[s]) /\ queue'[s][i] = m
  BY <1>1, <1>3 DEF About
<1> QED BY <1>2, <1>3 DEF Moved

\* The reading was nowhere but at the head of `from` perhaps, and may be in `to`.
Fresh(from, r) ==
    /\ \A s \in Services : \A k \in DOMAIN queue[s] : About(queue, s, k) = r => s = from /\ k = 1
    /\ \A j \in DOMAIN sent : sent[j].reading # r

Belongs(to, r, reported, stored) ==
    /\ r \in reported
    /\ to # "central" => r \in stored
    /\ to \in Senders => r.type = "ERROR"

\* What holds of the queues holds after a message was moved.
LEMMA QueueStep ==
  ASSUME QueueType(queue), EntriesOK, EntriesApart,
         NEW from, NEW to, NEW m, Moved(queue, queue', from, to, m),
         submitted \subseteq submitted', log \subseteq log',
         to \in Services => /\ Fresh(from, ReadingOf(to, m))
                            /\ Belongs(to, ReadingOf(to, m), submitted', log')
  PROVE  EntriesOK' /\ EntriesApart'
<1> DEFINE r == ReadingOf(to, m)
<1>1. \A s \in Services : \A i \in DOMAIN queue'[s] :
        /\ i \in Nat
        /\ \/ \E k \in DOMAIN queue[s] :
                 /\ k = Before(s, i, from) /\ (s = from => k # 1)
                 /\ About(queue', s, i) = About(queue, s, k)
           \/ s = to /\ i = Len(queue'[s]) /\ About(queue', s, i) = r
  BY Origin
<1>2. to \in Services => /\ r \in submitted' /\ (to # "central" => r \in log')
                         /\ to \in Senders => r.type = "ERROR"
  BY DEF Belongs
<1>3. to \in Services => \A s \in Services : \A k \in DOMAIN queue[s] :
                            About(queue, s, k) = r => s = from /\ k = 1
  BY DEF Fresh
<1> HIDE DEF r
<1>4. EntriesOK'
  <2> SUFFICES ASSUME NEW s \in Services, NEW i \in DOMAIN queue'[s]
               PROVE  /\ About(queue', s, i) \in submitted'
                      /\ s # "central" => About(queue', s, i) \in log'
                      /\ s \in Senders => About(queue', s, i).type = "ERROR"
    BY DEF EntriesOK
  <2> DEFINE e == About(queue', s, i)
  <2>1. CASE \E k \in DOMAIN queue[s] : e = About(queue, s, k)
    <3>1. PICK k \in DOMAIN queue[s] : e = About(queue, s, k)
      BY <2>1
    <3> HIDE DEF e
    <3>2. /\ e \in submitted /\ (s # "central" => e \in log)
          /\ s \in Senders => e.type = "ERROR"
      BY <3>1 DEF EntriesOK
    <3> QED BY <3>2 DEF e
  <2>2. CASE s = to /\ e = r
    BY <1>2, <2>2
  <2> QED BY <1>1, <2>1, <2>2
<1>5. EntriesApart'
  <2> SUFFICES ASSUME NEW s \in Services, NEW u \in Services,
                      NEW i \in DOMAIN queue'[s], NEW j \in DOMAIN queue'[u],
                      About(queue', s, i) = About(queue', u, j)
               PROVE  s = u /\ i = j
    BY DEF EntriesApart
  <2> DEFINE e == About(queue', s, i)
  <2>1. e = About(queue', u, j) /\ i \in Nat /\ j \in Nat
    BY <1>1
  <2>2. \/ \E k \in DOMAIN queue[s] : k = Before(s, i, from) /\ (s = from => k # 1) /\ e = About(queue, s, k)
        \/ s = to /\ i = Len(queue'[s]) /\ e = r
    BY <1>1
  <2>3. \/ \E k \in DOMAIN queue[u] : k = Before(u, j, from) /\ (u = from => k # 1) /\ e = About(queue, u, k)
        \/ u = to /\ j = Len(queue'[u]) /\ e = r
    BY <1>1, <2>1
  <2> HIDE DEF e
  <2>4. CASE e = r /\ to \in Services
    <3>1. s = to /\ i = Len(queue'[s])
      BY <1>3, <2>2, <2>4
    <3>2. u = to /\ j = Len(queue'[u])
      BY <1>3, <2>3, <2>4
    <3> QED BY <3>1, <3>2
  <2>5. CASE ~(e = r /\ to \in Services)
    <3>1. PICK k \in DOMAIN queue[s] : k = Before(s, i, from) /\ e = About(queue, s, k)
      BY <2>2, <2>5
    <3>2. PICK l \in DOMAIN queue[u] : l = Before(u, j, from) /\ e = About(queue, u, l)
      BY <2>3, <2>5
    <3>3. s = u /\ k = l
      <4>1. About(queue, s, k) = About(queue, u, l)
        BY <3>1, <3>2
      <4> HIDE <3>1, <3>2
      <4> QED BY <4>1 DEF EntriesApart
    <3>4. Before(s, i, from) = Before(s, j, from)
      BY <3>1, <3>2, <3>3
    <3> QED BY <2>1, <3>3, <3>4 DEF Before
  <2> QED BY <2>4, <2>5
<1> QED BY <1>4, <1>5

\* What was sent stays out of the queues.
LEMMA SentStep ==
  ASSUME QueueType(queue), SentOK, UNCHANGED sent,
         NEW from, NEW to, NEW m, Moved(queue, queue', from, to, m),
         submitted \subseteq submitted', log \subseteq log',
         to \in Services => Fresh(from, ReadingOf(to, m))
  PROVE  SentOK'
<1>1. \A s \in Services : \A i \in DOMAIN queue'[s] :
        \/ \E k \in DOMAIN queue[s] : About(queue', s, i) = About(queue, s, k)
        \/ s = to /\ About(queue', s, i) = ReadingOf(to, m)
  BY Origin
<1> SUFFICES ASSUME NEW j \in DOMAIN sent
             PROVE  /\ sent[j].reading \in submitted' \cap log'
                    /\ sent[j].reading.type = "ERROR"
                    /\ \A s \in Services : \A i \in DOMAIN queue'[s] :
                          About(queue', s, i) # sent[j].reading
  BY DEF SentOK
<1>2. /\ sent[j].reading \in submitted \cap log /\ sent[j].reading.type = "ERROR"
      /\ \A s \in Services : \A k \in DOMAIN queue[s] : About(queue, s, k) # sent[j].reading
  BY DEF SentOK
<1>3. to \in Services => sent[j].reading # ReadingOf(to, m)
  BY DEF Fresh
<1> QED BY <1>1, <1>2, <1>3

\* What central works on is where its stage allows after a message was moved.
LEMMA WorkStep ==
  ASSUME QueueType(queue), WorkOK, UNCHANGED <<work, stage, pending, sent>>,
         NEW from, NEW to, NEW m, Moved(queue, queue', from, to, m),
         submitted \subseteq submitted', log \subseteq log',
         to \in Services /\ ReadingOf(to, m) = work => stage = "notified" /\ to # "central"
  PROVE  WorkOK'
<1>1. \A s \in Services : \A i \in DOMAIN queue'[s] :
        \/ \E k \in DOMAIN queue[s] : About(queue', s, i) = About(queue, s, k)
        \/ s = to /\ About(queue', s, i) = ReadingOf(to, m)
  BY Origin
<1>2. \A s \in Services : \A k \in DOMAIN queue[s] :
        About(queue, s, k) = work => stage = "notified" /\ s # "central"
  BY DEF WorkOK
<1>3. \A s \in Services : \A i \in DOMAIN queue'[s] :
        About(queue', s, i) = work => stage = "notified" /\ s # "central"
  BY <1>1, <1>2
<1> QED BY <1>3 DEF WorkOK

\* What TypeOK says of everything but the queues.
TypeRest ==
    /\ up \subseteq Services
    /\ waiting \in [Tokens -> Reading \cup {None}]
    /\ count \in [Tokens -> 0..MaxReadings]
    /\ stage \in {"idle", "save", "saved", "notified"}
    /\ stage = "idle" <=> work = None
    /\ stage = "save" => work \in pending
    /\ work \in Reading \cup {None}
    /\ pending \subseteq Reading /\ log \subseteq Reading
    /\ redis \subseteq Tokens
    /\ config \in [Admins -> AdminConfig]
    /\ cache \in [Admins -> AdminConfig \cup {None}]
    /\ sent \in Seq(Alert)
    /\ submitted \subseteq Reading /\ acked \subseteq Reading
    /\ held \in [Admins -> SUBSET AdminConfig]
    /\ changes \in 0..MaxChanges /\ faults \in 0..MaxFaults

\* The type of the queues apart from the rest, which most steps leave alone.
LEMMA TypeSplit ==
  /\ TypeOK <=> QueueType(queue) /\ TypeRest
  /\ TypeOK' <=> QueueType(queue') /\ TypeRest'
<1>1. TypeOK <=> QueueType(queue) /\ TypeRest
  BY DEF TypeOK, QueueType, TypeRest
<1>2. TypeOK' <=> QueueType(queue') /\ TypeRest'
  BY DEF TypeOK, QueueType, TypeRest
<1> QED BY <1>1, <1>2

\* The elements of a sequence of alerts are about readings.
LEMMA SentFacts ==
  ASSUME NEW q \in Seq(Alert)
  PROVE  \A j \in DOMAIN q : q[j] \in Alert /\ q[j].reading \in Reading
<1>1. \A j \in DOMAIN q : q[j] \in Alert
  <2>1. DOMAIN q = 1..Len(q)
    BY LenProperties
  <2> QED BY <2>1, ElementOfSeq
<1> QED BY <1>1 DEF Alert

\* With nothing to store, central's part of the invariant holds.
LEMMA IdleWork ==
  ASSUME QueueType(queue'), TypeRest', work' = None, stage' = "idle"
  PROVE  WorkOK'
<1>1. \A s \in Services : \A i \in DOMAIN queue'[s] : About(queue', s, i) \in Reading
  BY QueueFacts DEF About
<1>2. \A j \in DOMAIN sent' : sent'[j].reading \in Reading
  <2>1. sent' \in Seq(Alert)
    BY DEF TypeRest
  <2> QED BY <2>1, SentFacts
<1>3. None \notin Reading
  BY NoneAssumption
<1> QED BY <1>1, <1>2, <1>3 DEF WorkOK

\* The invariant's part about queues and alerts, in a step that sends none.
LEMMA QueuePart ==
  ASSUME IInv, UNCHANGED sent,
         NEW from, NEW to, NEW m, Moved(queue, queue', from, to, m),
         submitted \subseteq submitted', log \subseteq log',
         to \in Services => /\ Fresh(from, ReadingOf(to, m))
                            /\ Belongs(to, ReadingOf(to, m), submitted', log')
  PROVE  QueueType(queue') /\ EntriesOK' /\ EntriesApart' /\ SentOK' /\ AlertedOnce'
<1>1. QueueType(queue) /\ EntriesOK /\ EntriesApart /\ SentOK /\ AlertedOnce
  BY TypeSplit DEF IInv
<1>2. EntriesOK' /\ EntriesApart'
  BY <1>1, QueueStep
<1>3. SentOK'
  BY <1>1, SentStep
<1>4. AlertedOnce'
  BY <1>1 DEF AlertedOnce
<1>5. QueueType(queue')
  BY DEF Moved
<1> QED BY <1>2, <1>3, <1>4, <1>5

\* The same for a step that moves nothing.
LEMMA StillPart ==
  ASSUME IInv, UNCHANGED <<queue, sent>>, submitted \subseteq submitted', log \subseteq log'
  PROVE  /\ Moved(queue, queue', "nobody", "nobody", None)
         /\ QueueType(queue') /\ EntriesOK' /\ EntriesApart' /\ SentOK' /\ AlertedOnce'
<1>1. QueueType(queue)
  BY TypeSplit DEF IInv
<1>2. Moved(queue, queue', "nobody", "nobody", None) /\ "nobody" \notin Services
  BY <1>1, MovedSame DEF Services, Senders
<1> QED BY <1>2, QueuePart

\* The parts of the invariant.
LEMMA InvariantParts ==
  ASSUME QueueType(queue'), TypeRest', SubmittedOK', EntriesOK', EntriesApart', SentOK', WorkOK',
         CacheOK', AckedIsLogged', AlertedOnce'
  PROVE  IInv'
  BY TypeSplit DEF IInv
-----------------------------------------------------------------------------
(* The steps. *)

\* Nothing is queued, stored or sent.
LEMMA InitInvariant == Init => IInv
<1> SUFFICES ASSUME Init PROVE IInv
  OBVIOUS
<1>1. \A s \in Services : queue[s] = <<>>
  BY DEF Init
<1>2. QueueType(queue)
  <2>1. \A S : <<>> \in Seq(S)
    BY EmptySeq
  <2> QED BY <2>1 DEF Init, QueueType, Services, Senders
<1>3. TypeRest
  <2>1. sent \in Seq(Alert)
    BY EmptySeq DEF Init
  <2>2. held \in [Admins -> SUBSET AdminConfig]
    BY DEF Init
  <2> QED BY <2>1, <2>2, MonitoringAssumption DEF Init, TypeRest
<1>4. DOMAIN sent = {} /\ \A s \in Services : DOMAIN queue[s] = {}
  BY <1>1, EmptySeq DEF Init
<1>5. SubmittedOK /\ CacheOK /\ AckedIsLogged
  BY DEF Init, SubmittedOK, CacheOK, AckedIsLogged
<1>6. EntriesOK /\ EntriesApart /\ SentOK /\ WorkOK /\ AlertedOnce
  BY <1>4 DEF Init, EntriesOK, EntriesApart, SentOK, WorkOK, AlertedOnce
<1> QED BY <1>2, <1>3, <1>5, <1>6, TypeSplit DEF IInv

\* A report is of a reading that was never seen, and not severe if the agent
\* is a stock one.
LEMMA ReportInvariant ==
  ASSUME IInv, NEW t \in Tokens, Report(t)
  PROVE  IInv'
<1>1. /\ QueueType(queue) /\ TypeRest
      /\ SubmittedOK /\ SentOK /\ WorkOK /\ CacheOK /\ AckedIsLogged /\ EntriesOK
  BY TypeSplit DEF IInv
<1>2. PICK type \in IF t \in Stock THEN {ProvideData(cpu) : cpu \in Cpus} ELSE Types :
        LET r == [token |-> t, n |-> count[t] + 1, type |-> type]
        IN /\ waiting' = [waiting EXCEPT ![t] = r]
           /\ submitted' = submitted \cup {r}
           /\ Publish("central", r)
  BY DEF Report
<1>3. /\ count[t] < MaxReadings /\ count' = [count EXCEPT ![t] = @ + 1]
      /\ UNCHANGED <<up, acked, work, stage, pending, log, redis, config, held, changes,
                     cache, sent, faults>>
  BY DEF Report, storing, administration
<1>4. type \in AllTypes /\ (t \in Stock => type # "ERROR")
  BY ProvideDataMild DEF AllTypes
<1>5. count[t] \in 0..MaxReadings /\ MaxReadings \in Nat /\ DOMAIN count = Tokens
  BY <1>1, MonitoringAssumption DEF TypeRest
<1> DEFINE r == [token |-> t, n |-> count[t] + 1, type |-> type]
<1>6. /\ r \in Reading /\ r.token = t /\ r.n = count[t] + 1 /\ r.type = type
      /\ r \notin submitted
  <2>1. count[t] + 1 \in 1..MaxReadings /\ ~(count[t] + 1 <= count[t])
    BY <1>3, <1>5
  <2>2. r \in Reading /\ r.token = t /\ r.n = count[t] + 1 /\ r.type = type
    BY <1>4, <2>1 DEF Reading
  <2> QED BY <1>1, <2>1, <2>2 DEF SubmittedOK
<1>7. /\ waiting' = [waiting EXCEPT ![t] = r]
      /\ submitted' = submitted \cup {r} /\ Publish("central", r)
  BY <1>2
<1> HIDE DEF r
<1>8. /\ "central" \in Services /\ "central" \notin Senders /\ "nobody" \notin Services
      /\ ReadingOf("central", r) = r /\ r \in Of("central")
  BY <1>6 DEF Services, Senders, ReadingOf, Of
<1>9. Fresh("nobody", r) /\ Belongs("central", r, submitted', log')
  <2>1. \A s \in Services : \A k \in DOMAIN queue[s] : About(queue, s, k) # r
    BY <1>1, <1>6 DEF EntriesOK
  <2>2. \A j \in DOMAIN sent : sent[j].reading # r
    BY <1>1, <1>6 DEF SentOK
  <2> QED BY <1>7, <1>8, <2>1, <2>2 DEF Fresh, Belongs
<1>10. PICK to : /\ Moved(queue, queue', "nobody", to, IF to = "nobody" THEN None ELSE r)
                 /\ to \in {"nobody", "central"}
  BY <1>1, <1>7, <1>8, PublishMoves
<1> DEFINE m == IF to = "nobody" THEN None ELSE r
<1>11. to \in Services => to = "central" /\ m = r
  BY <1>8, <1>10
<1>12. Moved(queue, queue', "nobody", to, m)
  BY <1>10
<1> HIDE DEF m
<1>13. QueueType(queue') /\ EntriesOK' /\ EntriesApart' /\ SentOK' /\ AlertedOnce'
  BY <1>3, <1>7, <1>8, <1>9, <1>11, <1>12, QueuePart
<1>14. TypeRest'
  BY <1>1, <1>3, <1>5, <1>6, <1>7 DEF TypeRest
<1>15. SubmittedOK'
  <2>1. ASSUME NEW x \in submitted
        PROVE  x.n <= count'[x.token] /\ (x.token \in Stock => x.type # "ERROR")
    <3>1. x \in Reading /\ x.token \in Tokens /\ x.n \in Nat
      BY <1>1 DEF TypeRest, Reading
    <3>2. x.n <= count[x.token] /\ (x.token \in Stock => x.type # "ERROR")
      BY <1>1 DEF SubmittedOK
    <3>3. count[x.token] \in Nat /\ count'[x.token] \in Nat /\ count[x.token] <= count'[x.token]
      BY <1>1, <1>3, <1>5, <3>1 DEF TypeRest
    <3> QED BY <3>1, <3>2, <3>3
  <2>2. r.n <= count'[r.token] /\ (r.token \in Stock => r.type # "ERROR")
    BY <1>3, <1>4, <1>5, <1>6
  <2> QED BY <1>1, <1>3, <1>7, <2>1, <2>2 DEF SubmittedOK
<1>16. WorkOK'
  <2>1. r # work
    BY <1>1, <1>6, NoneAssumption DEF WorkOK
  <2> QED BY <1>1, <1>3, <1>7, <1>8, <1>11, <1>12, <2>1, WorkStep
<1>17. CacheOK' /\ AckedIsLogged'
  BY <1>1, <1>3 DEF CacheOK, AckedIsLogged
<1> QED BY <1>13, <1>14, <1>15, <1>16, <1>17, InvariantParts

\* An agent forgets what it waits for.
LEMMA AgentRestartInvariant ==
  ASSUME IInv, NEW t \in Tokens, AgentRestart(t)
  PROVE  IInv'
<1>1. TypeRest /\ SubmittedOK /\ WorkOK /\ CacheOK /\ AckedIsLogged /\ QueueType(queue)
  BY TypeSplit DEF IInv
<1>2. /\ waiting' = [waiting EXCEPT ![t] = None] /\ faults < MaxFaults /\ faults' = faults + 1
      /\ UNCHANGED <<up, queue, count, submitted, acked, work, stage, pending, log, redis,
                     config, held, changes, cache, sent>>
  BY DEF AgentRestart, Fault, storing, administration
<1>3. /\ Moved(queue, queue', "nobody", "nobody", None)
      /\ QueueType(queue') /\ EntriesOK' /\ EntriesApart' /\ SentOK' /\ AlertedOnce'
  BY <1>2, StillPart
<1>4. TypeRest'
  BY <1>1, <1>2, MonitoringAssumption DEF TypeRest
<1>5. WorkOK'
  BY <1>1, <1>2 DEF WorkOK
<1>6. SubmittedOK' /\ CacheOK' /\ AckedIsLogged'
  BY <1>1, <1>2 DEF SubmittedOK, CacheOK, AckedIsLogged
<1> QED BY <1>3, <1>4, <1>5, <1>6, InvariantParts

\* The reading at the head of a queue is one the invariant speaks of, and
\* waits nowhere once it is taken.
LEMMA HeadFacts ==
  ASSUME IInv, NEW s \in Services, Consume(s)
  PROVE  LET h == ReadingOf(s, Head(queue[s]))
         IN /\ Head(queue[s]) \in Of(s) /\ h \in Reading
            /\ 1 \in DOMAIN queue[s] /\ About(queue, s, 1) = h
            /\ h \in submitted /\ (s # "central" => h \in log)
            /\ s \in Senders => h.type = "ERROR"
            /\ Fresh(s, h)
            /\ Moved(queue, Rest(s), s, "nobody", None)
            /\ queue' = Rest(s) =>
                  \A u \in Services : \A i \in DOMAIN queue'[u] : About(queue', u, i) # h
<1> DEFINE h == ReadingOf(s, Head(queue[s]))
<1>1. QueueType(queue) /\ EntriesOK /\ EntriesApart /\ SentOK
  BY TypeSplit DEF IInv
<1>2. /\ Moved(queue, Rest(s), s, "nobody", None)
      /\ 1 \in DOMAIN queue[s] /\ Head(queue[s]) = queue[s][1] /\ Head(queue[s]) \in Of(s)
  BY <1>1, RestMoves
<1>3. About(queue, s, 1) = h /\ h \in Reading
  BY <1>1, <1>2, QueueFacts DEF About
<1> HIDE DEF h
<1>4. h \in submitted /\ (s # "central" => h \in log) /\ (s \in Senders => h.type = "ERROR")
  BY <1>1, <1>2, <1>3 DEF EntriesOK
<1>5. \A u \in Services : \A k \in DOMAIN queue[u] : About(queue, u, k) = h => u = s /\ k = 1
  BY <1>1, <1>2, <1>3 DEF EntriesApart
<1>6. \A j \in DOMAIN sent : sent[j].reading # h
  BY <1>1, <1>2, <1>3 DEF SentOK
<1>7. Fresh(s, h)
  BY <1>5, <1>6 DEF Fresh
<1>8. ASSUME queue' = Rest(s), NEW u \in Services, NEW i \in DOMAIN queue'[u]
      PROVE  About(queue', u, i) # h
  <2>1. Moved(queue, queue', s, "nobody", None) /\ "nobody" \notin Services
    BY <1>2, <1>8 DEF Services, Senders
  <2>2. \E k \in DOMAIN queue[u] : (u = s => k # 1) /\ About(queue', u, i) = About(queue, u, k)
    BY <1>1, <2>1, Origin
  <2> QED BY <1>5, <2>2
<1>9. /\ Head(queue[s]) \in Of(s) /\ h \in Reading
      /\ 1 \in DOMAIN queue[s] /\ About(queue, s, 1) = h
      /\ h \in submitted /\ (s # "central" => h \in log)
      /\ s \in Senders => h.type = "ERROR"
      /\ Fresh(s, h)
      /\ Moved(queue, Rest(s), s, "nobody", None)
      /\ queue' = Rest(s) =>
            \A u \in Services : \A i \in DOMAIN queue'[u] : About(queue', u, i) # h
  BY <1>2, <1>3, <1>4, <1>7, <1>8
<1> QED BY <1>9 DEF h

\* The agent, answered or not, waits for a call of its own or for none.
LEMMA AnsweredType ==
  ASSUME TypeRest, NEW r, Answered(r)
  PROVE  waiting' \in [Tokens -> Reading \cup {None}]
  BY DEF TypeRest, Answered

\* A reading of an unknown token, or with bad data, is answered without being
\* stored.
LEMMA DismissInvariant ==
  ASSUME IInv, Dismiss
  PROVE  IInv'
<1>1. TypeRest /\ SubmittedOK /\ WorkOK /\ CacheOK /\ AckedIsLogged /\ QueueType(queue)
  BY TypeSplit DEF IInv
<1>2. /\ Consume("central") /\ queue' = Rest("central") /\ stage = "idle"
      /\ Answered(Head(queue["central"]))
      /\ UNCHANGED <<up, count, submitted, acked, work, stage, pending, log, redis,
                     config, held, changes, cache, sent, faults>>
  BY DEF Dismiss, storing, administration
<1>3. "central" \in Services /\ "nobody" \notin Services
  BY DEF Services, Senders
<1>4. Moved(queue, queue', "central", "nobody", None)
  BY <1>1, <1>2, <1>3, RestMoves
<1>5. QueueType(queue') /\ EntriesOK' /\ EntriesApart' /\ SentOK' /\ AlertedOnce'
  BY <1>2, <1>3, <1>4, QueuePart
<1>6. TypeRest'
  BY <1>1, <1>2, AnsweredType DEF TypeRest
<1>7. WorkOK'
  BY <1>1, <1>2, <1>3, <1>4, WorkStep
<1>8. SubmittedOK' /\ CacheOK' /\ AckedIsLogged'
  BY <1>1, <1>2 DEF SubmittedOK, CacheOK, AckedIsLogged
<1> QED BY <1>5, <1>6, <1>7, <1>8, InvariantParts

\* A reading leaves the queue and is pending.
LEMMA AddInvariant ==
  ASSUME IInv, Add
  PROVE  IInv'
<1>1. TypeRest /\ SubmittedOK /\ WorkOK /\ CacheOK /\ AckedIsLogged /\ QueueType(queue)
  BY TypeSplit DEF IInv
<1>2. /\ Consume("central") /\ queue' = Rest("central") /\ stage = "idle"
      /\ work' = Head(queue["central"]) /\ stage' = "save"
      /\ pending' = pending \cup {work'}
      /\ UNCHANGED <<up, waiting, count, submitted, acked, log, redis,
                     config, held, changes, cache, sent, faults>>
  BY DEF Add, agents, administration
<1>3. "central" \in Services /\ "central" \notin Senders /\ "nobody" \notin Services
  BY DEF Services, Senders
<1>4. /\ work' = ReadingOf("central", Head(queue["central"])) /\ work' \in Reading
      /\ work' \in submitted /\ Fresh("central", work')
      /\ Moved(queue, queue', "central", "nobody", None)
      /\ \A u \in Services : \A i \in DOMAIN queue'[u] : About(queue', u, i) # work'
  <2>1. ReadingOf("central", Head(queue["central"])) = Head(queue["central"])
    BY <1>3 DEF ReadingOf
  <2> QED BY <1>2, <1>3, <2>1, HeadFacts
<1>5. QueueType(queue') /\ EntriesOK' /\ EntriesApart' /\ SentOK' /\ AlertedOnce'
  BY <1>2, <1>3, <1>4, QueuePart
<1>6. TypeRest'
  BY <1>1, <1>2, <1>4, NoneAssumption DEF TypeRest
<1>7. WorkOK'
  BY <1>2, <1>4 DEF WorkOK, Fresh
<1>8. SubmittedOK' /\ CacheOK' /\ AckedIsLogged'
  BY <1>1, <1>2, <1>4 DEF SubmittedOK, CacheOK, AckedIsLogged
<1> QED BY <1>5, <1>6, <1>7, <1>8, InvariantParts

\* All that is pending is stored: the reading in work is among it.
LEMMA SaveInvariant ==
  ASSUME IInv, Save
  PROVE  IInv'
<1>1. TypeRest /\ SubmittedOK /\ WorkOK /\ CacheOK /\ AckedIsLogged
  BY TypeSplit DEF IInv
<1>2. /\ stage = "save" /\ stage' = "saved" /\ log' = log \cup pending /\ pending' = {}
      /\ UNCHANGED <<up, queue, waiting, count, submitted, acked, work, redis,
                     config, held, changes, cache, sent, faults>>
  BY DEF Save, agents, administration
<1>3. QueueType(queue') /\ EntriesOK' /\ EntriesApart' /\ SentOK' /\ AlertedOnce'
  BY <1>2, StillPart
<1>4. TypeRest'
  BY <1>1, <1>2 DEF TypeRest
<1>5. WorkOK'
  <2>1. work \in pending
    BY <1>1, <1>2 DEF TypeRest
  <2> QED BY <1>1, <1>2, <2>1 DEF WorkOK
<1>6. SubmittedOK' /\ CacheOK' /\ AckedIsLogged'
  BY <1>1, <1>2 DEF SubmittedOK, CacheOK, AckedIsLogged
<1> QED BY <1>3, <1>4, <1>5, <1>6, InvariantParts

\* The reading in work is answered with an error, stored or not.
LEMMA SaveFailsInvariant ==
  ASSUME IInv, SaveFails
  PROVE  IInv'
<1>1. TypeRest /\ SubmittedOK /\ CacheOK /\ AckedIsLogged
  BY TypeSplit DEF IInv
<1>2. /\ stage' = "idle" /\ work' = None /\ Answered(work)
      /\ UNCHANGED <<up, queue, count, submitted, acked, pending, redis,
                     config, held, changes, cache, sent>>
  BY DEF SaveFails, administration
<1>3. /\ log' \in {log, log \cup pending}
      /\ faults' = faults \/ (faults < MaxFaults /\ faults' = faults + 1)
  <2>1. \/ log' = log /\ faults' = faults
        \/ Fault /\ log' \in {log, log \cup pending}
    BY DEF SaveFails
  <2>2. log' \in {log, log \cup pending}
    BY <2>1
  <2>3. faults' = faults \/ (faults < MaxFaults /\ faults' = faults + 1)
    BY <2>1 DEF Fault
  <2> QED BY <2>2, <2>3
<1>4. log \subseteq log' /\ log' \subseteq submitted /\ log' \subseteq Reading
  BY <1>1, <1>3 DEF SubmittedOK, TypeRest
<1>5. QueueType(queue') /\ EntriesOK' /\ EntriesApart' /\ SentOK' /\ AlertedOnce'
  BY <1>2, <1>4, StillPart
<1>6. TypeRest'
  <2>1. faults' \in 0..MaxFaults
    BY <1>1, <1>3, MonitoringAssumption DEF TypeRest
  <2> QED BY <1>1, <1>2, <1>4, <2>1, AnsweredType DEF TypeRest
<1>7. WorkOK'
  BY <1>2, <1>5, <1>6, IdleWork
<1>8. SubmittedOK' /\ CacheOK' /\ AckedIsLogged'
  BY <1>1, <1>2, <1>4 DEF SubmittedOK, CacheOK, AckedIsLogged
<1> QED BY <1>5, <1>6, <1>7, <1>8, InvariantParts

\* What is acknowledged was stored in Save.
LEMMA ReturnInvariant ==
  ASSUME IInv, Return
  PROVE  IInv'
<1>1. TypeRest /\ SubmittedOK /\ WorkOK /\ CacheOK /\ AckedIsLogged
  BY TypeSplit DEF IInv
<1>2. /\ stage = "notified" /\ stage' = "idle" /\ work' = None /\ Answered(work)
      /\ acked' = acked \cup {r \in {work} : waiting[r.token] = r}
      /\ UNCHANGED <<up, queue, count, submitted, pending, log, redis,
                     config, held, changes, cache, sent, faults>>
  BY DEF Return, administration
<1>3. acked' \subseteq log
  BY <1>1, <1>2 DEF WorkOK, AckedIsLogged
<1>4. QueueType(queue') /\ EntriesOK' /\ EntriesApart' /\ SentOK' /\ AlertedOnce'
  BY <1>2, StillPart
<1>5. TypeRest'
  BY <1>1, <1>2, <1>3, AnsweredType DEF TypeRest
<1>6. WorkOK'
  BY <1>2, <1>4, <1>5, IdleWork
<1>7. SubmittedOK' /\ CacheOK' /\ AckedIsLogged'
  BY <1>1, <1>2, <1>3 DEF SubmittedOK, CacheOK, AckedIsLogged
<1> QED BY <1>4, <1>5, <1>6, <1>7, InvariantParts

\* What central tells the notifier of was told of nowhere before.
LEMMA NotifyNotifierInvariant ==
  ASSUME IInv, NotifyNotifier
  PROVE  IInv'
<1>1. /\ TypeRest /\ SubmittedOK /\ WorkOK /\ CacheOK /\ AckedIsLogged
      /\ QueueType(queue) /\ SentOK
  BY TypeSplit DEF IInv
<1>2. /\ stage = "saved" /\ stage' = "notified" /\ Publish("notifier", work)
      /\ UNCHANGED <<up, waiting, count, submitted, acked, work, pending, log, redis,
                     config, held, changes, cache, sent, faults>>
  BY DEF NotifyNotifier, agents, administration
<1>3. PICK r : r = work
  OBVIOUS
<1>4. r \in Reading /\ r \in submitted /\ r \in log /\ pending = {}
  BY <1>1, <1>2, <1>3 DEF TypeRest, WorkOK
<1>5. /\ "notifier" \in Services /\ "notifier" \notin Senders /\ "nobody" \notin Services
      /\ ReadingOf("notifier", r) = r /\ r \in Of("notifier")
  BY <1>4 DEF Services, Senders, ReadingOf, Of
<1>6. Fresh("nobody", r) /\ Belongs("notifier", r, submitted', log')
  <2>1. \A s \in Services : \A k \in DOMAIN queue[s] : About(queue, s, k) # r
    BY <1>1, <1>2, <1>3 DEF WorkOK
  <2>2. \A j \in DOMAIN sent : sent[j].reading # r
    BY <1>1, <1>2, <1>3 DEF WorkOK
  <2> QED BY <1>2, <1>4, <1>5, <2>1, <2>2 DEF Fresh, Belongs
<1>7. PICK to : /\ Moved(queue, queue', "nobody", to, IF to = "nobody" THEN None ELSE r)
                /\ to \in {"nobody", "notifier"}
  BY <1>1, <1>2, <1>3, <1>5, PublishMoves
<1>8. PICK m : m = IF to = "nobody" THEN None ELSE r
  OBVIOUS
<1>9. to \in Services => to = "notifier" /\ m = r
  BY <1>5, <1>7, <1>8
<1>10. Moved(queue, queue', "nobody", to, m)
  BY <1>7, <1>8
<1>11. QueueType(queue') /\ EntriesOK' /\ EntriesApart' /\ SentOK' /\ AlertedOnce'
  BY <1>2, <1>5, <1>6, <1>9, <1>10, QueuePart
<1>12. TypeRest'
  BY <1>1, <1>2, <1>3, <1>4, NoneAssumption DEF TypeRest
<1>13. WorkOK'
  <2>1. \A s \in Services : \A i \in DOMAIN queue'[s] :
          \/ \E k \in DOMAIN queue[s] : About(queue', s, i) = About(queue, s, k)
          \/ s = to /\ About(queue', s, i) = ReadingOf(to, m)
    BY <1>1, <1>10, Origin
  <2>2. \A s \in Services : \A k \in DOMAIN queue[s] : About(queue, s, k) # work
    BY <1>1, <1>2 DEF WorkOK
  <2>3. \A s \in Services : \A i \in DOMAIN queue'[s] :
          About(queue', s, i) = work => s # "central"
    BY <1>9, <2>1, <2>2
  <2> QED BY <1>2, <1>3, <1>4, <2>3 DEF WorkOK
<1>14. SubmittedOK' /\ CacheOK' /\ AckedIsLogged'
  BY <1>1, <1>2 DEF SubmittedOK, CacheOK, AckedIsLogged
<1> QED BY <1>11, <1>12, <1>13, <1>14, InvariantParts

\* The notifier passes the reading it took to one sender at most, and tracks
\* what it read.
LEMMA NotifyMoves ==
  ASSUME IInv, Notify
  PROVE  LET h == Head(queue["notifier"])
             a == AdminOf[h.token]
         IN /\ h \in Reading /\ a \in Admins /\ Seen(a) \in AdminConfig
            /\ Seen(a) \in held[a]
            /\ \E to \in Senders \cup {"nobody"} : \E m :
                  /\ Moved(queue, queue', "notifier", to, m)
                  /\ to \in Senders => /\ m = [reading |-> h, to |-> Seen(a).email]
                                       /\ h.type = "ERROR"
                                       /\ (to = "emailnotifier") = (Seen(a).kind = "EMAIL")
<1> DEFINE h == Head(queue["notifier"])
           a == AdminOf[h.token]
           alert == [reading |-> h, to |-> Seen(a).email]
           sender == IF Seen(a).kind = "EMAIL" THEN "emailnotifier" ELSE "smsnotifier"
<1>1. TypeRest /\ CacheOK /\ QueueType(queue)
  BY TypeSplit DEF IInv
<1>2. /\ Consume("notifier") /\ h.token \in Registered
      /\ queue' = IF sender \in up /\ CanSend(h.type, TriggerLevel)
                  THEN [Rest("notifier") EXCEPT ![sender] = Append(@, alert)]
                  ELSE Rest("notifier")
  BY DEF Notify
<1>3. "notifier" \in Services /\ "notifier" \notin Senders
  BY DEF Services, Senders
<1>4. h \in Reading /\ Moved(queue, Rest("notifier"), "notifier", "nobody", None)
  BY <1>2, <1>3, HeadFacts DEF Of
<1>5. a \in Admins
  BY <1>2, MonitoringAssumption
<1>6. Seen(a) \in AdminConfig /\ Seen(a) \in held[a]
  BY <1>1, <1>5 DEF Seen, TypeRest, CacheOK
<1>7. sender \in Senders /\ sender \in Services /\ (sender = "emailnotifier") = (Seen(a).kind = "EMAIL")
  BY DEF Senders, Services
<1>8. alert \in Of(sender)
  BY <1>4, <1>6, <1>7 DEF Of, Alert, AdminConfig
<1>9. \/ queue' = Rest("notifier")
      \/ /\ h.type = "ERROR"
         /\ queue' = Replaced(Rest("notifier"), sender, Append(Rest("notifier")[sender], alert))
  <2>1. CanSend(h.type, TriggerLevel) => h.type = "ERROR"
    BY CanSendError
  <2> QED BY <1>2, <2>1 DEF Replaced
<1> HIDE DEF h, a, alert, sender
<1>10. Moved(queue, Replaced(Rest("notifier"), sender, Append(Rest("notifier")[sender], alert)),
             "notifier", sender, alert)
  BY <1>1, <1>4, <1>7, <1>8, MovedAppend
<1>11. CASE queue' = Rest("notifier")
  <2>1. "nobody" \notin Senders
    BY DEF Senders
  <2>2. Moved(queue, queue', "notifier", "nobody", None)
    BY <1>4, <1>11
  <2>3. \E to \in Senders \cup {"nobody"} : \E m :
          /\ Moved(queue, queue', "notifier", to, m)
          /\ to \in Senders => /\ m = alert /\ h.type = "ERROR"
                               /\ (to = "emailnotifier") = (Seen(a).kind = "EMAIL")
    BY <2>1, <2>2
  <2> QED BY <1>4, <1>5, <1>6, <2>3 DEF h, a, alert
<1>12. CASE /\ h.type = "ERROR"
            /\ queue' = Replaced(Rest("notifier"), sender, Append(Rest("notifier")[sender], alert))
  <2>1. Moved(queue, queue', "notifier", sender, alert)
    BY <1>10, <1>12
  <2>2. \E to \in Senders \cup {"nobody"} : \E m :
          /\ Moved(queue, queue', "notifier", to, m)
          /\ to \in Senders => /\ m = alert /\ h.type = "ERROR"
                               /\ (to = "emailnotifier") = (Seen(a).kind = "EMAIL")
    BY <1>7, <1>12, <2>1
  <2> QED BY <1>4, <1>5, <1>6, <2>2 DEF h, a, alert
<1> QED BY <1>9, <1>11, <1>12

\* The notifier looks the admin up and hands the alert to one sender.
LEMMA NotifyInvariant ==
  ASSUME IInv, Notify
  PROVE  IInv'
<1>1. TypeRest /\ SubmittedOK /\ WorkOK /\ CacheOK /\ AckedIsLogged /\ QueueType(queue)
  BY TypeSplit DEF IInv
<1>2. PICK h, a : h = Head(queue["notifier"]) /\ a = AdminOf[h.token]
  OBVIOUS
<1>3. /\ Consume("notifier") /\ cache' = [cache EXCEPT ![a] = Seen(a)]
      /\ UNCHANGED <<up, waiting, count, submitted, acked, work, stage, pending, log, redis,
                     config, held, changes, sent, faults>>
  BY <1>2 DEF Notify, agents, storing, administration
<1>4. h \in Reading /\ a \in Admins /\ Seen(a) \in AdminConfig /\ Seen(a) \in held[a]
  BY <1>2, NotifyMoves
<1>5. PICK to, m :
        /\ to \in Senders \cup {"nobody"}
        /\ Moved(queue, queue', "notifier", to, m)
        /\ to \in Senders => m = [reading |-> h, to |-> Seen(a).email] /\ h.type = "ERROR"
  BY <1>2, NotifyMoves
<1>6. /\ "notifier" \in Services /\ "notifier" \notin Senders /\ "nobody" \notin Services
      /\ "central" \notin Senders
      /\ ReadingOf("notifier", Head(queue["notifier"])) = h
  BY <1>2 DEF Services, Senders, ReadingOf
<1>7. to \in Services => to \in Senders /\ to # "central" /\ ReadingOf(to, m) = h
  BY <1>5, <1>6 DEF ReadingOf
<1>8. /\ 1 \in DOMAIN queue["notifier"] /\ About(queue, "notifier", 1) = h
      /\ h \in submitted /\ h \in log /\ Fresh("notifier", h)
  BY <1>3, <1>6, HeadFacts
<1>9. to \in Services => Belongs(to, h, submitted', log')
  BY <1>3, <1>5, <1>7, <1>8 DEF Belongs
<1>10. QueueType(queue') /\ EntriesOK' /\ EntriesApart' /\ SentOK' /\ AlertedOnce'
  BY <1>3, <1>5, <1>7, <1>8, <1>9, QueuePart
<1>11. TypeRest'
  BY <1>1, <1>3, <1>4 DEF TypeRest
<1>12. WorkOK'
  <2>1. h = work => stage = "notified"
    BY <1>1, <1>6, <1>8 DEF WorkOK
  <2> QED BY <1>1, <1>3, <1>5, <1>7, <2>1, WorkStep
<1>13. CacheOK'
  <2>1. "notifier" \in up
    BY <1>3 DEF Consume
  <2> QED BY <1>1, <1>3, <1>4, <2>1 DEF CacheOK, TypeRest
<1>14. SubmittedOK' /\ AckedIsLogged'
  BY <1>1, <1>3 DEF SubmittedOK, AckedIsLogged
<1> QED BY <1>10, <1>11, <1>12, <1>13, <1>14, InvariantParts

\* A process that ends takes its queue, its work and what it tracked with it.
LEMMA StopInvariant ==
  ASSUME IInv, NEW s \in Services, Stop(s), faults' \in 0..MaxFaults
  PROVE  IInv'
<1>1. TypeRest /\ SubmittedOK /\ WorkOK /\ CacheOK /\ AckedIsLogged /\ QueueType(queue)
  BY TypeSplit DEF IInv
<1>2. /\ up' = up \ {s} /\ queue' = Replaced(queue, s, <<>>)
      /\ cache' = IF s = "notifier" THEN [a \in Admins |-> None] ELSE cache
      /\ UNCHANGED <<waiting, count, submitted, acked, log, redis, config, held, changes, sent>>
  BY DEF Stop, agents, storing, administration, Replaced
<1>3. \/ work' = None /\ stage' = "idle" /\ pending' = {}
      \/ UNCHANGED <<work, stage, pending>>
  BY DEF Stop, storing
<1>4. Moved(queue, queue', "nobody", "nobody", None) /\ "nobody" \notin Services
  BY <1>1, <1>2, StopMoves DEF Services, Senders
<1>5. QueueType(queue') /\ EntriesOK' /\ EntriesApart' /\ SentOK' /\ AlertedOnce'
  BY <1>2, <1>4, QueuePart
<1>6. TypeRest'
  <2>1. cache' \in [Admins -> AdminConfig \cup {None}]
    BY <1>1, <1>2 DEF TypeRest
  <2> QED BY <1>1, <1>2, <1>3, <2>1 DEF TypeRest
<1>7. WorkOK'
  <2>1. CASE work' = None /\ stage' = "idle" /\ pending' = {}
    BY <1>5, <1>6, <2>1, IdleWork
  <2>2. CASE UNCHANGED <<work, stage, pending>>
    BY <1>1, <1>2, <1>4, <2>2, WorkStep
  <2> QED BY <1>3, <2>1, <2>2
<1>8. CacheOK'
  BY <1>1, <1>2 DEF CacheOK
<1>9. SubmittedOK' /\ AckedIsLogged'
  BY <1>1, <1>2, <1>3 DEF SubmittedOK, AckedIsLogged
<1> QED BY <1>5, <1>6, <1>7, <1>8, <1>9, InvariantParts

\* An alert that is sent was sent by nobody before and waits nowhere.
LEMMA SendInvariant ==
  ASSUME IInv, NEW s \in Senders, Send(s)
  PROVE  IInv'
<1>1. /\ TypeRest /\ SubmittedOK /\ WorkOK /\ CacheOK /\ AckedIsLogged /\ QueueType(queue)
      /\ EntriesOK /\ EntriesApart /\ SentOK /\ AlertedOnce
  BY TypeSplit DEF IInv
<1>2. PICK alert : alert = Head(queue[s])
  OBVIOUS
<1>3. PICK h : h = alert.reading
  OBVIOUS
<1>4. /\ Consume(s) /\ queue' = Rest(s) /\ sent' = Append(sent, alert)
      /\ UNCHANGED <<up, waiting, count, submitted, acked, work, stage, pending, log, redis,
                     config, held, changes, cache, faults>>
  BY <1>2 DEF Send, agents, storing, administration
<1>5. s \in Services /\ "central" \in Services /\ "nobody" \notin Services
  BY DEF Services, Senders
<1>6. ReadingOf(s, Head(queue[s])) = h
  BY <1>2, <1>3 DEF ReadingOf
<1>7. /\ alert \in Alert /\ 1 \in DOMAIN queue[s] /\ About(queue, s, 1) = h
      /\ h \in submitted /\ h \in log /\ h.type = "ERROR"
      /\ Fresh(s, h)
      /\ Moved(queue, queue', s, "nobody", None)
      /\ \A u \in Services : \A i \in DOMAIN queue'[u] : About(queue', u, i) # h
  <2>1. alert \in Alert /\ s # "central"
    BY <1>2, <1>4, <1>5, HeadFacts DEF Of, Senders
  <2>2. /\ 1 \in DOMAIN queue[s] /\ About(queue, s, 1) = h
        /\ h \in submitted /\ h \in log /\ h.type = "ERROR"
        /\ Fresh(s, h)
    BY <1>4, <1>5, <1>6, <2>1, HeadFacts
  <2>3. /\ Moved(queue, queue', s, "nobody", None)
        /\ \A u \in Services : \A i \in DOMAIN queue'[u] : About(queue', u, i) # h
    BY <1>4, <1>5, <1>6, HeadFacts
  <2> QED BY <2>1, <2>2, <2>3
<1>8. EntriesOK' /\ EntriesApart'
  BY <1>1, <1>4, <1>5, <1>7, QueueStep
<1>9. QueueType(queue')
  BY <1>7 DEF Moved
<1>10. /\ sent' \in Seq(Alert) /\ DOMAIN sent = 1..Len(sent) /\ Len(sent) \in Nat
       /\ DOMAIN sent' = 1..(Len(sent) + 1)
       /\ \A j \in DOMAIN sent : sent'[j] = sent[j]
       /\ sent'[Len(sent) + 1] = alert
  <2>1. sent \in Seq(Alert)
    BY <1>1 DEF TypeRest
  <2>2. DOMAIN sent = 1..Len(sent) /\ Len(sent) \in Nat
    BY <2>1, LenProperties
  <2> QED BY <1>4, <1>7, <2>1, <2>2, AppendFacts
<1>11. \A j \in DOMAIN sent' :
         \/ j \in DOMAIN sent /\ sent'[j] = sent[j]
         \/ j = Len(sent) + 1 /\ sent'[j].reading = h
  <2> TAKE j \in DOMAIN sent'
  <2>1. j \in DOMAIN sent \/ j = Len(sent) + 1
    BY <1>10
  <2>2. CASE j \in DOMAIN sent
    BY <1>10, <2>2
  <2>3. CASE j = Len(sent) + 1
    BY <1>3, <1>10, <2>3
  <2> QED BY <2>1, <2>2, <2>3
<1>12. \A u \in Services : \A i \in DOMAIN queue'[u] :
         \E k \in DOMAIN queue[u] : About(queue', u, i) = About(queue, u, k)
  BY <1>1, <1>5, <1>7, Origin
<1>13. SentOK'
  <2> SUFFICES ASSUME NEW j \in DOMAIN sent'
               PROVE  /\ sent'[j].reading \in submitted' \cap log'
                      /\ sent'[j].reading.type = "ERROR"
                      /\ \A u \in Services : \A i \in DOMAIN queue'[u] :
                            About(queue', u, i) # sent'[j].reading
    BY DEF SentOK
  <2>1. CASE j \in DOMAIN sent /\ sent'[j] = sent[j]
    BY <1>1, <1>4, <1>12, <2>1 DEF SentOK
  <2>2. CASE sent'[j].reading = h
    BY <1>4, <1>7, <2>2
  <2> QED BY <1>11, <2>1, <2>2
<1>14. AlertedOnce'
  <2>1. \A j \in DOMAIN sent : sent[j].reading # h
    BY <1>7 DEF Fresh
  <2> SUFFICES ASSUME NEW i \in DOMAIN sent', NEW j \in DOMAIN sent',
                      sent'[i].reading = sent'[j].reading
               PROVE  i = j
    BY DEF AlertedOnce
  <2> QED BY <1>1, <1>11, <2>1 DEF AlertedOnce
<1>15. TypeRest'
  BY <1>1, <1>4, <1>10 DEF TypeRest
<1>16. WorkOK'
  <2>1. \A u \in Services : \A k \in DOMAIN queue[u] :
          About(queue, u, k) = work => stage = "notified" /\ u # "central"
    BY <1>1 DEF WorkOK
  <2>2. \A u \in Services : \A i \in DOMAIN queue'[u] :
          About(queue', u, i) = work => stage = "notified" /\ u # "central"
    BY <1>12, <2>1
  <2>3. \A j \in DOMAIN sent' : sent'[j].reading = work => stage = "notified"
    BY <1>1, <1>5, <1>7, <1>11, <2>1 DEF WorkOK
  <2> QED BY <1>1, <1>4, <2>2, <2>3 DEF WorkOK
<1>17. SubmittedOK' /\ CacheOK' /\ AckedIsLogged'
  BY <1>1, <1>4 DEF SubmittedOK, CacheOK, AckedIsLogged
<1> QED BY <1>8, <1>9, <1>13, <1>14, <1>15, <1>16, <1>17, InvariantParts

\* A process starts; the notifier has nothing tracked then.
LEMMA StartInvariant ==
  ASSUME IInv, NEW s \in Services, Start(s)
  PROVE  IInv'
<1>1. TypeRest /\ SubmittedOK /\ WorkOK /\ CacheOK /\ AckedIsLogged
  BY TypeSplit DEF IInv
<1>2. /\ s \notin up /\ up' = up \cup {s}
      /\ held' = IF s = "notifier" THEN [a \in Admins |-> {config[a]}] ELSE held
      /\ UNCHANGED <<queue, waiting, count, submitted, acked, work, stage, pending, log, redis,
                     config, changes, cache, sent, faults>>
  BY DEF Start, agents, storing
<1>3. QueueType(queue') /\ EntriesOK' /\ EntriesApart' /\ SentOK' /\ AlertedOnce'
  BY <1>2, StillPart
<1>4. TypeRest'
  <2>1. held' \in [Admins -> SUBSET AdminConfig]
    BY <1>1, <1>2 DEF TypeRest
  <2> QED BY <1>1, <1>2, <2>1 DEF TypeRest
<1>5. WorkOK'
  BY <1>1, <1>2 DEF WorkOK
<1>6. CacheOK'
  <2>1. CASE s = "notifier"
    BY <1>1, <1>2, <2>1 DEF CacheOK
  <2>2. CASE s # "notifier"
    BY <1>1, <1>2, <2>2 DEF CacheOK
  <2> QED BY <2>1, <2>2
<1>7. SubmittedOK' /\ AckedIsLogged'
  BY <1>1, <1>2 DEF SubmittedOK, AckedIsLogged
<1> QED BY <1>3, <1>4, <1>5, <1>6, <1>7, InvariantParts

\* A change adds to what the configuration has been.
LEMMA ChangeAdminConfigInvariant ==
  ASSUME IInv, NEW a \in Admins, ChangeAdminConfig(a)
  PROVE  IInv'
<1>1. TypeRest /\ SubmittedOK /\ WorkOK /\ CacheOK /\ AckedIsLogged
  BY TypeSplit DEF IInv
<1>2. PICK c \in AdminConfig : /\ config' = [config EXCEPT ![a] = c]
                               /\ held' = [held EXCEPT ![a] = @ \cup {c}]
  BY DEF ChangeAdminConfig
<1>3. /\ changes < MaxChanges /\ changes' = changes + 1
      /\ UNCHANGED <<up, queue, waiting, count, submitted, acked, work, stage, pending, log,
                     redis, cache, sent, faults>>
  BY DEF ChangeAdminConfig, agents, storing
<1>4. QueueType(queue') /\ EntriesOK' /\ EntriesApart' /\ SentOK' /\ AlertedOnce'
  BY <1>3, StillPart
<1>5. TypeRest'
  <2>1. /\ config' \in [Admins -> AdminConfig] /\ held' \in [Admins -> SUBSET AdminConfig]
    BY <1>1, <1>2 DEF TypeRest
  <2>2. changes' \in 0..MaxChanges
    BY <1>1, <1>3, MonitoringAssumption DEF TypeRest
  <2> QED BY <1>1, <1>3, <2>1, <2>2 DEF TypeRest
<1>6. WorkOK'
  BY <1>1, <1>3 DEF WorkOK
<1>7. CacheOK'
  <2> SUFFICES ASSUME NEW b \in Admins
               PROVE  /\ config'[b] \in held'[b]
                      /\ cache'[b] # None => cache'[b] \in held'[b] /\ "notifier" \in up'
    BY DEF CacheOK
  <2>1. config[b] \in held[b] /\ (cache[b] # None => cache[b] \in held[b] /\ "notifier" \in up)
    BY <1>1 DEF CacheOK
  <2>2. config'[b] \in held'[b] /\ held[b] \subseteq held'[b]
    BY <1>1, <1>2, <2>1 DEF TypeRest
  <2> QED BY <1>3, <2>1, <2>2
<1>8. SubmittedOK' /\ AckedIsLogged'
  BY <1>1, <1>3 DEF SubmittedOK, AckedIsLogged
<1> QED BY <1>4, <1>5, <1>6, <1>7, <1>8, InvariantParts

\* Tokens are forgotten; readings that were accepted stay.
LEMMA RedisLossInvariant ==
  ASSUME IInv, RedisLoss
  PROVE  IInv'
<1>1. TypeRest /\ SubmittedOK /\ WorkOK /\ CacheOK /\ AckedIsLogged
  BY TypeSplit DEF IInv
<1>2. /\ redis' = {} /\ faults < MaxFaults /\ faults' = faults + 1
      /\ UNCHANGED <<up, queue, waiting, count, submitted, acked, work, stage, pending, log,
                     config, held, changes, cache, sent>>
  BY DEF RedisLoss, Fault, agents, storing, administration
<1>3. QueueType(queue') /\ EntriesOK' /\ EntriesApart' /\ SentOK' /\ AlertedOnce'
  BY <1>2, StillPart
<1>4. TypeRest'
  BY <1>1, <1>2, MonitoringAssumption DEF TypeRest
<1>5. WorkOK'
  BY <1>1, <1>2 DEF WorkOK
<1>6. SubmittedOK' /\ CacheOK' /\ AckedIsLogged'
  BY <1>1, <1>2 DEF SubmittedOK, CacheOK, AckedIsLogged
<1> QED BY <1>3, <1>4, <1>5, <1>6, InvariantParts

\* Nothing changes.
LEMMA StutterInvariant ==
  ASSUME IInv, UNCHANGED vars
  PROVE  IInv'
<1>1. TypeRest /\ SubmittedOK /\ WorkOK /\ CacheOK /\ AckedIsLogged
  BY TypeSplit DEF IInv
<1>2. UNCHANGED <<up, queue, waiting, count, submitted, acked, work, stage, pending, log,
                  redis, config, held, changes, cache, sent, faults>>
  BY DEF vars, agents, storing, administration
<1>3. QueueType(queue') /\ EntriesOK' /\ EntriesApart' /\ SentOK' /\ AlertedOnce'
  BY <1>2, StillPart
<1>4. TypeRest'
  BY <1>1, <1>2 DEF TypeRest
<1>5. WorkOK'
  BY <1>1, <1>2 DEF WorkOK
<1>6. SubmittedOK' /\ CacheOK' /\ AckedIsLogged'
  BY <1>1, <1>2 DEF SubmittedOK, CacheOK, AckedIsLogged
<1> QED BY <1>3, <1>4, <1>5, <1>6, InvariantParts

\* Every step keeps the invariant.
LEMMA NextInvariant == IInv /\ [Next]_vars => IInv'
<1> SUFFICES ASSUME IInv, [Next]_vars PROVE IInv'
  OBVIOUS
<1>1. ASSUME NEW t \in Tokens, Report(t) \/ AgentRestart(t) PROVE IInv'
  BY <1>1, ReportInvariant, AgentRestartInvariant
<1>2. CASE Put
  BY <1>2, DismissInvariant, AddInvariant, SaveInvariant, SaveFailsInvariant,
     NotifyNotifierInvariant, ReturnInvariant DEF Put, Refuse, BadData
<1>3. CASE Notify
  BY <1>3, NotifyInvariant
<1>4. faults \in 0..MaxFaults
  BY TypeSplit DEF IInv, TypeRest
<1>5. CASE NotifyUnregistered
  <2>1. Stop("notifier") /\ faults' = faults /\ "notifier" \in Services
    BY <1>5 DEF NotifyUnregistered, Services
  <2> QED BY <1>4, <2>1, StopInvariant
<1>6. ASSUME NEW s \in Senders, Send(s) PROVE IInv'
  BY <1>6, SendInvariant
<1>7. ASSUME NEW s \in Services, Start(s) PROVE IInv'
  BY <1>7, StartInvariant
<1>8. ASSUME NEW s \in Services, Crash(s) PROVE IInv'
  <2>1. Stop(s) /\ faults < MaxFaults /\ faults' = faults + 1
    BY <1>8 DEF Crash, Fault
  <2>2. faults' \in 0..MaxFaults
    BY <1>4, <2>1, MonitoringAssumption
  <2> QED BY <2>1, <2>2, StopInvariant
<1>9. ASSUME NEW a \in Admins, ChangeAdminConfig(a) PROVE IInv'
  BY <1>9, ChangeAdminConfigInvariant
<1>10. CASE RedisLoss
  BY <1>10, RedisLossInvariant
<1>11. CASE UNCHANGED vars
  BY <1>11, StutterInvariant
<1> QED BY <1>1, <1>2, <1>3, <1>5, <1>6, <1>7, <1>8, <1>9, <1>10, <1>11 DEF Next
-----------------------------------------------------------------------------
(* What holds. *)

\* The invariant is one.
THEOREM Invariance == Spec => []IInv
<1> QED BY InitInvariant, NextInvariant, PTL DEF Spec

\* What the model keeps has the types TypeOK states.
THEOREM MonitoringTypeOK == Spec => []TypeOK
<1>1. IInv => TypeOK
  BY DEF IInv
<1> QED BY Invariance, <1>1, PTL

\* A reading CentralMicroservice.Put answered `true` for is in the table.
THEOREM MonitoringAckedIsLogged == Spec => []AckedIsLogged
<1>1. IInv => AckedIsLogged
  BY DEF IInv
<1> QED BY Invariance, <1>1, PTL

\* No reading is alerted of twice, by whichever sender.
THEOREM MonitoringAlertedOnce == Spec => []AlertedOnce
<1>1. IInv => AlertedOnce
  BY DEF IInv
<1> QED BY Invariance, <1>1, PTL

\* A stock agent's readings are never severe (ProvideData), and only severe
\* ones are sent.
THEOREM MonitoringStockAgentSilent == Spec => []StockAgentSilent
<1>1. IInv => StockAgentSilent
  BY DEF IInv, SubmittedOK, SentOK, StockAgentSilent
<1> QED BY Invariance, <1>1, PTL

\* Nothing but the end of central's process clears a context that holds a
\* stored reading as Added: Save is refused, SaveFails keeps what is pending,
\* and Return finds the context empty.
THEOREM MonitoringPoisonedRejects == Spec => PoisonedRejects
<1> DEFINE Act == Poisoned /\ "central" \in up' => Poisoned' /\ log' = log /\ acked' = acked
<1>1. ASSUME IInv, [Next]_vars
      PROVE  Act
  <2> SUFFICES ASSUME Poisoned, "central" \in up'
               PROVE  Poisoned' /\ log' = log /\ acked' = acked
    OBVIOUS
  <2>1. pending \cap log # {}
    BY DEF Poisoned
  <2>2. stage # "notified"
    BY <1>1, <2>1 DEF IInv, WorkOK
  <2>3. SUFFICES pending \subseteq pending' /\ log' = log /\ acked' = acked
    BY <2>1 DEF Poisoned
  <2>4. ASSUME NEW t \in Tokens, Report(t) \/ AgentRestart(t)
        PROVE  pending \subseteq pending' /\ log' = log /\ acked' = acked
    BY <2>4 DEF Report, AgentRestart, storing
  <2>5. CASE Put
    <3>1. ~Save /\ ~Return
      BY <2>1, <2>2 DEF Save, Return, Poisoned
    <3>2. CASE Refuse \/ BadData
      BY <3>2 DEF Refuse, BadData, Dismiss, storing
    <3>3. CASE Add
      BY <3>3 DEF Add, agents
    <3>4. CASE SaveFails
      <4>1. UNCHANGED log /\ UNCHANGED <<acked, pending>>
        BY <2>1, <3>4 DEF SaveFails, Poisoned
      <4> QED BY <4>1
    <3>5. CASE NotifyNotifier
      BY <3>5 DEF NotifyNotifier, agents
    <3> QED BY <2>5, <3>1, <3>2, <3>3, <3>4, <3>5 DEF Put
  <2>6. CASE Notify
    BY <2>6 DEF Notify, agents, storing
  <2>7. ASSUME NEW s \in Services, Stop(s)
        PROVE  pending \subseteq pending' /\ log' = log /\ acked' = acked
    <3>1. s # "central"
      BY <2>7 DEF Stop
    <3> QED BY <2>7, <3>1 DEF Stop, agents, storing
  <2>8. CASE NotifyUnregistered
    <3>1. Stop("notifier") /\ "notifier" \in Services
      BY <2>8 DEF NotifyUnregistered, Services
    <3> QED BY <2>7, <3>1
  <2>9. ASSUME NEW s \in Senders, Send(s)
        PROVE  pending \subseteq pending' /\ log' = log /\ acked' = acked
    BY <2>9 DEF Send, agents, storing
  <2>10. ASSUME NEW s \in Services, Start(s) \/ Crash(s)
         PROVE  pending \subseteq pending' /\ log' = log /\ acked' = acked
    BY <2>7, <2>10 DEF Start, Crash, agents, storing
  <2>11. ASSUME NEW a \in Admins, ChangeAdminConfig(a)
         PROVE  pending \subseteq pending' /\ log' = log /\ acked' = acked
    BY <2>11 DEF ChangeAdminConfig, agents, storing
  <2>12. CASE RedisLoss
    BY <2>12 DEF RedisLoss, agents, storing
  <2>13. CASE UNCHANGED vars
    BY <2>13 DEF vars, agents, storing
  <2> QED BY <1>1, <2>4, <2>5, <2>6, <2>8, <2>9, <2>10, <2>11, <2>12, <2>13 DEF Next
<1>2. IInv /\ [Next]_vars => Act
  BY <1>1
<1> QED BY Invariance, <1>2, PTL DEF Spec, PoisonedRejects

\* A queue that grew has the message that moved at its end.
LEMMA Grown ==
  ASSUME QueueType(queue), NEW from, NEW to, NEW m, Moved(queue, queue', from, to, m),
         NEW s \in Services, Len(queue'[s]) > Len(queue[s])
  PROVE  s = to /\ queue'[s][Len(queue'[s])] = m
<1>1. /\ Len(queue[s]) \in Nat /\ DOMAIN queue[s] = 1..Len(queue[s])
      /\ Len(queue'[s]) \in Nat /\ DOMAIN queue'[s] = 1..Len(queue'[s])
  BY QueueFacts DEF Moved
<1>2. s = to
  <2>1. s = to \/ Len(queue'[s]) <= Len(queue[s])
    BY DEF Moved
  <2> QED BY <1>1, <2>1
<1>3. PICK i : i = Len(queue'[s])
  OBVIOUS
<1>4. i \in DOMAIN queue'[s] /\ ~(Before(s, i, from) \in DOMAIN queue[s])
  BY <1>1, <1>3 DEF Before
<1>5. queue'[s][i] = m
  BY <1>4 DEF Moved
<1> QED BY <1>2, <1>3, <1>5

\* Only Notify adds to the queue of a sender.
LEMMA SendersGrow ==
  ASSUME IInv, [Next]_vars, NEW s \in Senders, Len(queue'[s]) > Len(queue[s])
  PROVE  Notify
<1>1. QueueType(queue) /\ s \in Services /\ s \notin {"central", "notifier", "nobody"}
  BY TypeSplit DEF IInv, Services, Senders
<1>2. ASSUME NEW from, NEW to, NEW m, Moved(queue, queue', from, to, m), to \notin Senders
      PROVE  FALSE
  BY <1>1, <1>2, Grown
<1>3. ASSUME queue' = queue
      PROVE  FALSE
  <2>1. Moved(queue, queue', "nobody", "nobody", None)
    BY <1>1, <1>3, MovedSame
  <2> QED BY <1>2, <2>1 DEF Senders
<1>4. ASSUME NEW u \in {"central", "notifier"}, NEW m \in Reading, Publish(u, m)
      PROVE  FALSE
  <2>1. m \in Of(u) /\ u \in Services /\ u \notin Senders /\ "nobody" \notin Senders
    BY DEF Of, Services, Senders
  <2>2. \/ Moved(queue, queue', "nobody", "nobody", None)
        \/ Moved(queue, queue', "nobody", u, m)
    BY <1>1, <1>4, <2>1, PublishMoves
  <2> QED BY <1>2, <2>1, <2>2
<1>5. ASSUME NEW u \in Services, Consume(u), queue' = Rest(u)
      PROVE  FALSE
  <2>1. Moved(queue, queue', u, "nobody", None)
    BY <1>1, <1>5, RestMoves
  <2> QED BY <1>2, <2>1 DEF Senders
<1>6. ASSUME NEW u \in Services, Stop(u)
      PROVE  FALSE
  <2>1. queue' = Replaced(queue, u, <<>>)
    BY <1>6 DEF Stop, Replaced
  <2>2. Moved(queue, queue', "nobody", "nobody", None)
    BY <1>1, <2>1, StopMoves
  <2> QED BY <1>2, <2>2 DEF Senders
<1>7. ASSUME NEW t \in Tokens, Report(t) \/ AgentRestart(t)
      PROVE  FALSE
  <2>1. CASE Report(t)
    <3>1. PICK r : /\ Publish("central", r)
                   /\ submitted' = submitted \cup {r}
      BY <2>1 DEF Report
    <3>2. r \in Reading
      <4>1. IInv'
        BY <2>1, ReportInvariant
      <4> QED BY <3>1, <4>1, TypeSplit DEF IInv, TypeRest
    <3> QED BY <1>4, <3>1, <3>2
  <2>2. CASE AgentRestart(t)
    BY <1>3, <2>2 DEF AgentRestart
  <2> QED BY <1>7, <2>1, <2>2
<1>8. CASE Put
  <2>1. CASE Refuse \/ BadData \/ Add
    <3>1. "central" \in Services
      BY DEF Services
    <3> QED BY <1>5, <2>1, <3>1 DEF Refuse, BadData, Dismiss, Add
  <2>2. CASE Save \/ SaveFails \/ Return
    BY <1>3, <2>2 DEF Save, SaveFails, Return
  <2>3. CASE NotifyNotifier
    <3>1. stage = "saved" /\ Publish("notifier", work)
      BY <2>3 DEF NotifyNotifier
    <3>2. work \in Reading
      BY <3>1, TypeSplit DEF IInv, TypeRest
    <3> QED BY <1>4, <3>1, <3>2
  <2> QED BY <1>8, <2>1, <2>2, <2>3 DEF Put
<1>9. CASE NotifyUnregistered
  BY <1>6, <1>9 DEF NotifyUnregistered, Services
<1>10. ASSUME NEW u \in Senders, Send(u)
       PROVE  FALSE
  BY <1>5, <1>10 DEF Send, Services
<1>11. ASSUME NEW u \in Services, Start(u) \/ Crash(u)
       PROVE  FALSE
  BY <1>3, <1>6, <1>11 DEF Start, Crash
<1>12. ASSUME NEW a \in Admins, ChangeAdminConfig(a)
       PROVE  FALSE
  BY <1>3, <1>12 DEF ChangeAdminConfig
<1>13. CASE RedisLoss \/ UNCHANGED vars
  BY <1>3, <1>13 DEF RedisLoss, vars
<1> QED BY <1>7, <1>8, <1>9, <1>10, <1>11, <1>12, <1>13 DEF Next

\* An alert is addressed, and routed, by a configuration the admin has had
\* since the notifier was started: what Notify reads is tracked or current.
THEOREM MonitoringAddressHeld == Spec => AddressHeld
<1> DEFINE Addressed(s) ==
             LET alert == queue'[s][Len(queue'[s])]
             IN \E c \in held[AdminOf[alert.reading.token]] :
                   /\ alert.to = c.email
                   /\ (s = "emailnotifier") = (c.kind = "EMAIL")
           Act == \A s \in Senders : Len(queue'[s]) > Len(queue[s]) => Addressed(s)
<1>1. ASSUME IInv, [Next]_vars, NEW s \in Senders, Len(queue'[s]) > Len(queue[s])
      PROVE  Addressed(s)
  <2>1. Notify
    BY <1>1, SendersGrow
  <2>2. PICK h, a : h = Head(queue["notifier"]) /\ a = AdminOf[h.token]
    OBVIOUS
  <2>3. Seen(a) \in held[a]
    BY <1>1, <2>1, <2>2, NotifyMoves
  <2>4. PICK to, m :
          /\ to \in Senders \cup {"nobody"}
          /\ Moved(queue, queue', "notifier", to, m)
          /\ to \in Senders => /\ m = [reading |-> h, to |-> Seen(a).email]
                               /\ (to = "emailnotifier") = (Seen(a).kind = "EMAIL")
    BY <1>1, <2>1, <2>2, NotifyMoves
  <2>5. QueueType(queue) /\ s \in Services
    BY <1>1, TypeSplit DEF IInv, Services
  <2>6. s = to /\ queue'[s][Len(queue'[s])] = m
    BY <1>1, <2>4, <2>5, Grown
  <2>7. /\ m.reading = h /\ m.to = Seen(a).email
        /\ (s = "emailnotifier") = (Seen(a).kind = "EMAIL")
    BY <2>4, <2>6
  <2>8. \E c \in held[AdminOf[m.reading.token]] :
          /\ m.to = c.email
          /\ (s = "emailnotifier") = (c.kind = "EMAIL")
    BY <2>2, <2>3, <2>7
  <2> QED BY <2>6, <2>8
<1>2. IInv /\ [Next]_vars => Act
  BY <1>1
<1> QED BY Invariance, <1>2, PTL DEF Spec, AddressHeld
-----------------------------------------------------------------------------
(* Monitoring implements Telemetry. *)

\* The readings alerted of, as the refinement mapping has them.
Alerts(q) == [i \in DOMAIN q |-> q[i].reading]

\* The readings of the queued alerts, in their order.
LEMMA AlertsFacts ==
  ASSUME NEW q \in Seq(Alert)
  PROVE  /\ Alerts(q) \in Seq(Reading) /\ Len(Alerts(q)) = Len(q)
         /\ DOMAIN Alerts(q) = DOMAIN q
         /\ \A i \in 1..Len(q) : Alerts(q)[i] = q[i].reading
<1>1. Len(q) \in Nat /\ DOMAIN q = 1..Len(q)
  BY LenProperties
<1>2. \A i \in 1..Len(q) : q[i].reading \in Reading
  BY <1>1, SentFacts
<1>3. Alerts(q) \in [1..Len(q) -> Reading]
  BY <1>1, <1>2 DEF Alerts
<1>4. Alerts(q) \in Seq(Reading)
  BY <1>1, <1>3
<1>5. DOMAIN Alerts(q) = 1..Len(q)
  BY <1>3
<1>6. Len(Alerts(q)) \in Nat /\ DOMAIN Alerts(q) = 1..Len(Alerts(q))
  BY <1>4, LenProperties
<1>7. Len(Alerts(q)) = Len(q)
  BY <1>1, <1>5, <1>6
<1> QED BY <1>1, <1>4, <1>5, <1>7 DEF Alerts

\* Sending one more alert appends its reading.
LEMMA AlertsAppend ==
  ASSUME NEW q \in Seq(Alert), NEW alert \in Alert
  PROVE  Alerts(Append(q, alert)) = Append(Alerts(q), alert.reading)
<1> DEFINE p == Append(q, alert)
           r == alert.reading
<1>1. /\ p \in Seq(Alert) /\ Len(p) = Len(q) + 1 /\ Len(q) \in Nat
      /\ \A i \in 1..Len(q) : p[i] = q[i]
      /\ p[Len(q) + 1] = alert
  BY AppendFacts, LenProperties
<1>2. r \in Reading
  BY DEF Alert
<1>3. /\ Alerts(q) \in Seq(Reading) /\ Len(Alerts(q)) = Len(q)
      /\ \A i \in 1..Len(q) : Alerts(q)[i] = q[i].reading
  BY AlertsFacts
<1> HIDE DEF p
<1>4. /\ Alerts(p) \in Seq(Reading) /\ Len(Alerts(p)) = Len(q) + 1
      /\ \A i \in 1..(Len(q) + 1) : Alerts(p)[i] = p[i].reading
  BY <1>1, AlertsFacts
<1>5. /\ Append(Alerts(q), r) \in Seq(Reading) /\ Len(Append(Alerts(q), r)) = Len(q) + 1
      /\ \A i \in 1..Len(q) : Append(Alerts(q), r)[i] = Alerts(q)[i]
      /\ Append(Alerts(q), r)[Len(q) + 1] = r
  BY <1>2, <1>3, AppendFacts
<1>6. ASSUME NEW i \in 1..(Len(q) + 1)
      PROVE  Alerts(p)[i] = Append(Alerts(q), r)[i]
  <2>1. CASE i \in 1..Len(q)
    BY <1>1, <1>3, <1>4, <1>5, <2>1
  <2>2. CASE i = Len(q) + 1
    BY <1>1, <1>4, <1>5, <2>2
  <2>3. i \in 1..Len(q) \/ i = Len(q) + 1
    BY <1>1
  <2> QED BY <2>1, <2>2, <2>3
<1>7. Alerts(p) = Append(Alerts(q), r)
  BY <1>4, <1>5, <1>6, SeqEqual
<1> QED BY <1>7 DEF p

\* The initial states are initial states of Telemetry.
LEMMA InitRefines == Init => T!Init
<1> SUFFICES ASSUME Init PROVE T!Init
  OBVIOUS
<1>1. sent = <<>> /\ sent \in Seq(Alert)
  BY EmptySeq DEF Init
<1>2. Alerts(sent) \in Seq(Reading) /\ Len(Alerts(sent)) = 0
  BY <1>1, AlertsFacts, EmptySeq
<1>3. Alerts(sent) = <<>>
  BY <1>2, EmptySeq, SeqEqual
<1> QED BY <1>3 DEF Init, T!Init, Alerts

\* A report is Telemetry's Submit: the reading is a new one.
LEMMA ReportRefines ==
  ASSUME IInv, NEW t \in Tokens, Report(t)
  PROVE  \E r \in Reading : T!Submit(r)
<1>1. TypeRest /\ SubmittedOK
  BY TypeSplit DEF IInv
<1>2. PICK type \in IF t \in Stock THEN {ProvideData(cpu) : cpu \in Cpus} ELSE Types :
        submitted' = submitted \cup {[token |-> t, n |-> count[t] + 1, type |-> type]}
  BY DEF Report
<1>3. PICK r : r = [token |-> t, n |-> count[t] + 1, type |-> type]
  OBVIOUS
<1>4. submitted' = submitted \cup {r} /\ UNCHANGED <<log, acked, sent>>
  BY <1>2, <1>3 DEF Report, storing
<1>5. r \in Reading
  <2>1. IInv'
    BY ReportInvariant
  <2> QED BY <1>4, <2>1, TypeSplit DEF IInv, TypeRest
<1>6. r \notin submitted
  <2>1. r.token = t /\ r.n = count[t] + 1 /\ count[t] \in Nat
    BY <1>1, <1>3, MonitoringAssumption DEF TypeRest
  <2>2. ~(r.n <= count[r.token])
    BY <2>1
  <2> QED BY <1>1, <2>2 DEF SubmittedOK
<1>7. T!Submit(r)
  BY <1>4, <1>5, <1>6 DEF T!Submit
<1> QED BY <1>5, <1>7

\* A save, or one whose outcome is lost, is Store of what was pending.
LEMMA StoreRefines ==
  ASSUME IInv, Save \/ SaveFails
  PROVE  \E rs \in SUBSET submitted : T!Store(rs)
<1>1. pending \subseteq submitted
  BY DEF IInv, SubmittedOK
<1>2. UNCHANGED <<submitted, acked, sent>>
  BY DEF Save, SaveFails, agents
<1>3. log' = log \cup pending \/ log' = log
  BY DEF Save, SaveFails
<1>4. CASE log' = log \cup pending
  <2>1. T!Store(pending)
    BY <1>1, <1>2, <1>4 DEF T!Store
  <2> QED BY <1>1, <2>1
<1>5. CASE log' = log
  <2>1. T!Store({})
    BY <1>2, <1>5 DEF T!Store
  <2> QED BY <2>1
<1> QED BY <1>3, <1>4, <1>5

\* The answer to the agent is Ack, or nobody waits for it any more.
LEMMA ReturnRefines ==
  ASSUME IInv, Return
  PROVE  (\E r \in Reading : T!Ack(r)) \/ UNCHANGED T!vars
<1>1. TypeRest /\ WorkOK
  BY TypeSplit DEF IInv
<1>2. /\ stage = "notified" /\ acked' = acked \cup {r \in {work} : waiting[r.token] = r}
      /\ UNCHANGED <<submitted, log, sent>>
  BY DEF Return
<1>3. work \in log /\ work \in Reading
  BY <1>1, <1>2 DEF WorkOK, TypeRest
<1>4. CASE waiting[work.token] = work
  <2>1. acked' = acked \cup {work}
    BY <1>2, <1>4
  <2>2. T!Ack(work)
    BY <1>2, <1>3, <2>1 DEF T!Ack
  <2> QED BY <1>3, <2>2
<1>5. CASE waiting[work.token] # work
  <2>1. acked' = acked
    BY <1>2, <1>5
  <2> QED BY <1>2, <2>1 DEF T!vars
<1> QED BY <1>4, <1>5

\* What a sender does is Alert, of a stored reading never alerted of.
LEMMA SendRefines ==
  ASSUME IInv, NEW s \in Senders, Send(s)
  PROVE  \E r \in Reading : T!Alert(r)
<1>1. PICK alert : alert = Head(queue[s])
  OBVIOUS
<1>2. PICK h : h = alert.reading
  OBVIOUS
<1>3. /\ Consume(s) /\ sent' = Append(sent, alert)
      /\ UNCHANGED <<submitted, acked, log>>
  BY <1>1 DEF Send, agents, storing
<1>4. s \in Services /\ s # "central" /\ ReadingOf(s, Head(queue[s])) = h
  BY <1>1, <1>2 DEF Services, Senders, ReadingOf
<1>5. alert \in Alert
  BY <1>1, <1>3, <1>4, HeadFacts DEF Of
<1>6. h \in Reading /\ h \in log /\ h.type = "ERROR" /\ Fresh(s, h)
  BY <1>3, <1>4, HeadFacts
<1>7. sent \in Seq(Alert)
  BY TypeSplit DEF IInv, TypeRest
<1>8. Alerts(sent') = Append(Alerts(sent), h)
  BY <1>2, <1>3, <1>5, <1>7, AlertsAppend
<1>9. \A j \in DOMAIN Alerts(sent) : Alerts(sent)[j] # h
  BY <1>6, <1>7, AlertsFacts DEF Alerts, Fresh
<1>10. T!Alert(h)
  BY <1>3, <1>6, <1>8, <1>9 DEF T!Alert, T!Range, Alerts, Severe
<1> QED BY <1>6, <1>10

\* Every step is a step of Telemetry or leaves its variables alone.
LEMMA StepRefines == IInv /\ [Next]_vars => [T!Next]_(T!vars)
<1> SUFFICES ASSUME IInv, [Next]_vars PROVE T!Next \/ UNCHANGED T!vars
  OBVIOUS
<1>1. ASSUME UNCHANGED <<submitted, log, acked, sent>>
      PROVE  UNCHANGED T!vars
  BY <1>1 DEF T!vars
<1>2. ASSUME NEW t \in Tokens, Report(t) \/ AgentRestart(t)
      PROVE  T!Next \/ UNCHANGED T!vars
  <2>1. CASE Report(t)
    BY <2>1, ReportRefines DEF T!Next
  <2>2. CASE AgentRestart(t)
    BY <1>1, <2>2 DEF AgentRestart, storing
  <2> QED BY <1>2, <2>1, <2>2
<1>3. CASE Put
  <2>1. CASE Refuse \/ BadData \/ Add \/ NotifyNotifier
    BY <1>1, <2>1 DEF Refuse, BadData, Dismiss, Add, NotifyNotifier, storing, agents
  <2>2. CASE Save \/ SaveFails
    BY <2>2, StoreRefines DEF T!Next
  <2>3. CASE Return
    BY <2>3, ReturnRefines DEF T!Next
  <2> QED BY <1>3, <2>1, <2>2, <2>3 DEF Put
<1>4. CASE Notify
  BY <1>1, <1>4 DEF Notify, agents, storing
<1>5. ASSUME NEW s \in Services, Stop(s)
      PROVE  UNCHANGED T!vars
  BY <1>1, <1>5 DEF Stop, agents, storing
<1>6. CASE NotifyUnregistered
  BY <1>5, <1>6 DEF NotifyUnregistered, Services
<1>7. ASSUME NEW s \in Senders, Send(s)
      PROVE  T!Next
  BY <1>7, SendRefines DEF T!Next
<1>8. ASSUME NEW s \in Services, Start(s) \/ Crash(s)
      PROVE  UNCHANGED T!vars
  BY <1>1, <1>5, <1>8 DEF Start, Crash, agents, storing
<1>9. ASSUME NEW a \in Admins, ChangeAdminConfig(a)
      PROVE  UNCHANGED T!vars
  BY <1>1, <1>9 DEF ChangeAdminConfig, agents, storing
<1>10. CASE RedisLoss \/ UNCHANGED vars
  BY <1>1, <1>10 DEF RedisLoss, vars, agents, storing
<1> QED BY <1>2, <1>3, <1>4, <1>6, <1>7, <1>8, <1>9, <1>10 DEF Next

\* The chain from the agents over CentralMicroservice, NotifierMicroservice
\* and the senders implements the abstract telemetry, for every deployment and
\* every sequence of faults.
THEOREM MonitoringImplementsTelemetry == Spec => ImplementsTelemetry
  BY InitRefines, StepRefines, Invariance, PTL DEF Spec, ImplementsTelemetry, T!Spec
=============================================================================

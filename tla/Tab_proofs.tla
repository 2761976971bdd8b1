----------------------------- MODULE Tab_proofs -----------------------------
(***************************************************************************)
(* Proofs about Tab, for any accounts and meerkats and any number of acts, *)
(* requests and failures.                                                  *)
(***************************************************************************)
EXTENDS Tab, SequenceTheorems, TLAPS

Good(r) == r.answer # None /\ r.answer.status = 200

\* What is known of a request that is not handled yet, whatever is shown.
RequestOK(r) ==
    /\ r.kind \in {"list", "add"} => r.who \in Accounts /\ token # None
    /\ r.kind \in {"login", "register"} => r.who \in Accounts
    /\ r.kind = "add" =>
          /\ r.id \in Meerkats
          /\ r.answer = None => owner[r.id] = None
          /\ Good(r) => \A m \in r.answer.rows : owner[m] # None
    /\ r.kind = "logs" /\ Good(r) => r.id # None

\* What is known of one that the page which is shown awaits.
LiveOK(r) ==
    r.page = "live" =>
        /\ r.kind = "list" =>
              /\ ~kept => r.who = token
              /\ r.no = newest /\ Good(r) => added \cap Rows(r.who) \subseteq r.answer.rows
        /\ r.kind = "logs" /\ ~kept => r.id = history[at].id

\* A meerkat is being added once at a time.
AddsDiffer ==
    \A r, s \in requests : r.kind = "add" /\ s.kind = "add" /\ r.id = s.id => r = s

IInv ==
    /\ TypeOK
    /\ \A r \in requests : RequestOK(r) /\ LiveOK(r)
    /\ AddsDiffer
    /\ list # None => list.no \in 1..sent
    /\ ShownIsAsked
    /\ AddedIsListed

\* The counters and the gateway, whose types every step keeps alike.
Frame ==
    /\ acts' \in 0..MaxActs /\ failures' \in 0..MaxFailures
    /\ accounts' \subseteq Accounts
    /\ owner' \in [Meerkats -> Accounts \cup {None}]
-----------------------------------------------------------------------------
\* A call is a request without an answer.
LEMMA CallType ==
  ASSUME NEW n \in Nat, NEW kind \in {"login", "register", "list", "add", "logs"},
         NEW who \in Accounts \cup {None}, NEW id \in Meerkats \cup {None},
         NEW page \in {"live", "left", "gone"}
  PROVE  LET c == Call(n, kind, who, id, page)
         IN /\ c \in Request
            /\ c.no = n /\ c.kind = kind /\ c.who = who /\ c.id = id /\ c.page = page
            /\ c.answer = None
  BY DEF Call, Request

\* The rows of an account are meerkats, and stay when owners do.
LEMMA RowsFacts ==
  ASSUME TypeOK, NEW a \in Accounts, NEW m \in Meerkats
  PROVE  /\ Rows(a) \subseteq Meerkats
         /\ owner'[m] = owner[m] => (m \in Rows(a) <=> m \in Rows(a)')
  BY DEF Rows

\* rs2 are requests under way whose page does not await them any more.
Abandoned(rs2) ==
    /\ \A q \in rs2 :
          /\ q \in Request /\ q.page # "live"
          /\ \E r \in requests : /\ q.no = r.no /\ q.kind = r.kind /\ q.who = r.who
                                 /\ q.id = r.id /\ q.answer = r.answer
    /\ \A q, s \in rs2 : q.no = s.no => q = s

\* Leaving a page and loading the document again abandon what was sent.
LEMMA LeaveAbandons ==
  ASSUME TypeOK, NEW rs \in SUBSET requests
  PROVE  Abandoned(Leave(rs))
<1> DEFINE Left(r) == [r EXCEPT !.page = IF @ = "live" THEN "left" ELSE @]
<1>1. \A r \in rs : r \in requests /\ r \in Request
  BY DEF TypeOK
<1>2. ASSUME NEW r \in rs
      PROVE  /\ Left(r) \in Request /\ Left(r).page # "live"
             /\ Left(r).no = r.no /\ Left(r).kind = r.kind /\ Left(r).who = r.who
             /\ Left(r).id = r.id /\ Left(r).answer = r.answer
  BY <1>1 DEF Request
<1>3. \A r, s \in rs : r.no = s.no => Left(r) = Left(s)
  BY <1>1 DEF TypeOK
<1>4. Leave(rs) = {Left(r) : r \in rs}
  BY DEF Leave
<1> HIDE DEF Left
<1> QED BY <1>1, <1>2, <1>3, <1>4 DEF Abandoned

\* Reloading leaves no request that a mounted page awaits.
LEMMA ReloadAbandons ==
  ASSUME TypeOK
  PROVE  Abandoned({[r EXCEPT !.page = "gone"] : r \in requests})
<1> DEFINE Gone(r) == [r EXCEPT !.page = "gone"]
<1>1. \A r \in requests : r \in Request
  BY DEF TypeOK
<1>2. ASSUME NEW r \in requests
      PROVE  /\ Gone(r) \in Request /\ Gone(r).page # "live"
             /\ Gone(r).no = r.no /\ Gone(r).kind = r.kind /\ Gone(r).who = r.who
             /\ Gone(r).id = r.id /\ Gone(r).answer = r.answer
  BY <1>1 DEF Request
<1>3. \A r, s \in requests : r.no = s.no => Gone(r) = Gone(s)
  BY <1>1 DEF TypeOK
<1>4. {[r EXCEPT !.page = "gone"] : r \in requests} = {Gone(r) : r \in requests}
  OBVIOUS
<1> HIDE DEF Gone
<1> QED BY <1>1, <1>2, <1>3, <1>4 DEF Abandoned
-----------------------------------------------------------------------------
\* What every step that shows an entry leaves: the entry is l, for token t.
Shown(l, t) ==
    /\ token' = t /\ (token # None => t # None)
    /\ history' \in Seq(Location) /\ at' \in DOMAIN history' /\ history'[at'] = l
    /\ t = None => \A i \in DOMAIN history' :
                       history'[i].page \notin {"dashboard", "instruction"}
    /\ UNCHANGED gateway /\ Frame

\* What the effect of a page sends.
LEMMA OnMountFacts ==
  ASSUME NEW n \in Nat, NEW l \in Location, NEW t \in Accounts \cup {None},
         NEW c \in OnMount(n, l, t)
  PROVE  /\ c \in Request /\ c.no = n /\ c.who = t /\ c.page = "live" /\ c.answer = None
         /\ \/ c.kind = "list" /\ l.page = "dashboard"
            \/ c.kind = "logs" /\ l.page = "preview" /\ c.id = l.id
         /\ OnMount(n, l, t) = {c}
<1>1. l.page \in Pages /\ l.id \in Meerkats \cup {None}
  BY DEF Location
<1>2. CASE l.page = "dashboard"
  <2>1. OnMount(n, l, t) = {Call(n, "list", t, None, "live")}
    BY <1>2 DEF OnMount
  <2> QED BY <1>2, <2>1, CallType
<1>3. CASE l.page = "preview"
  <2>1. OnMount(n, l, t) = {Call(n, "logs", t, l.id, "live")}
    BY <1>3 DEF OnMount
  <2> QED BY <1>1, <1>3, <2>1, CallType
<1>4. CASE l.page \notin {"dashboard", "preview"}
  BY <1>1, <1>4 DEF OnMount, Pages
<1> QED BY <1>2, <1>3, <1>4

\* Mounting a page keeps the invariant.
LEMMA MountStep ==
  ASSUME IInv, NEW l \in Location, NEW t \in Accounts \cup {None}, NEW rs2,
         Abandoned(rs2), Mount(l, t, rs2), Shown(l, t)
  PROVE  IInv'
<1> USE DEF IInv
<1>1. sent \in Nat /\ sent + 1 \in Nat /\ Page' = l.page
  BY DEF TypeOK, Shown, Page
<1>2. requests' = rs2 \cup OnMount(sent + 1, l, t)
  BY DEF Mount
<1>3. /\ sent' \in {sent, sent + 1}
      /\ \A c \in OnMount(sent + 1, l, t) : sent' = sent + 1
  BY DEF Mount
<1>4. /\ list' = None /\ ~modal' /\ modal' \in BOOLEAN /\ logs' = None
      /\ ~kept' /\ kept' \in BOOLEAN /\ added' = {} /\ drawn' = t
      /\ newest' = IF l.page = "dashboard" THEN sent + 1 ELSE 0
  BY DEF Mount
<1>5. \A q \in rs2 : q.no \in 1..sent
  BY DEF Abandoned, TypeOK
<1>6. newest' \in 0..sent'
  <2>1. CASE l.page = "dashboard"
    <3>1. OnMount(sent + 1, l, t) # {}
      BY <2>1 DEF OnMount
    <3> QED BY <1>1, <1>3, <1>4, <2>1, <3>1
  <2>2. CASE l.page # "dashboard"
    BY <1>1, <1>3, <1>4, <2>2
  <2> QED BY <2>1, <2>2
<1>7. \A q \in requests' : \/ q \in rs2
                           \/ q \in OnMount(sent + 1, l, t)
  BY <1>2
<1>8. TypeOK'
  <2>1. \A q \in requests' : q \in Request /\ q.no \in 1..sent'
    <3>1. \A q \in rs2 : q \in Request /\ q.no \in 1..sent'
      BY <1>1, <1>3, <1>5 DEF Abandoned
    <3>2. \A q \in OnMount(sent + 1, l, t) : q \in Request /\ q.no \in 1..sent'
      BY <1>1, <1>3, OnMountFacts
    <3> QED BY <1>7, <3>1, <3>2
  <2>2. \A q, s \in requests' : q.no = s.no => q = s
    <3>1. \A q, s \in rs2 : q.no = s.no => q = s
      BY DEF Abandoned
    <3>2. \A q \in OnMount(sent + 1, l, t) : q.no = sent + 1 /\ OnMount(sent + 1, l, t) = {q}
      BY <1>1, OnMountFacts
    <3>3. \A q \in rs2 : q.no # sent + 1
      BY <1>1, <1>5
    <3> QED BY <1>7, <3>1, <3>2, <3>3
  <2>3. \A q \in requests' : q.page = "live" => Page' = PageOf(q.kind)
    <3>1. \A q \in OnMount(sent + 1, l, t) : l.page = PageOf(q.kind)
      BY <1>1, OnMountFacts DEF PageOf
    <3> QED BY <1>1, <1>7, <3>1 DEF Abandoned
  <2>4. sent' \in Nat
    BY <1>1, <1>3
  <2> QED
    BY <1>4, <1>6, <2>1, <2>2, <2>3, <2>4 DEF TypeOK, Shown, Frame, gateway
<1>9. \A q \in rs2 : RequestOK(q)' /\ LiveOK(q)'
  <2> SUFFICES ASSUME NEW q \in rs2 PROVE RequestOK(q)' /\ LiveOK(q)'
    OBVIOUS
  <2>1. PICK r \in requests : /\ q.no = r.no /\ q.kind = r.kind /\ q.who = r.who
                              /\ q.id = r.id /\ q.answer = r.answer
    BY DEF Abandoned
  <2>2. RequestOK(r) /\ q.page # "live"
    BY DEF Abandoned
  <2> QED BY <2>1, <2>2 DEF RequestOK, LiveOK, Good, Shown, gateway
<1>10. \A q \in OnMount(sent + 1, l, t) : RequestOK(q)' /\ LiveOK(q)'
  <2> SUFFICES ASSUME NEW q \in OnMount(sent + 1, l, t) PROVE RequestOK(q)' /\ LiveOK(q)'
    OBVIOUS
  <2>1. /\ q.no = sent + 1 /\ q.who = t /\ q.answer = None
        /\ \/ q.kind = "list" /\ l.page = "dashboard"
           \/ q.kind = "logs" /\ l.page = "preview" /\ q.id = l.id
    BY <1>1, OnMountFacts
  <2>2. l.page = "dashboard" => t # None
    BY DEF Shown
  <2> QED BY <2>1, <2>2, <1>4 DEF RequestOK, LiveOK, Good, Shown
<1>11. AddsDiffer'
  <2> SUFFICES ASSUME NEW q \in requests', NEW s \in requests',
                      q.kind = "add", s.kind = "add", q.id = s.id
               PROVE  q = s
    BY DEF AddsDiffer
  <2>1. q \in rs2 /\ s \in rs2
    BY <1>1, <1>7, OnMountFacts
  <2>2. q.no = s.no
    BY <2>1 DEF Abandoned, AddsDiffer
  <2> QED BY <2>1, <2>2 DEF Abandoned
<1>12. ShownIsAsked' /\ AddedIsListed'
  BY <1>4 DEF ShownIsAsked, AddedIsListed
<1> QED BY <1>4, <1>7, <1>8, <1>9, <1>10, <1>11, <1>12

\* Rendering the page that is mounted again keeps the invariant.
LEMMA RenderStep ==
  ASSUME IInv, NEW l \in Location, NEW t \in Accounts \cup {None},
         NEW rs \in SUBSET requests, l.page = Page, Shown(l, t), requests' = rs,
         kept' = (kept \/ t # token \/ l # history[at]),
         UNCHANGED <<sent, newest, list, modal, drawn, logs, added>>
  PROVE  IInv'
<1> USE DEF IInv
<1>1. Page' = Page
  BY DEF Shown, Page
<1>2. \A q \in requests' : q \in requests
  OBVIOUS
<1>3. TypeOK'
  <2>1. kept' \in BOOLEAN
    BY DEF TypeOK
  <2> QED BY <1>1, <1>2, <2>1 DEF TypeOK, Shown, Frame, gateway
<1>4. ~kept' => ~kept /\ token' = token /\ history'[at'] = history[at]
  BY DEF Shown
<1>5. \A a : Rows(a)' = Rows(a)
  BY DEF Rows, Shown, gateway
<1>6. \A q \in requests' : RequestOK(q)'
  BY <1>2 DEF RequestOK, Good, Shown, gateway
<1>7. \A q \in requests' : LiveOK(q)'
  BY <1>2, <1>4, <1>5 DEF LiveOK, Good
<1>8. AddsDiffer'
  BY <1>2 DEF AddsDiffer
<1>9. ShownIsAsked' /\ AddedIsListed'
  BY <1>4, <1>5 DEF ShownIsAsked, AddedIsListed
<1> QED BY <1>3, <1>6, <1>7, <1>8, <1>9
-----------------------------------------------------------------------------
\* Entry i of h is shown, whether its page has to be mounted or not.
LEMMA ShowStep ==
  ASSUME IInv, NEW h \in Seq(Location), NEW i \in DOMAIN h,
         NEW t \in Accounts \cup {None}, NEW rs \in SUBSET requests,
         t = None => \A j \in DOMAIN h :
                        j # i => h[j].page \notin {"dashboard", "instruction"},
         token # None => t # None,
         Show(h, i, t, rs), UNCHANGED gateway, Frame
  PROVE  IInv'
<1> DEFINE l == Routed(h[i], t)
<1>1. h[i] \in Location /\ At("login") \in Location
  <2>1. h[i] \in Location
    OBVIOUS
  <2>2. At("login") \in Location
    BY DEF Location, At, Pages
  <2> QED BY <2>1, <2>2
<1>2. l \in Location /\ (t = None => l.page \notin {"dashboard", "instruction"})
  <2>1. At("login").page = "login"
    BY DEF At
  <2> QED BY <1>1, <2>1 DEF Routed, IsAuthed
<1>3. /\ token' = t /\ history' = [h EXCEPT ![i] = l] /\ at' = i
      /\ \/ l.page # Page /\ Mount(l, t, Leave(rs))
         \/ /\ l.page = Page
            /\ requests' = rs
            /\ kept' = (kept \/ t # token \/ l # history[at])
            /\ UNCHANGED <<sent, newest, list, modal, drawn, logs, added>>
  BY DEF Show
<1> HIDE DEF l
<1>4. /\ history' \in Seq(Location) /\ DOMAIN history' = DOMAIN h
      /\ history'[i] = l
      /\ \A j \in DOMAIN h : j # i => history'[j] = h[j]
  BY <1>2, <1>3
<1>5. Shown(l, t)
  BY <1>2, <1>3, <1>4 DEF Shown
<1>6. CASE l.page # Page /\ Mount(l, t, Leave(rs))
  <2>1. Abandoned(Leave(rs))
    BY LeaveAbandons DEF IInv
  <2> HIDE DEF IInv
  <2> QED BY <1>2, <1>5, <1>6, <2>1, MountStep
<1>7. CASE /\ l.page = Page
           /\ requests' = rs
           /\ kept' = (kept \/ t # token \/ l # history[at])
           /\ UNCHANGED <<sent, newest, list, modal, drawn, logs, added>>
  BY <1>2, <1>5, <1>7, RenderStep
<1> QED BY <1>3, <1>6, <1>7

\* So keeps a push, which drops the entries after the present one.
LEMMA PushStep ==
  ASSUME IInv, NEW l \in Location, NEW t \in Accounts \cup {None},
         NEW rs \in SUBSET requests, token # None => t # None,
         Push(l, t, rs), UNCHANGED gateway, Frame
  PROVE  IInv'
<1> DEFINE h == Append(SubSeq(history, 1, at), l)
<1>1. /\ history \in Seq(Location) /\ at \in 1..Len(history)
      /\ token = None => \A i \in DOMAIN history :
                            history[i].page \notin {"dashboard", "instruction"}
  BY DEF IInv, TypeOK
<1>2. /\ SubSeq(history, 1, at) \in Seq(Location)
      /\ Len(SubSeq(history, 1, at)) = at
      /\ \A j \in 1..at : SubSeq(history, 1, at)[j] = history[j]
  BY <1>1
<1>3. /\ h \in Seq(Location) /\ DOMAIN h = 1..(at + 1)
      /\ \A j \in 1..at : h[j] = history[j]
  BY <1>1, <1>2
<1>4. Show(h, at + 1, t, rs)
  BY DEF Push
<1> HIDE DEF h
<1>5. at + 1 \in DOMAIN h
  BY <1>1, <1>3
<1>6. t = None => \A j \in DOMAIN h :
                    j # at + 1 => h[j].page \notin {"dashboard", "instruction"}
  BY <1>1, <1>3
<1> QED BY <1>3, <1>4, <1>5, <1>6, ShowStep

\* The types of the counters and of the gateway when an act changes neither.
LEMMA MovesFrame ==
  ASSUME TypeOK, Moves
  PROVE  Frame /\ UNCHANGED gateway
  BY TabAssumption DEF TypeOK, Moves, Act, Frame, gateway

\* The acts that show another entry.
LEMMA RedirectsStep ==
  ASSUME IInv, RedirectToRegister \/ RedirectToLogin \/ RedirectToInstruction
  PROVE  IInv'
<1>1. /\ At("register") \in Location /\ At("dashboard") \in Location
      /\ At("instruction") \in Location
  BY DEF Location, At, Pages
<1>2. TypeOK /\ token \in Accounts \cup {None}
  BY DEF IInv, TypeOK
<1>3. \E l \in Location : Moves /\ Push(l, token, requests)
  BY <1>1 DEF RedirectToRegister, RedirectToLogin, RedirectToInstruction
<1> QED BY <1>2, <1>3, MovesFrame, PushStep

\* A row of the list opens a preview; another user's row has no id.
LEMMA ShowMeerkatLogsStep ==
  ASSUME IInv, ShowMeerkatLogs
  PROVE  IInv'
<1>1. TypeOK /\ token \in Accounts \cup {None}
  BY DEF IInv, TypeOK
<1>2. list # None => list.rows \subseteq Meerkats
  BY <1>1 DEF TypeOK
<1>3. \E l \in Location : Push(l, token, requests)
  BY <1>2 DEF ShowMeerkatLogs, Preview, Location, Pages
<1>4. Moves
  BY DEF ShowMeerkatLogs
<1> QED BY <1>1, <1>3, <1>4, MovesFrame, PushStep

\* Going back, and any jump in the history.
LEMMA TraverseStep ==
  ASSUME IInv, BackToDashboard \/ \E i \in DOMAIN history : Traverse(i)
  PROVE  IInv'
<1>1. /\ TypeOK /\ token \in Accounts \cup {None} /\ history \in Seq(Location)
      /\ at \in DOMAIN history
      /\ token = None => \A i \in DOMAIN history :
                            history[i].page \notin {"dashboard", "instruction"}
  BY DEF IInv, TypeOK
<1>2. \E i \in DOMAIN history : Moves /\ Show(history, i, token, requests)
  BY <1>1 DEF BackToDashboard, Traverse
<1> QED BY <1>1, <1>2, MovesFrame, ShowStep

\* Loading the document again.
LEMMA ReloadStep ==
  ASSUME IInv, Reload
  PROVE  IInv'
<1>1. TypeOK
  BY DEF IInv
<1>2. Frame /\ UNCHANGED gateway
  BY <1>1, MovesFrame DEF Reload
<1>3. history[at] \in Location /\ token \in Accounts \cup {None}
  BY <1>1 DEF TypeOK
<1>4. Shown(history[at], token)
  BY <1>1, <1>2 DEF Reload, Shown, TypeOK
<1> QED BY <1>1, <1>3, <1>4, ReloadAbandons, MountStep DEF Reload

\* A late answer to a login pushes the Dashboard whatever is shown.
LEMMA LoginAnsweredStep ==
  ASSUME IInv, NEW r \in requests, LoginAnswered(r)
  PROVE  IInv'
<1>1. r.who \in Accounts /\ At("dashboard") \in Location /\ Others(r) \in SUBSET requests
  BY DEF IInv, RequestOK, LoginAnswered, Handles, At, Location, Pages, Others
<1>2. Frame /\ UNCHANGED gateway
  BY DEF IInv, TypeOK, LoginAnswered, Frame, gateway
<1> QED BY <1>1, <1>2, PushStep, TabAssumption DEF LoginAnswered
-----------------------------------------------------------------------------
\* Sending a request from the page that is shown keeps the invariant.
LEMMA SubmitStep ==
  ASSUME IInv, NEW kind \in {"login", "register", "list", "add"},
         NEW who \in Accounts \cup {None}, NEW id \in Meerkats \cup {None},
         Page = PageOf(kind),
         kind \in {"login", "register"} => who # None,
         kind \in {"list", "add"} => who = token,
         kind = "add" => /\ id \in Meerkats /\ owner[id] = None
                         /\ \A r \in requests : r.kind = "add" => r.id # id,
         Submit(Call(sent + 1, kind, who, id, "live")),
         modal' \in BOOLEAN, modal' => modal, drawn' \in {drawn, token},
         newest' \in {newest, sent + 1}
  PROVE  IInv'
<1> USE DEF IInv
<1>0. PICK c : c = Call(sent + 1, kind, who, id, "live")
  OBVIOUS
<1>1. sent \in Nat /\ sent + 1 \in Nat /\ newest \in 0..sent /\ sent' = sent + 1
  BY DEF TypeOK, Submit
<1>2. requests' = requests \cup {c}
  BY <1>0 DEF Submit
<1>3. /\ c \in Request /\ c.no = sent + 1 /\ c.kind = kind /\ c.who = who /\ c.id = id
      /\ c.page = "live" /\ c.answer = None
  BY <1>0, <1>1, CallType
<1>4. /\ UNCHANGED <<token, history, at, list, logs, kept, added, gateway, failures>>
      /\ Page' = Page /\ acts' \in 0..MaxActs
  BY TabAssumption DEF Submit, Act, Page, TypeOK
<1>5. \A q \in requests : q.no \in 1..sent /\ q.no # sent + 1
  BY <1>1 DEF TypeOK
<1>6. kind \in {"list", "add"} => token # None /\ who \in Accounts
  BY DEF TypeOK, Page, PageOf
<1>7. \A a : Rows(a)' = Rows(a)
  BY <1>4 DEF Rows, gateway
<1>8. TypeOK'
  <2>1. \A q \in requests' : q \in Request /\ q.no \in 1..sent'
    BY <1>1, <1>2, <1>3, <1>5 DEF TypeOK
  <2>2. \A q, s \in requests' : q.no = s.no => q = s
    BY <1>2, <1>3, <1>5 DEF TypeOK
  <2>3. \A q \in requests' : q.page = "live" => Page' = PageOf(q.kind)
    BY <1>2, <1>3, <1>4 DEF TypeOK
  <2>4. newest' \in 0..sent' /\ sent' \in Nat
    BY <1>1
  <2> QED BY <1>4, <2>1, <2>2, <2>3, <2>4 DEF TypeOK, gateway
<1>9. RequestOK(c)' /\ LiveOK(c)'
  BY <1>3, <1>4, <1>6 DEF RequestOK, LiveOK, Good, gateway
<1>10. \A q \in requests : RequestOK(q)' /\ LiveOK(q)'
  <2>1. \A q \in requests : RequestOK(q)'
    BY <1>4 DEF RequestOK, Good, gateway
  <2>2. \A q \in requests : LiveOK(q)'
    BY <1>4, <1>5, <1>7 DEF LiveOK, Good
  <2> QED BY <2>1, <2>2
<1>11. AddsDiffer'
  BY <1>2, <1>3 DEF AddsDiffer
<1>12. list' # None => list'.no \in 1..sent' /\ list'.no # sent + 1
  BY <1>1, <1>4
<1>13. ShownIsAsked' /\ AddedIsListed'
  BY <1>4, <1>7, <1>12 DEF ShownIsAsked, AddedIsListed
<1> QED BY <1>2, <1>8, <1>9, <1>10, <1>11, <1>12, <1>13

\* The forms and the dialog.
LEMMA FormsStep ==
  ASSUME IInv,
         \/ \E a \in Accounts : SubmitLogin(a) \/ SubmitRegister(a)
         \/ CloseModal
         \/ \E m \in Meerkats : AddMeerkat(m)
  PROVE  IInv'
<1>1. /\ token \in Accounts \cup {None} /\ modal \in BOOLEAN
      /\ modal => Page = "dashboard"
  BY DEF IInv, TypeOK
<1>2. None \notin Accounts
  BY TabAssumption
<1>3. ASSUME NEW a \in Accounts, SubmitLogin(a) PROVE IInv'
  BY <1>1, <1>2, <1>3, SubmitStep DEF SubmitLogin, PageOf
<1>4. ASSUME NEW a \in Accounts, SubmitRegister(a) PROVE IInv'
  BY <1>1, <1>2, <1>4, SubmitStep DEF SubmitRegister, PageOf
<1>5. CASE CloseModal
  BY <1>1, <1>5, SubmitStep DEF CloseModal, PageOf
<1>6. ASSUME NEW m \in Meerkats, AddMeerkat(m) PROVE IInv'
  BY <1>1, <1>6, SubmitStep DEF AddMeerkat, PageOf
<1> QED BY <1>3, <1>4, <1>5, <1>6

\* The buttons that only set a state.
LEMMA ButtonsStep ==
  ASSUME IInv, ShowAddMeerkatModal \/ ToggleTokens
  PROVE  IInv'
<1> USE DEF IInv
<1>1. /\ UNCHANGED <<token, history, at, list, logs, kept, newest, added, network, gateway,
                     acts, failures>>
      /\ Page = "dashboard" /\ modal' \in {TRUE, modal} /\ drawn' = token /\ Page' = Page
  BY DEF ShowAddMeerkatModal, ToggleTokens, Page
<1>2. \A a : Rows(a)' = Rows(a)
  BY <1>1 DEF Rows, gateway
<1>3. TypeOK'
  BY <1>1 DEF TypeOK, network, gateway
<1>4. \A r \in requests' : RequestOK(r)' /\ LiveOK(r)'
  BY <1>1, <1>2 DEF RequestOK, LiveOK, Good, network, gateway
<1>5. AddsDiffer' /\ ShownIsAsked' /\ AddedIsListed'
  BY <1>1, <1>2 DEF AddsDiffer, ShownIsAsked, AddedIsListed, network
<1> QED BY <1>1, <1>3, <1>4, <1>5 DEF network
-----------------------------------------------------------------------------
\* Answering a request keeps the invariant, if what a good answer says is so.
LEMMA AnswerStep ==
  ASSUME IInv, NEW r \in requests, NEW status \in {0, 200, 400},
         NEW rows \in SUBSET Meerkats, Answer(r, status, rows),
         status = 200 => /\ r.kind = "list" => rows = Rows(r.who)'
                         /\ r.kind = "add" => \A m \in rows : owner'[m] # None
                         /\ r.kind = "logs" => r.id # None,
         \A m \in Meerkats : owner[m] # None => owner'[m] = owner[m],
         \A s \in requests \ {r} :
            s.kind = "add" /\ s.answer = None => owner'[s.id] = None,
         UNCHANGED <<token, place, sent>>, Frame
  PROVE  IInv'
<1> USE DEF IInv
<1>1. PICK x : /\ x \in Response /\ x # None /\ x.status = status /\ x.rows = rows
               /\ requests' = (requests \ {r}) \cup {[r EXCEPT !.answer = x]}
  <2>1. PICK x : x = [status |-> status, rows |-> rows]
    OBVIOUS
  <2>2. x \in Response /\ x.status = status /\ x.rows = rows
    BY <2>1 DEF Response
  <2>3. requests' = (requests \ {r}) \cup {[r EXCEPT !.answer = x]}
    BY <2>1 DEF Answer
  <2> QED BY <2>2, <2>3, NoneAssumption
<1>2. PICK q : /\ q \in Request /\ q.no = r.no /\ q.kind = r.kind /\ q.who = r.who
               /\ q.id = r.id /\ q.page = r.page /\ q.answer = x
               /\ requests' = (requests \ {r}) \cup {q}
  <2>1. PICK q : q = [r EXCEPT !.answer = x]
    OBVIOUS
  <2>2. r \in Request
    BY DEF TypeOK
  <2>3. /\ q \in Request /\ q.no = r.no /\ q.kind = r.kind /\ q.who = r.who
        /\ q.id = r.id /\ q.page = r.page /\ q.answer = x
    BY <1>1, <2>1, <2>2 DEF Request
  <2> QED BY <1>1, <2>1, <2>3
<1>3. /\ q \in Request /\ q.no = r.no /\ q.kind = r.kind /\ q.who = r.who
      /\ q.id = r.id /\ q.page = r.page /\ q.answer = x
      /\ x # None /\ x.status = status /\ x.rows = rows
  BY <1>1, <1>2
<1>4. /\ UNCHANGED <<token, history, at, list, modal, drawn, logs, kept, newest, added, sent>>
      /\ Page' = Page
  BY DEF place, state, Page
<1>5. added \subseteq {m \in Meerkats : owner'[m] # None}
  BY DEF TypeOK
<1>6. ASSUME NEW a PROVE added \cap Rows(a)' = added \cap Rows(a)
  BY DEF Rows, TypeOK
<1>7. TypeOK'
  <2>1. \A s \in requests' : s \in Request /\ s.no \in 1..sent'
    BY <1>2, <1>3, <1>4 DEF TypeOK
  <2>2. \A s, u \in requests' : s.no = u.no => s = u
    BY <1>2, <1>3 DEF TypeOK
  <2>3. \A s \in requests' : s.page = "live" => Page' = PageOf(s.kind)
    BY <1>2, <1>3, <1>4 DEF TypeOK
  <2> QED BY <1>4, <1>5, <2>1, <2>2, <2>3 DEF TypeOK, Frame
<1>8. RequestOK(q)' /\ LiveOK(q)'
  <2>1. RequestOK(q)'
    <3>1. RequestOK(r) /\ (Good(q) <=> status = 200)
      BY <1>3 DEF Good
    <3>2. q.kind = "add" => q.id \in Meerkats
      BY <1>3, <3>1 DEF RequestOK
    <3>3. /\ q.kind \in {"list", "add"} => q.who \in Accounts /\ token' # None
          /\ q.kind \in {"login", "register"} => q.who \in Accounts
      BY <1>3, <1>4, <3>1 DEF RequestOK
    <3>4. q.kind = "add" /\ Good(q) => \A m \in q.answer.rows : owner'[m] # None
      BY <1>3, <3>1
    <3>5. q.kind = "logs" /\ Good(q) => q.id # None
      BY <1>3, <3>1
    <3>6. q.answer # None
      BY <1>3
    <3> HIDE DEF IInv
    <3> QED BY <3>2, <3>3, <3>4, <3>5, <3>6 DEF RequestOK, Good
  <2>2. LiveOK(q)'
    <3>1. LiveOK(r)
      OBVIOUS
    <3>2. q.kind = "list" /\ Good(q) => Rows(q.who)' = q.answer.rows
      BY <1>3 DEF Good
    <3>3. q.kind = "list" /\ q.page = "live" /\ ~kept' => q.who = token'
      BY <1>3, <1>4, <3>1 DEF LiveOK
    <3>4. q.kind = "logs" /\ q.page = "live" /\ ~kept' => q.id = history'[at'].id
      BY <1>3, <1>4, <3>1 DEF LiveOK
    <3> HIDE DEF IInv
    <3> QED BY <3>2, <3>3, <3>4 DEF LiveOK, Good
  <2> QED BY <2>1, <2>2
<1>9. ASSUME NEW s \in requests \ {r} PROVE RequestOK(s)' /\ LiveOK(s)'
  <2>1. s \in Request /\ RequestOK(s) /\ LiveOK(s)
    BY DEF TypeOK
  <2>2. Good(s) => s.answer.rows \subseteq Meerkats
    BY <2>1 DEF Good, Request, Response
  <2>3. RequestOK(s)'
    BY <1>4, <2>1, <2>2 DEF RequestOK, Good
  <2>4. LiveOK(s)'
    BY <1>4, <1>6, <2>1 DEF LiveOK, Good
  <2> QED BY <2>3, <2>4
<1>10. AddsDiffer'
  BY <1>2, <1>3 DEF AddsDiffer
<1>11. ShownIsAsked' /\ AddedIsListed'
  BY <1>4, <1>6 DEF ShownIsAsked, AddedIsListed
<1> QED BY <1>2, <1>4, <1>7, <1>8, <1>9, <1>10, <1>11

\* Every answer of the gateway is as AnswerStep requires.
LEMMA ServeStep ==
  ASSUME IInv, NEW r \in requests, Serve(r)
  PROVE  IInv'
<1> USE DEF Serve, Served, ServeLogin, ServeRegister, ServeList, ServeLogs, ServeAdd
<1>1. TypeOK /\ RequestOK(r) /\ r.answer = None /\ UNCHANGED <<token, place, sent>>
  BY DEF IInv
<1>2. /\ acts' = acts /\ acts \in 0..MaxActs /\ failures \in 0..MaxFailures
      /\ accounts \subseteq Accounts /\ owner \in [Meerkats -> Accounts \cup {None}]
  BY DEF TypeOK, IInv
<1>3. Fails => failures' \in 0..MaxFailures
  BY <1>2, TabAssumption DEF Fails
<1>4. \A s \in requests : s.kind = "add" /\ s.answer = None => owner[s.id] = None
  BY DEF IInv, RequestOK
<1>5. CASE r.kind \in {"login", "register"}
  <2>1. PICK status \in {0, 200, 400} : Answer(r, status, {})
    BY <1>5
  <2>2. owner' = owner /\ failures' = failures /\ accounts' \subseteq Accounts
    BY <1>1, <1>2, <1>5 DEF gateway, RequestOK
  <2>3. Frame
    BY <1>2, <2>2 DEF Frame
  <2> QED BY <1>1, <1>4, <1>5, <2>1, <2>2, <2>3, AnswerStep
<1>6. CASE r.kind \in {"list", "logs"}
  <2>1. UNCHANGED gateway /\ failures' = failures
    BY <1>6
  <2>2. Frame /\ owner' = owner
    BY <1>2, <2>1 DEF Frame, gateway
  <2>3. Rows(r.who)' = Rows(r.who) /\ Rows(r.who) \in SUBSET Meerkats
    BY <2>2 DEF Rows
  <2>4. CASE r.kind = "list"
    <3>1. Answer(r, 200, Rows(r.who))
      BY <2>4
    <3> QED BY <1>1, <1>4, <2>2, <2>3, <2>4, <3>1, AnswerStep
  <2>5. CASE r.kind = "logs"
    <3>1. PICK status \in {0, 200} : Answer(r, status, {}) /\ (status = 200 => r.id # None)
      BY <2>5
    <3> QED BY <1>1, <1>4, <2>2, <2>5, <3>1, AnswerStep
  <2> QED BY <1>6, <2>4, <2>5
<1>7. CASE r.kind = "add" /\ Answer(r, 200, {r.id})
           /\ owner' = [owner EXCEPT ![r.id] = r.who] /\ UNCHANGED <<accounts, failures>>
  <2>1. r.id \in Meerkats /\ r.who \in Accounts /\ r.who # None /\ owner[r.id] = None
    BY <1>1, <1>7, TabAssumption DEF RequestOK
  <2>2. Frame
    BY <1>2, <1>7, <2>1 DEF Frame
  <2>3. owner'[r.id] # None
    BY <1>2, <1>7, <2>1
  <2>4. \A m \in Meerkats : owner[m] # None => owner'[m] = owner[m]
    BY <1>2, <1>7, <2>1
  <2>5. ASSUME NEW s \in requests \ {r}, s.kind = "add", s.answer = None
        PROVE  owner'[s.id] = None
    <3>1. s.id # r.id
      BY <1>7, <2>5 DEF IInv, AddsDiffer
    <3>2. s.id \in Meerkats
      BY <2>5 DEF IInv, RequestOK
    <3> QED BY <1>2, <1>4, <1>7, <2>5, <3>1, <3>2
  <2> QED BY <1>1, <1>7, <2>1, <2>2, <2>3, <2>4, <2>5, AnswerStep
<1>8. CASE r.kind = "add" /\ Answer(r, 200, {}) /\ Fails /\ UNCHANGED gateway
  <2>1. Frame /\ owner' = owner
    BY <1>2, <1>3, <1>8 DEF Frame, gateway
  <2> QED BY <1>1, <1>4, <1>8, <2>1, AnswerStep
<1> QED BY <1>5, <1>6, <1>7, <1>8

\* A request that fails, before or after it was served.
LEMMA FailStep ==
  ASSUME IInv, NEW r \in requests, Fail(r)
  PROVE  IInv'
<1>1. /\ Answer(r, 0, {}) /\ UNCHANGED <<token, place, sent>> /\ owner' = owner
      /\ accounts' = accounts /\ acts' = acts
  BY DEF Fail, gateway
<1>2. Frame
  BY <1>1, TabAssumption DEF IInv, TypeOK, Frame, Fail, Fails
<1>3. \A s \in requests : s.kind = "add" /\ s.answer = None => owner[s.id] = None
  BY DEF IInv, RequestOK
<1> QED BY <1>1, <1>2, <1>3, AnswerStep
-----------------------------------------------------------------------------
\* Handling a response: what is shown of a list or of logs is what their
\* response says.
LEMMA ShowAnswerStep ==
  ASSUME IInv, NEW r \in requests, ListAnswered(r) \/ LogsAnswered(r) \/ Ignored(r)
  PROVE  IInv'
<1> USE DEF IInv
<1>1. /\ UNCHANGED <<token, history, at, modal, kept, newest, added, sent, gateway, acts,
                     failures>>
      /\ requests' = requests \ {r} /\ drawn' \in {drawn, token}
      /\ Page' = Page
  BY DEF ListAnswered, LogsAnswered, Ignored, Others, place, state, Page
<1>2. /\ r \in Request /\ RequestOK(r) /\ LiveOK(r)
      /\ r.no \in 1..sent /\ (r.page = "live" => Page = PageOf(r.kind))
  BY DEF TypeOK
<1>3. Good(r) => r.answer.rows \in SUBSET Meerkats
  BY <1>2 DEF Good, Request, Response
<1>4. \A a : Rows(a)' = Rows(a)
  BY <1>1 DEF Rows, gateway
<1>5. \/ UNCHANGED <<list, logs>>
      \/ /\ r.page = "live" /\ r.kind = "list" /\ Good(r) /\ logs' = logs
         /\ list' = [no |-> r.no, account |-> r.who, rows |-> r.answer.rows]
      \/ /\ r.page = "live" /\ r.kind = "logs" /\ Good(r) /\ list' = list
         /\ logs' = r.id
  BY DEF ListAnswered, LogsAnswered, Ignored, Handles, Good, place, state
<1>6. /\ list' \in [no : Nat, account : Accounts, rows : SUBSET Meerkats] \cup {None}
      /\ list' # None => list'.no \in 1..sent'
      /\ list' # None => list # None \/ Page = "dashboard"
      /\ logs' \in Meerkats \cup {None}
      /\ logs' # None => Page = "preview"
  <2>1. r.no \in Nat
    BY <1>2 DEF Request
  <2>2. r.kind = "list" => r.who \in Accounts
    BY <1>2 DEF RequestOK
  <2>3. r.id \in Meerkats \cup {None}
    BY <1>2 DEF Request
  <2>4. /\ r.page = "live" /\ r.kind = "list" => Page = "dashboard"
        /\ r.page = "live" /\ r.kind = "logs" => Page = "preview"
    BY <1>2 DEF PageOf
  <2> QED BY <1>1, <1>2, <1>3, <1>5, <2>1, <2>2, <2>3, <2>4 DEF TypeOK
<1>7. TypeOK'
  BY <1>1, <1>6 DEF TypeOK, gateway
<1>8. \A q \in requests' : RequestOK(q)' /\ LiveOK(q)'
  <2>1. \A q \in requests' : RequestOK(q)'
    BY <1>1 DEF RequestOK, Good, gateway
  <2>2. \A q \in requests' : LiveOK(q)'
    BY <1>1, <1>4 DEF LiveOK, Good
  <2> QED BY <2>1, <2>2
<1>9. AddsDiffer'
  BY <1>1 DEF AddsDiffer
<1>10. ShownIsAsked' /\ AddedIsListed'
  BY <1>1, <1>2, <1>4, <1>5 DEF ShownIsAsked, AddedIsListed, LiveOK
<1> QED BY <1>6, <1>7, <1>8, <1>9, <1>10

\* After a meerkat was added the list is fetched again, for who is logged in
\* by then.
LEMMA AddAnsweredStep ==
  ASSUME IInv, NEW r \in requests, AddAnswered(r)
  PROVE  IInv'
<1> USE DEF IInv
<1>1. /\ r \in Request /\ RequestOK(r) /\ r.kind = "add" /\ Good(r)
      /\ r.page \in {"live", "left"} /\ token \in Accounts
      /\ (r.page = "live" => Page = "dashboard")
  <2>1. r \in Request /\ RequestOK(r)
    BY DEF TypeOK
  <2>2. r.kind = "add" /\ Good(r) /\ r.page # "gone"
    BY DEF AddAnswered, Handles, Good
  <2>3. r.page = "live" => Page = "dashboard"
    BY <2>2 DEF TypeOK, PageOf
  <2>4. token \in Accounts
    BY <2>1, <2>2 DEF RequestOK, TypeOK
  <2> QED BY <2>1, <2>2, <2>3, <2>4 DEF Request
<1>2. sent \in Nat /\ sent + 1 \in Nat /\ sent' = sent + 1 /\ newest \in 0..sent
  BY DEF AddAnswered, TypeOK
<1>3. PICK c : /\ c \in Request /\ c.no = sent + 1 /\ c.kind = "list" /\ c.who = token
               /\ c.page = r.page /\ c.answer = None
               /\ requests' = (requests \ {r}) \cup {c}
  <2>1. PICK c : c = Call(sent + 1, "list", token, None, r.page)
    OBVIOUS
  <2>2. /\ c \in Request /\ c.no = sent + 1 /\ c.kind = "list" /\ c.who = token
        /\ c.page = r.page /\ c.answer = None
    BY <1>1, <1>2, <2>1, CallType
  <2>3. requests' = (requests \ {r}) \cup {c}
    BY <2>1 DEF AddAnswered, Others
  <2> QED BY <2>2, <2>3
<1>4. /\ UNCHANGED <<token, history, at, list, logs, kept, gateway, acts, failures>>
      /\ Page' = Page
      /\ \/ r.page = "live" /\ modal' = FALSE /\ newest' = sent + 1
            /\ added' = added \cup r.answer.rows
         \/ r.page = "left" /\ UNCHANGED <<modal, newest, added>>
      /\ drawn' \in {drawn, token}
  BY <1>1, <1>2 DEF AddAnswered, Page
<1>5. \A q \in requests : q \in Request /\ q.no \in 1..sent /\ q.no # sent + 1
  BY <1>2 DEF TypeOK
<1>6. \A a : Rows(a)' = Rows(a)
  BY <1>4 DEF Rows, gateway
<1>7. r.answer.rows \subseteq {m \in Meerkats : owner[m] # None}
  BY <1>1 DEF RequestOK, Good, Request, Response
<1>8. TypeOK'
  <2>1. \A q \in requests' : q \in Request /\ q.no \in 1..sent'
    BY <1>2, <1>3, <1>5
  <2>2. \A q, s \in requests' : q.no = s.no => q = s
    BY <1>3, <1>5 DEF TypeOK
  <2>3. \A q \in requests' : q.page = "live" => Page' = PageOf(q.kind)
    <3>1. c.page = "live" => Page = PageOf(c.kind)
      BY <1>1, <1>3 DEF PageOf
    <3> QED BY <1>3, <1>4, <3>1 DEF TypeOK
  <2>4. sent' \in Nat /\ newest' \in 0..sent' /\ modal' \in BOOLEAN
    <3>1. modal' = FALSE \/ modal' = modal
      BY <1>4
    <3>2. modal \in BOOLEAN
      BY DEF TypeOK
    <3>3. sent' \in Nat /\ newest' \in 0..sent'
      BY <1>2, <1>4
    <3> QED BY <3>1, <3>2, <3>3
  <2>5. /\ added' \subseteq {m \in Meerkats : owner[m] # None}
        /\ list # None \/ modal' \/ added' # {} => Page = "dashboard"
    BY <1>1, <1>4, <1>7 DEF TypeOK
  <2>6. /\ token' \in Accounts \cup {None} /\ history' \in Seq(Location)
        /\ at' \in DOMAIN history' /\ owner' = owner
        /\ list' = list /\ logs' = logs /\ drawn' \in Accounts \cup {None}
    BY <1>4 DEF TypeOK, gateway
  <2> QED BY <1>4, <2>1, <2>2, <2>3, <2>4, <2>5, <2>6 DEF TypeOK, gateway
<1>9. RequestOK(c)' /\ LiveOK(c)'
  <2>1. token' = token /\ token # None
    BY <1>1, <1>4, TabAssumption
  <2> HIDE DEF IInv
  <2> QED BY <1>1, <1>3, <2>1 DEF RequestOK, LiveOK, Good
<1>10. \A q \in requests : RequestOK(q)' /\ LiveOK(q)'
  <2>1. \A q \in requests : RequestOK(q)'
    BY <1>4 DEF RequestOK, Good, gateway
  <2>2. ASSUME NEW q \in requests PROVE LiveOK(q)'
    <3>1. LiveOK(q) /\ q.no # sent + 1
      BY <1>5
    <3> HIDE DEF IInv
    <3> QED BY <1>4, <1>6, <3>1 DEF LiveOK, Good
  <2> QED BY <2>1, <2>2
<1>11. AddsDiffer'
  BY <1>3 DEF AddsDiffer
<1>12. list' # None => list'.no \in 1..sent' /\ list'.no # sent + 1
  BY <1>2, <1>4
<1>13. ShownIsAsked' /\ AddedIsListed'
  BY <1>4, <1>6, <1>12 DEF ShownIsAsked, AddedIsListed
<1> QED BY <1>3, <1>8, <1>9, <1>10, <1>11, <1>12, <1>13
-----------------------------------------------------------------------------
\* What the first page of a tab sends is as the invariant requires.
LEMMA InitInvariant == Init => IInv
<1> SUFFICES ASSUME Init PROVE IInv
  OBVIOUS
<1>1. PICK l \in Location : /\ history = <<l>> /\ requests = OnMount(1, l, token)
                            /\ token = None => l.page \notin {"dashboard", "instruction"}
  <2>1. PICK k \in {At("dashboard"), At("register")} \cup {Preview(m) : m \in Meerkats} :
          history = <<Routed(k, token)>> /\ requests = OnMount(1, Routed(k, token), token)
    BY DEF Init
  <2>2. k \in Location /\ At("login") \in Location
    BY DEF At, Preview, Location, Pages
  <2>3. At("login").page = "login"
    BY DEF At
  <2>4. Routed(k, token) \in Location
    BY <2>2 DEF Routed
  <2>5. token = None => Routed(k, token).page \notin {"dashboard", "instruction"}
    BY <2>3 DEF Routed, IsAuthed
  <2> QED BY <2>1, <2>4, <2>5
<1>2. /\ token \in Accounts \cup {None} /\ at = 1 /\ Page = l.page
      /\ sent = IF requests = {} THEN 0 ELSE 1
      /\ newest = IF Page = "dashboard" THEN 1 ELSE 0
      /\ list = None /\ modal = FALSE /\ logs = None /\ kept = FALSE /\ added = {}
      /\ drawn = token
      /\ accounts = Registered /\ owner = OwnerAtStart /\ acts = 0 /\ failures = 0
  BY <1>1, TabAssumption DEF Init, Page
<1>3. \A q \in requests :
        /\ q \in Request /\ q.no = 1 /\ q.who = token /\ q.page = "live" /\ q.answer = None
        /\ \/ q.kind = "list" /\ l.page = "dashboard"
           \/ q.kind = "logs" /\ l.page = "preview" /\ q.id = l.id
        /\ requests = {q}
  BY <1>1, <1>2, OnMountFacts
<1>4. l.page = "dashboard" => requests # {}
  BY <1>1 DEF OnMount
<1>5. TypeOK
  <2>1. \A q \in requests : q \in Request /\ q.no \in 1..sent
    BY <1>2, <1>3
  <2>2. \A q, s \in requests : q.no = s.no => q = s
    BY <1>3
  <2>3. \A q \in requests : q.page = "live" => Page = PageOf(q.kind)
    BY <1>2, <1>3 DEF PageOf
  <2>4. sent \in Nat /\ newest \in 0..sent
    BY <1>2, <1>4
  <2>5. /\ history \in Seq(Location) /\ at \in DOMAIN history
        /\ token = None => \A i \in DOMAIN history :
                              history[i].page \notin {"dashboard", "instruction"}
    BY <1>1, <1>2
  <2>6. accounts \subseteq Accounts /\ owner \in [Meerkats -> Accounts \cup {None}]
    BY <1>2, TabAssumption
  <2>7. acts \in 0..MaxActs /\ failures \in 0..MaxFailures
    BY <1>2, TabAssumption
  <2>8. /\ modal \in BOOLEAN /\ kept \in BOOLEAN /\ ~modal
        /\ list = None /\ added = {} /\ logs = None /\ token \in Accounts \cup {None}
        /\ drawn \in Accounts \cup {None}
    BY <1>2
  <2> QED BY <2>1, <2>2, <2>3, <2>4, <2>5, <2>6, <2>7, <2>8 DEF TypeOK
<1>6. \A q \in requests : RequestOK(q) /\ LiveOK(q)
  <2>1. history[at] = l
    BY <1>1, <1>2
  <2> QED BY <1>1, <1>2, <1>3, <2>1 DEF RequestOK, LiveOK, Good
<1>7. AddsDiffer
  BY <1>3 DEF AddsDiffer
<1> QED BY <1>2, <1>5, <1>6, <1>7 DEF IInv, ShownIsAsked, AddedIsListed

\* A step that leaves the tab alone.
LEMMA StutterStep == IInv /\ UNCHANGED vars => IInv'
<1> SUFFICES ASSUME IInv, UNCHANGED vars PROVE IInv'
  OBVIOUS
<1> USE DEF IInv
<1>1. /\ UNCHANGED <<token, history, at, list, modal, drawn, logs, kept, newest, added, requests,
                     sent, accounts, owner, acts, failures>>
      /\ Page' = Page
  BY DEF vars, place, state, network, gateway, Page
<1>2. \A a : Rows(a)' = Rows(a)
  BY <1>1 DEF Rows
<1>3. TypeOK'
  BY <1>1 DEF TypeOK
<1>4. \A r \in requests' : RequestOK(r)'
  BY <1>1 DEF RequestOK, Good
<1>5. \A r \in requests' : LiveOK(r)'
  BY <1>1, <1>2 DEF LiveOK, Good
<1>6. AddsDiffer' /\ ShownIsAsked' /\ AddedIsListed'
  BY <1>1, <1>2 DEF AddsDiffer, ShownIsAsked, AddedIsListed
<1> QED BY <1>1, <1>3, <1>4, <1>5, <1>6

\* Every step keeps the invariant: one step per kind of action.
LEMMA NextInvariant == IInv /\ [Next]_vars => IInv'
<1> SUFFICES ASSUME IInv, [Next]_vars PROVE IInv'
  OBVIOUS
<1>1. CASE UNCHANGED vars
  BY <1>1, StutterStep
<1>2. CASE RedirectToRegister \/ RedirectToLogin \/ RedirectToInstruction
  BY <1>2, RedirectsStep
<1>3. CASE ShowMeerkatLogs
  BY <1>3, ShowMeerkatLogsStep
<1>4. CASE BackToDashboard \/ \E i \in DOMAIN history : Traverse(i)
  BY <1>4, TraverseStep
<1>5. CASE Reload
  BY <1>5, ReloadStep
<1>6. CASE \/ \E a \in Accounts : SubmitLogin(a) \/ SubmitRegister(a)
           \/ CloseModal
           \/ \E m \in Meerkats : AddMeerkat(m)
  BY <1>6, FormsStep
<1>7. CASE ShowAddMeerkatModal \/ ToggleTokens
  BY <1>7, ButtonsStep
<1>8. ASSUME NEW r \in requests, Serve(r) PROVE IInv'
  BY <1>8, ServeStep
<1>9. ASSUME NEW r \in requests, Fail(r) PROVE IInv'
  BY <1>9, FailStep
<1>10. ASSUME NEW r \in requests, Handle(r) PROVE IInv'
  BY <1>10, LoginAnsweredStep, ShowAnswerStep, AddAnsweredStep DEF Handle
<1> QED BY <1>1, <1>2, <1>3, <1>4, <1>5, <1>6, <1>7, <1>8, <1>9, <1>10 DEF Next

\* The invariant holds of every behaviour of the tab.
THEOREM Invariance == Spec => []IInv
  BY InitInvariant, NextInvariant, PTL DEF Spec

\* The tab's state keeps its type: at most one page at a time awaits responses,
\* and without a session no entry of the history is a page that needs one.
THEOREM TabTypeOK == Spec => []TypeOK
<1>1. IInv => TypeOK
  BY DEF IInv
<1> QED BY <1>1, Invariance, PTL

\* A page shows what its own token and address ask for, whatever responses are
\* late, unless it is rendered again for others without being mounted.
THEOREM TabShownIsAsked == Spec => []ShownIsAsked
<1>1. IInv => ShownIsAsked
  BY DEF IInv
<1> QED BY <1>1, Invariance, PTL

\* The response to the last request for the list has every meerkat added in the
\* page.
THEOREM TabAddedIsListed == Spec => []AddedIsListed
<1>1. IInv => AddedIsListed
  BY DEF IInv
<1> QED BY <1>1, Invariance, PTL
=============================================================================

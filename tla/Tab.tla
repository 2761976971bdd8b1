-------------------------------- MODULE Tab --------------------------------
(***************************************************************************)
(* A browser tab with the front end: the pages and their addresses         *)
(* (AppNavigator), the token in the session storage (auth), the requests   *)
(* to the gateway (api) and what the pages make of the responses.  Every   *)
(* handler awaits its response and goes on in the page it belongs to, which*)
(* may be gone by then: a state setter of an unmounted component does      *)
(* nothing, the session storage and the history do not know the difference.*)
(* What the gateway answers is reduced to what modules Registration,       *)
(* ClientCreator and Presenter show of it; HTTP requests overtake each     *)
(* other on the way there and back.                                        *)
(***************************************************************************)
EXTENDS Integers, Sequences

CONSTANTS
    Accounts,
    Admins,      \* those with the role ADMIN
    Registered,  \* those that exist when the tab is opened
    Meerkats,
    OwnerAtStart, \* [Meerkats -> Accounts \cup {None}], None: yet to be added
    AdminOf,     \* [Meerkats -> Admins]
    MaxActs,     \* bound on the user's acts that send or cancel requests
    MaxFailures, \* bound on the requests that fail
    None

ASSUME TabAssumption ==
    /\ Admins \subseteq Accounts /\ Registered \subseteq Accounts
    /\ AdminOf \in [Meerkats -> Admins]
    /\ OwnerAtStart \in [Meerkats -> Registered \cup {None}]
    /\ None \notin Accounts \cup Meerkats
    /\ MaxActs \in Nat /\ MaxFailures \in Nat

\* An address; `id` is the parameter of meerkatPreview, None is `undefined`.
Pages == {"login", "register", "dashboard", "instruction", "preview"}
Location == [page : Pages, id : Meerkats \cup {None}]
At(p) == [page |-> p, id |-> None]
Preview(m) == [page |-> "preview", id |-> m]

\* status 0: no response, or one whose body is no JSON.
Response == [status : {0, 200, 400}, rows : SUBSET Meerkats]
Request == [no : Nat, kind : {"login", "register", "list", "add", "logs"},
            who : Accounts \cup {None},     \* the token or the credentials
            id : Meerkats \cup {None},
            page : {"live", "left", "gone"}, \* the page that awaits it:
                     \* mounted, unmounted, or of a document since reloaded
            answer : Response \cup {None}]

ASSUME NoneAssumption == None \notin Response

VARIABLES
    token,    \* sessionStorage.token, told by its account
    history,  \* Seq(Location)
    at,       \* the entry of history that is shown
    list,     \* Dashboard's `meerkats`, with the request they answer, or None
    modal,    \* Dashboard's `isAddModalVisible`
    drawn,    \* the token when the page was rendered: its buttons and rows
              \* are those of that account
    logs,     \* the meerkat MeerkatPreview's `meerkatLogs` are of, or None
    requests, \* the requests not handled yet
    sent,     \* how many have been sent
    kept,     \* history: the page has been rendered again for another token
              \* or another address without having been mounted again
    newest,   \* history: the number of the page's last request for the list
    added,    \* history: what has been added in the page and is stored
    accounts, \* the rows of user
    owner,    \* [Meerkats -> Accounts \cup {None}], the rows of token
    acts,     \* acts of the user so far
    failures  \* failures so far

state == <<list, modal, drawn, logs, kept, newest, added>>
place == <<history, at, state>>
network == <<requests, sent>>
gateway == <<accounts, owner>>
vars == <<token, place, network, gateway, acts, failures>>

Page == history[at].page

\* The page that sends a kind of request.
PageOf(kind) == CASE kind \in {"list", "add"} -> "dashboard"
                  [] kind = "logs" -> "preview"
                  [] kind \in {"login", "register"} -> kind

TypeOK ==
    /\ token \in Accounts \cup {None}
    /\ history \in Seq(Location) /\ at \in DOMAIN history
    /\ token = None => \A i \in DOMAIN history :
                           history[i].page \notin {"dashboard", "instruction"}
    /\ list \in [no : Nat, account : Accounts, rows : SUBSET Meerkats] \cup {None}
    /\ modal \in BOOLEAN /\ kept \in BOOLEAN /\ drawn \in Accounts \cup {None}
    /\ list # None \/ modal \/ added # {} => Page = "dashboard"
    /\ logs \in Meerkats \cup {None}
    /\ logs # None => Page = "preview"
    /\ requests \subseteq Request
    /\ \A r \in requests : r.no \in 1..sent
    /\ \A r, s \in requests : r.no = s.no => r = s
    /\ \A r \in requests : r.page = "live" => Page = PageOf(r.kind)
    /\ sent \in Nat /\ newest \in 0..sent
    /\ added \subseteq {m \in Meerkats : owner[m] # None}
    /\ accounts \subseteq Accounts
    /\ owner \in [Meerkats -> Accounts \cup {None}]
    /\ acts \in 0..MaxActs /\ failures \in 0..MaxFailures
-----------------------------------------------------------------------------
(* Rendering. *)

IsAuthed(t) == t # None
IsAdmin(t) == t \in Admins

\* The entry l as AppNavigator leaves it: PrivateRoute redirects from its
\* children.  The route of the preview has no children but a component, which
\* a Route renders in preference to PrivateRoute's `render`.
Routed(l, t) == IF ~IsAuthed(t) /\ l.page \in {"dashboard", "instruction"}
                THEN At("login") ELSE l

\* Request number n.
Call(n, kind, who, id, page) ==
    [no |-> n, kind |-> kind, who |-> who, id |-> id, page |-> page,
     answer |-> None]

\* Mutant: the Dashboard has no effect and fetches its list after changes only.
OnMountOfPreview(n, l, t) ==
    IF l.page = "preview" THEN {Call(n, "logs", t, l.id, "live")} ELSE {}

\* What the effect of a page sends when it has been mounted.
OnMount(n, l, t) ==
    CASE l.page = "dashboard" -> {Call(n, "list", t, None, "live")}
      [] l.page = "preview" -> {Call(n, "logs", t, l.id, "live")}
      [] OTHER -> {}

\* Mutant: responses reach whatever page is shown.
LeaveNothing(rs) == rs

Leave(rs) == {[r EXCEPT !.page = IF @ = "live" THEN "left" ELSE @] : r \in rs}

\* Mutant: the pages keep what they show while they are not mounted.
MountKeepingList(l, t, rs) ==
    /\ requests' = rs \cup OnMount(sent + 1, l, t)
    /\ sent' = IF OnMount(sent + 1, l, t) = {} THEN sent ELSE sent + 1
    /\ newest' = IF l.page = "dashboard" THEN sent + 1 ELSE 0
    /\ modal' = FALSE /\ drawn' = t
    /\ kept' = FALSE /\ added' = {}
    /\ UNCHANGED <<list, logs>>

\* A page is mounted with fresh state at address l.
Mount(l, t, rs) ==
    /\ requests' = rs \cup OnMount(sent + 1, l, t)
    /\ sent' = IF OnMount(sent + 1, l, t) = {} THEN sent ELSE sent + 1
    /\ newest' = IF l.page = "dashboard" THEN sent + 1 ELSE 0
    /\ list' = None /\ modal' = FALSE /\ logs' = None /\ drawn' = t
    /\ kept' = FALSE /\ added' = {}

\* The router shows entry i of h while t is stored and rs are under way: a
\* page of another kind is mounted, one of the same kind is kept.  The Dashboard
\* is not even rendered then: its element is the same, and it only asks the
\* router for the history.
Show(h, i, t, rs) ==
    LET l == Routed(h[i], t)
    IN /\ token' = t
       /\ history' = [h EXCEPT ![i] = l]
       /\ at' = i
       /\ \/ l.page # Page /\ Mount(l, t, Leave(rs))
          \/ /\ l.page = Page
             /\ requests' = rs
             /\ kept' = (kept \/ t # token \/ l # history[at])
             /\ UNCHANGED <<sent, newest, list, modal, drawn, logs, added>>

\* history.push
Push(l, t, rs) ==
    LET h == Append(SubSeq(history, 1, at), l) IN Show(h, at + 1, t, rs)
-----------------------------------------------------------------------------
(* The user. *)

Act == acts < MaxActs /\ acts' = acts + 1
Moves == Act /\ UNCHANGED <<gateway, failures>>

\* A form or a dialog sends a request from the page that is shown.
Submit(r) ==
    /\ Act
    /\ requests' = requests \cup {r}
    /\ sent' = sent + 1
    /\ UNCHANGED <<token, history, at, list, logs, kept, added, gateway, failures>>

\* Nothing keeps the user from submitting again before the response.
SubmitLogin(a) ==
    /\ Page = "login"
    /\ Submit(Call(sent + 1, "login", a, None, "live"))
    /\ UNCHANGED <<modal, drawn, newest>>

SubmitRegister(a) ==
    /\ Page = "register"
    /\ Submit(Call(sent + 1, "register", a, None, "live"))
    /\ UNCHANGED <<modal, drawn, newest>>

RedirectToRegister == Page = "login" /\ Moves /\ Push(At("register"), token, requests)
RedirectToLogin == Page = "register" /\ Moves /\ Push(At("dashboard"), token, requests)
RedirectToInstruction ==
    Page = "dashboard" /\ Moves /\ Push(At("instruction"), token, requests)

\* A row of an admin's list has a meerkatId, one of another user's has none.
ShowMeerkatLogs ==
    /\ Page = "dashboard" /\ IsAdmin(drawn) /\ list # None
    /\ \E m \in list.rows :
          Push(Preview(IF IsAdmin(list.account) THEN m ELSE None), token, requests)
    /\ Moves

BackToDashboard ==
    /\ Page \in {"preview", "instruction"} /\ at > 1
    /\ Moves /\ Show(history, at - 1, token, requests)

\* The browser's buttons reach every entry.
Traverse(i) ==
    /\ i \in DOMAIN history \ {at}
    /\ Moves /\ Show(history, i, token, requests)

\* The document is loaded again; the session storage and the history stay.
Reload ==
    /\ Moves
    /\ Mount(history[at], token, {[r EXCEPT !.page = "gone"] : r \in requests})
    /\ UNCHANGED <<token, history, at>>

\* Setting a state renders the Dashboard for the token of now.
ShowAddMeerkatModal ==
    /\ Page = "dashboard" /\ ~IsAdmin(drawn) /\ ~modal
    /\ modal' = TRUE /\ drawn' = token
    /\ UNCHANGED <<token, history, at, list, logs, kept, newest, added, network, gateway,
                   acts, failures>>

\* "Show tokens" sets a state that nothing else depends on.
ToggleTokens ==
    /\ Page = "dashboard" /\ ~IsAdmin(drawn)
    /\ drawn' = token
    /\ UNCHANGED <<token, history, at, list, modal, logs, kept, newest, added, network,
                   gateway, acts, failures>>

\* WModal passes the event to hideAddMeerkatModal as `success`.
CloseModal ==
    /\ modal /\ modal' = FALSE /\ drawn' = token
    /\ newest' = sent + 1
    /\ Submit(Call(sent + 1, "list", token, None, "live"))

AddMeerkat(m) ==
    /\ modal /\ owner[m] = None
    /\ \A r \in requests : r.kind = "add" => r.id # m
    /\ Submit(Call(sent + 1, "add", token, m, "live"))
    /\ UNCHANGED <<modal, drawn, newest>>
-----------------------------------------------------------------------------
(* The gateway and the network. *)

Rows(a) == {m \in Meerkats : owner[m] # None
                             /\ a = IF IsAdmin(a) THEN AdminOf[m] ELSE owner[m]}

Answer(r, status, rows) ==
    requests' = (requests \ {r})
        \cup {[r EXCEPT !.answer = [status |-> status, rows |-> rows]]}

Fails == failures < MaxFailures /\ failures' = failures + 1

Served(r, kind) == r.kind = kind /\ r.answer = None

ServeLogin(r) ==
    /\ Served(r, "login")
    /\ Answer(r, IF r.who \in accounts THEN 200 ELSE 400, {})
    /\ UNCHANGED <<gateway, failures>>

ServeRegister(r) ==
    /\ Served(r, "register")
    /\ Answer(r, IF r.who \in accounts THEN 400 ELSE 200, {})
    /\ accounts' = accounts \cup {r.who}
    /\ UNCHANGED <<owner, failures>>

ServeList(r) ==
    /\ Served(r, "list")
    /\ Answer(r, 200, Rows(r.who))
    /\ UNCHANGED <<gateway, failures>>

\* Without a session, 401 and no body; without an id, a failed reply and 500.
ServeLogs(r) ==
    /\ Served(r, "logs")
    /\ Answer(r, IF r.who # None /\ r.id # None THEN 200 ELSE 0, {})
    /\ UNCHANGED <<gateway, failures>>

\* A meerkat may be answered for with 200 although it was not created.
ServeAdd(r) ==
    /\ Served(r, "add")
    /\ \/ /\ Answer(r, 200, {r.id})
          /\ owner' = [owner EXCEPT ![r.id] = r.who]
          /\ UNCHANGED <<accounts, failures>>
       \/ Answer(r, 200, {}) /\ Fails /\ UNCHANGED gateway

Serve(r) ==
    /\ ServeLogin(r) \/ ServeRegister(r) \/ ServeList(r) \/ ServeLogs(r) \/ ServeAdd(r)
    /\ UNCHANGED <<token, place, sent, acts>>

\* A request or its response is lost, or a service fails.
Fail(r) ==
    /\ Fails
    /\ r.answer # None => r.answer.status # 0
    /\ Answer(r, 0, {})
    /\ UNCHANGED <<token, place, sent, gateway, acts>>
-----------------------------------------------------------------------------
(* The responses.  Each handler goes on after its await. *)

Others(r) == requests \ {r}
Handles(r, kind) == r.kind = kind /\ r.page # "gone" /\ r.answer # None

LoginAnswered(r) ==
    /\ Handles(r, "login") /\ r.answer.status = 200
    /\ Push(At("dashboard"), r.who, Others(r))
    /\ UNCHANGED <<gateway, acts, failures>>

\* setMeerkats
ListAnswered(r) ==
    /\ Handles(r, "list") /\ r.page = "live" /\ r.answer.status = 200
    /\ list' = [no |-> r.no, account |-> r.who, rows |-> r.answer.rows]
    /\ requests' = Others(r)
    /\ drawn' = token
    /\ UNCHANGED <<token, history, at, modal, logs, kept, newest, added, sent, gateway,
                   acts, failures>>

\* setMeerkatLogs
LogsAnswered(r) ==
    /\ Handles(r, "logs") /\ r.page = "live" /\ r.answer.status = 200
    /\ logs' = r.id
    /\ requests' = Others(r)
    /\ UNCHANGED <<token, history, at, list, modal, drawn, kept, newest, added, sent,
                   gateway, acts, failures>>

\* Mutant: the list is fetched when the meerkat is submitted, not after.
AddAnsweredWithoutFetch(r) ==
    /\ Handles(r, "add") /\ r.answer.status = 200
    /\ requests' = Others(r)
    /\ IF r.page = "live" THEN modal' = FALSE /\ added' = added \cup r.answer.rows
                          ELSE UNCHANGED <<modal, added>>
    /\ drawn' = IF modal' = modal THEN drawn ELSE token
    /\ UNCHANGED <<token, history, at, list, logs, kept, newest, sent, gateway, acts, failures>>

\* handleClose(true), also of a page that is left.
AddAnswered(r) ==
    /\ Handles(r, "add") /\ r.answer.status = 200
    /\ requests' = Others(r) \cup {Call(sent + 1, "list", token, None, r.page)}
    /\ sent' = sent + 1
    /\ IF r.page = "live"
       THEN modal' = FALSE /\ newest' = sent' /\ added' = added \cup r.answer.rows
       ELSE UNCHANGED <<modal, newest, added>>
    /\ drawn' = IF modal' = modal THEN drawn ELSE token
    /\ UNCHANGED <<token, history, at, list, logs, kept, gateway, acts, failures>>

\* A toast at most, or nobody is left to handle the response.
Ignored(r) ==
    /\ r.answer # None
    /\ \/ r.page = "gone" \/ r.kind = "register" \/ r.answer.status # 200
       \/ r.page = "left" /\ r.kind \in {"list", "logs"}
    /\ requests' = Others(r)
    /\ UNCHANGED <<token, place, sent, gateway, acts, failures>>

Handle(r) == LoginAnswered(r) \/ ListAnswered(r) \/ LogsAnswered(r) \/ AddAnswered(r)
             \/ Ignored(r)
-----------------------------------------------------------------------------
\* A new tab has an empty session storage, a duplicated or reloaded one does
\* not.
Init ==
    /\ token \in Registered \cup {None}
    /\ \E l \in {At("dashboard"), At("register")} \cup {Preview(m) : m \in Meerkats} :
          /\ history = <<Routed(l, token)>>
          /\ requests = OnMount(1, Routed(l, token), token)
    /\ at = 1
    /\ sent = IF requests = {} THEN 0 ELSE 1
    /\ newest = IF Page = "dashboard" THEN 1 ELSE 0
    /\ list = None /\ modal = FALSE /\ logs = None /\ drawn = token
    /\ kept = FALSE /\ added = {}
    /\ accounts = Registered
    /\ owner = OwnerAtStart
    /\ acts = 0 /\ failures = 0

Next ==
    \/ \E a \in Accounts : SubmitLogin(a) \/ SubmitRegister(a)
    \/ RedirectToRegister \/ RedirectToLogin \/ RedirectToInstruction
    \/ ShowMeerkatLogs \/ BackToDashboard \/ Reload
    \/ \E i \in DOMAIN history : Traverse(i)
    \/ ShowAddMeerkatModal \/ ToggleTokens \/ CloseModal
    \/ \E m \in Meerkats : AddMeerkat(m)
    \/ \E r \in requests : Serve(r) \/ Fail(r) \/ Handle(r)

\* The gateway answers and the browser runs its handlers; the user need not
\* do anything.
Fairness == WF_vars(\E r \in requests : Serve(r)) /\ WF_vars(\E r \in requests : Handle(r))

Spec == Init /\ [][Next]_vars /\ Fairness
-----------------------------------------------------------------------------
\* What a page shows is what its present token and address ask for, although
\* responses arrive after their page was left, in any order, and from logins
\* nobody waits for any more.  Excepted is a page that was rendered again
\* without having been mounted again: a login answered while the Dashboard is
\* shown, or a jump from one preview to another.
ShownIsAsked ==
    ~kept => /\ list # None => list.account = token
             /\ logs # None => logs = history[at].id

\* When the Dashboard shows the response to its last request for the list, the
\* list has every meerkat of its account that was added in the page; only an
\* older response that overtook it can hide one.
AddedIsListed ==
    list # None /\ list.no = newest => added \cap Rows(list.account) \subseteq list.rows

\* Without failures a Dashboard that is opened shows a list, unless it is left.
EveryDashboardLoads ==
    Page = "dashboard" /\ list = None ~>
        list # None \/ Page # "dashboard" \/ failures > 0
=============================================================================

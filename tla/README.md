# VigilantMeerkat: verification

VigilantMeerkat monitors machines. An agent (a *meerkat*) reports its load, the
reports are stored, and the administrator of the agent is alerted by e-mail or
SMS when a report is severe. The system is a set of .NET services that call each
other over RabbitMQ, a gateway with an HTTP interface, a React front end, two
PostgreSQL databases and a Redis.

This directory holds TLA+ models of its core, the TLC configurations that check
them on small instances, and TLAPS proofs of the most important results for
every value of the constants. All paths below are relative to the root of the
repository; `Backend/` and `front/` are its directories.

## 1. Inventory

| Component | State | Operations | Interacts with |
|---|---|---|---|
| Remote calls: `Backend/Base/AmqpService.cs`, `RabbitService.cs`, `RabbitInternalService.cs`, `RabbitConnection.cs` | the collection `response` of an AmqpService object, reply queues, one exclusive queue per route, a consumer per queue | `Call` (two-way and one-way), `ResponseCallback`, `CreateQueue`, `HandleRequest` | every service, the broker |
| Service host: `Backend/Base/MicroRunner.cs`, `MicroOptions.cs`, `Db/EFContextStore.cs` | routes, the one instance of the service, its AmqpService, AuthorizationRef and DbContext | `Run`, `DefineRoutes`, `CreateQueues` | remote calls |
| Authorization: `Backend/Micro.Authorization`, `Base/Ref/AuthorizationRef.cs` | the keys of Redis | `verify`, `create` | every protected route, the client creator |
| Central: `Backend/VigilantMeerkat.Micro.Central` | its DbContext, the table `log` | `put` (protected) | agent, notifier |
| Notifier, e-mail and SMS senders | the entities the notifier's DbContext tracks | `notify`, `send` | central, SMTP |
| Agent: `Backend/VigilantMeerkat.Micro.Meerkat` | none | a call of `central.put` every 5 s | central |
| Client creator: `Backend/VigilantMeerkat.Micro.ClientCreator`, `Gateway/Controllers/ClientCreatorController.cs` | its DbContext, the tables `token`, `clientconfig` | `create`, `GET clientCreator/create/{id}` | gateway, authorization |
| Registration and login: `Gateway/Controllers/AccountController.cs` | the tables `user` (one database), `adminconfig` (another one) | `register`, `login` | front end |
| Account service: `Backend/VigilantMeerkat.Micro.Account` | its DbContext, the table `adminconfig` | `changeadminconfig` | (no caller in the repository) |
| Presenter: `Backend/VigilantMeerkat.Micro.Presenter`, `Gateway/Controllers/PresenterController.cs` | its DbContext | four queries | gateway |
| Front end, pages: `front/src/pages`, `front/src/components` | per mounted page: the list of meerkats, the dialog, the logs | log in, register, list, add, show logs | gateway |
| Front end, session and routing: `front/src/utils`, `front/src/AppNavigator.tsx` | `sessionStorage.token`, the history, the page that is mounted | `setAuthToken`, `isAuthed`, `isAdmin`, `post`, `get`, the routes | the pages |
| Message types and codec: `front/models/base.ts` | per read: the position, the nested calls, the message so far | `internalBinaryWrite`, `internalBinaryRead`, `create` of 18 messages | generated from the messages of the services; no page imports it |
| Logging, configuration, Vault, JWT | none that two actors share | - | - |

What is hard here, and what the properties are for:

* **Calls.** `Take()` waits without a timeout; replies carry no correlation id
  and land in a collection that belongs to an object, not to a call; messages
  for missing queues are dropped; queues are declared in the background; nothing
  is acknowledged; all queues are exclusive. What a call still guarantees
  depends on who shares which object, and on queues disappearing together with
  what was delivered from them.
* **One DbContext per process.** `MicroOptions.UseDbContext` creates a context
  once. After a failed `SaveChangesAsync` its entities stay as they are and go
  into the next request's transaction; if the commit had happened and only its
  confirmation was lost, every later save fails on a duplicate key. Tracked
  entities are never refreshed.
* **`async void` handlers.** `Notify` and the two `Send` end their process when
  they throw; what waits in their exclusive queue is lost.
* **Two stores, two steps.** `Register` writes to two databases and checks the
  address long before it inserts; `GetRandomAdmin` counts and lists in two
  queries; a token lives in Redis and in PostgreSQL.
* **Replies without a type.** Whoever calls parses the body of a reply as the
  type it expects, whether the result says Success or Failed; what an `Error`
  looks like as a list or as a `BoolValue` is a matter of its bytes.
* **Handlers that outlive their page.** Every handler of the front end awaits its
  response and goes on in a page that may be gone: its setters do nothing then,
  its `setAuthToken` and its `history.push` still work. Nothing cancels a request
  or orders two of them, and a page fetches only when it is mounted.

`PROJECT.json` lists each hazard at its line, with the properties aimed at it.

## 2. Modules

| Module | What it models |
|---|---|
| `Rpc` | abstract: what a call between services promises |
| `Amqp` | the remote calls and the authorization service, in full |
| `MCAmqp`, `MCAmqpChain` | the deployed services; the services of the integration tests |
| `Amqp_proofs` | theorems about `Amqp`, with the refinement of `Rpc` |
| `Telemetry` | abstract: what monitoring promises |
| `Monitoring`, `MCMonitoring`, `Monitoring_proofs` | agent, central, notifier, senders, and the change of an admin's configuration as they see it |
| `ClientCreator`, `MCClientCreator`, `ClientCreator_proofs` | adding a meerkat |
| `Registration`, `MCRegistration`, `Registration_proofs` | accounts |
| `AdminConfig`, `AdminConfig_proofs` | changing how an admin is notified |
| `Presenter`, `MCPresenter`, `Presenter_proofs` | listing meerkats, clients and logs |
| `Tab`, `MCTab`, `Tab_proofs` | the front end in one browser tab |
| `Wire`, `MCWire` | the bytes of the messages and what a reader makes of them |

`Amqp` is the layer below. `Monitoring`, `ClientCreator`, `AdminConfig` and
`Presenter` use what it establishes instead of repeating it: a request is delivered at most
once, in order per route, is lost with its queue, and its caller gets its own
reply or none. Each of them keeps the order of the steps inside its handler,
because the shared context makes that order matter. `Tab` stands at the other
end: its gateway gives a request, in one step, one of the outcomes it has in
`Registration`, `ClientCreator` and `Presenter`. `Wire` says what the others assume
of the bytes of a failed reply: `Amqp` that it never verifies a token, `Presenter`
that it is never a list.

### Amqp

| State | Code |
|---|---|
| `queue`, `pos` | the queue `<service>.<route>`; the deliveries made from it. `BasicConsume` is called without auto-acknowledgement and nothing ever acknowledges, so the broker keeps what it delivered |
| `declared` | the queues declared so far by the tasks of `MicroRunner.CreateQueues` |
| `work`, `stage`, `step` | `HandleRequest`, one request after the other per route |
| `call`, `listening` | a thread in `response.Take()`; whether its reply queue exists |
| `replies`, `response` | replies at the broker; in the collection of the AmqpService object |
| `redis`, `created` | the token keys; all tokens ever stored |
| `valid`, `issued`, `executed`, `repeated`, `refused`, `answered` | history, for the properties; `valid` holds the protected requests whose token was in Redis at some moment since their service took them |

| Action | Code |
|---|---|
| `ClientCall`, `TakeProtectedRequest`, `CallCallee` | `AmqpService.Call` up to `Take()`: reply queue, `PackRequest`, `Publish` |
| `ResponseCallback`; `ClientReturn`, `VerifyReturned`, `CalleeReturned` | the callback; the return from `Take()` and the disposal of the channel |
| `TakeRequest`, `Refuse`, `RunMethod`, `Finish`, `CreateToken`, `Throw` | the paths of `HandleRequest` |
| `Start`, `DeclareQueue` | container start, `CreateQueue` |
| `Crash`, `ConnectionLoss`, `ClientConnectionLoss`, `ClientRestart`, `RedisLoss` | the environment |

A route's method is abstracted to the list `Callees` of the calls it makes. A
message is a record of its sender, a number, its route, its token and the one
argument that matters (the token `verify` is asked about). The answer of
`verify` is parsed as a `BoolValue` whatever it is; an `Error` reads as
false (`ErrorReadsFalse` of `Wire`), so anything but TRUE denies.

`ObjectOf` says which collection the reply to a call lands in: clients have
transient AmqpService objects, the routes of a service share two, one in the
`AuthorizationRef` and one in the instance. The assumption
`OneCallerPerService` (at most one protected route and at most one route with a
two-way call per service) holds for every service in the repository; without it
`Correlated` is false. That is the condition to re-check when a route is added.

### Monitoring

`stage` follows `CentralMicroservice.Put`: refused (`Refuse`), thrown out of before
anything is added because a number, the time or the token does not parse
(`BadData`; a stock agent sends none), verified and added (`Add`), saved
(`Save`, `SaveFails`), notified (`NotifyNotifier`), answered (`Return`).
`pending` holds the entities the context has as Added, `cache` the AdminConfig
entities the notifier tracks. `SaveFails` happens by itself when a pending row
exists already, and as a fault before or after the commit. `Stop` is the end of
a process, with its queue and its context. `NotifyUnregistered` is the
NullReferenceException of `Notify` for a token without rows. Readings keep the
counter's value only as far as `ProvideData` distinguishes it. Sending a mail is
one step; that SMTP can throw is `Crash`.

### ClientCreator

`stage` follows the handler: the call of `authorization.create`, reading the
JWT, the count, the list, the save. The gateway's `Index` hands the request over
and `Reply` is its 200 response, with the value or the exception's type.
`debug` is the build: `GetRandomAdmin` has a branch that only a DEBUG build
compiles; the Dockerfiles build Release.

### Registration

A request goes from `new` through `admin` (its configuration is to be saved) and
`user` to `ok`, or ends as `bad` (the address is taken) or `error`. `overlap`
records which requests were under way at the same time.

### AdminConfig

`table` is the stored rows, `tracked` and `modified` are the context. `possible`
is the specification's view: the values a column may have, given the answers so
far. An acknowledged change leaves one value; one whose outcome the caller
cannot know adds its value.

### Presenter

Each route has a thread; `pc` names the query that is next or running, `todo`
what the `foreach` of the route has left, `list` the response so far. `open` is
the routes with a query under way on the one context and `clash` those that met
another query: only then, or by a fault, does a query fail (`QueryFails`). EF Core
documents that overlapping operations on a context are not supported and may
throw; which of the two throws is left open. `cache` is the AdminConfig
entities the context tracks: a later query finds the row but returns the tracked
entity. Rows of the other tables never change once stored, so that tracking them
makes no difference. `Create`, `Put` and `ChangeAdminConfig` are the other
services, reduced to what they commit; that a token and its clientconfig are
committed together is the property `RowsPaired` of `ClientCreator`, that tokens
can have an unknown admin is its DEBUG build. `Unlisted` tokens have no row in
`token`: `authorization.create` gives a token to any caller, and central stores
readings for it. `Malformed` ids are no Guid, such as the `undefined` of a preview
without an id: `ParseFails` is the exception of `Guid.Parse`, before any query.

A failed reply carries an Error, which the gateway parses as the list it expects
without a look at `Result`. `ErrorIsNoList` of `Wire` shows that this parser
throws for every Error the services build, hence status 500 in `Throw`. The
mutant `ThrowEmpty` is what an Error with other bytes would give.

`Program.cs` of the account service and of the SMS sender pass a string where
`UseDbContext` takes a function, so these two do not compile at this commit;
the models describe their handlers as they stand. The account service and its
Kubernetes deployment exist, but no code calls it.

### Tab

| State | Code |
|---|---|
| `token` | `sessionStorage.token`, told by the account it was issued to |
| `history`, `at` | the entries of the tab's history and the one that is shown; its page is the component that is mounted |
| `list`, `modal` | `meerkats` and `isAddModalVisible` of the Dashboard |
| `drawn` | the token at the last render of the Dashboard: whether it shows an admin's buttons and handlers is decided then |
| `logs` | `meerkatLogs` of MeerkatPreview, by the meerkat they are of |
| `requests`, `sent` | the calls of `api.post` and `api.get` whose handler has not ended; `page` says whether the component that awaits the response is still mounted |
| `accounts`, `owner` | the gateway's side: the users, and who has which meerkat |
| `kept`, `newest`, `added` | history, for the properties |

| Action | Code |
|---|---|
| `SubmitLogin`, `SubmitRegister`, `AddMeerkat` | `login`, `register`, `addMeerkat` up to `await` |
| `OnMount` | `getMeerkats` and `getMeerkatLogs` up to `await`, from the effects |
| `LoginAnswered`, `AddAnswered`, `ListAnswered`, `LogsAnswered`, `Ignored` | what these functions do after it |
| `ShowAddMeerkatModal`, `CloseModal` | `showAddMeerkatModal`, `hideAddMeerkatModal` |
| `ToggleTokens` | the button that shows and hides the column of tokens; what matters of it is that the page is rendered again |
| `RedirectToRegister`, `RedirectToLogin`, `RedirectToInstruction`, `ShowMeerkatLogs`, `BackToDashboard` | the functions of these names |
| `Traverse`, `Reload` | the browser's own buttons |
| `ServeLogin`, `ServeRegister`, `ServeList`, `ServeLogs`, `ServeAdd`; `Fail` | the gateway's controllers; the network |

What the code leaves to its libraries, and the model therefore states:

* A component is mounted when another *kind* of page is shown. A `Switch` that
  matches the same route again renders the component it has, and the effects
  have no dependencies: `Show` distinguishes the two, and `kept` remembers that
  a page was rendered for another token or address than it was mounted for.
* `PrivateRoute` redirects in its `render`, except for the preview: there the
  route has a `component`, which a `Route` prefers. `Routed` is this rule, and a
  preview without a session sends its request without an account, which the
  `[Authorize]` of `PresenterController` answers with 401 and no body.
* A state setter of an unmounted component does nothing. A late answer to a login
  stores its token and pushes the Dashboard all the same, so `token` need not be
  that of the requests of the page.
* `WModal` passes `handleClose` to a Dialog, which calls it with the event, and
  `hideAddMeerkatModal` reads that as `success`: closing the dialog fetches the
  list as well.
* The session storage survives `Reload` and is copied when a tab is duplicated,
  so `Init` has a token or none. Handlers of the old document never run
  (`page = "gone"`).
* Status 0 stands for a response that never comes or is no JSON: the function
  ends in the exception of its `await`. A meerkat that was not created is
  answered 200 (run `http_ok`).

Left out: passwords, the validation of the forms, toasts and the layout.

### Wire

`Fields` is the field list of each message, in the order its class writes them;
the tuple stands for the whole class of `base.ts`, since the classes differ in
nothing but their fields: `Default` is their `create`, `Encode` their
`internalBinaryWrite`, and `ReadScalar`, `ReadMessage`, `Skip` and `Return` are a
round of the loop of their `internalBinaryRead`, with `frames` as the nested
calls. There are two readers. "ts" is `base.ts`: its `switch` looks at the number
of a field only, and `reader.skip` and the scalars are bounded by the buffer, not
by the message. "cs" is the code `protoc` generates for the services when they are
built, which is not in the repository and modelled from what the services use:
it chooses by number and wire type and stays within the message. Strings
are sequences of bytes; numbers, lengths and tags are below 128, one byte each.

## 3. Runs

| Run | Instance | What it shows |
|---|---|---|
| `amqp` | 4 services, 5 routes, 2 clients with a call each, 1 token, 1 fault | safety of the calls, hopeless waits, the refinement of `Rpc` |
| `amqp_chain` | the chained protected services of the integration tests and an unprotected one, 2 clients with a call each, no faults, fair | calls, nested and protected ones included, are answered, and verified at both services |
| `monitoring` | 3 agents (stock, registered, unregistered), 1 admin, 1 change, 1 fault | safety of monitoring, the refinement of `Telemetry` |
| `monitoring_live` | 2 agents with 2 reports each, 1 change, fair | every stored alarm is sent |
| `client_creator` | 3 requests (one with an unreadable JWT), up to 2 admins, 2 faults | pairs of rows, answers, admins |
| `http_ok` | 2 requests, no fault | **violated**: 200 without a meerkat |
| `registration` | 5 requests for 2 addresses, 2 faults | agreement of the two databases, who logs in |
| `duplicate_email` | the same without faults | **violated**: two accounts with one address |
| `admin_config` | 3 requests, 2 rows of 2 columns, 2 faults | no acknowledged change is lost |
| `presenter` | 2 requests of any kind, 2 meerkats, a token without a row, a malformed id, a reading each, 1 change, 1 fault | lists are true, failures have a reason |
| `tab` | 2 accounts (one an admin), 2 meerkats, 4 acts, 1 failure, fair | pages show what is asked for, nothing added is missing, a Dashboard loads |
| `wire` | all messages of each type over two values per field, two messages one behind the other, each message and each Error read as each type; both readers | what was written is read back; an Error is no list and not true |

All runs set `CHECK_DEADLOCK FALSE`: the bounds on calls and faults end every
behaviour, a thread that waits for a lost reply really stops, and so does a reader
at the end of its bytes.

### Properties

* `AtMostOnce`: although nothing is acknowledged, nothing is executed twice,
  because exclusive queues take their deliveries with them.
* `Correlated`: each call gets the reply to itself.
* `AuthorizedOnly`: a protected method runs only for a request whose own token
  was in Redis at some moment after its service took it. A token may still
  be lost between the check and the method; what cannot happen is that a failed
  verification, the answer to another request or a token lost before the request
  was taken lets it run.
* `HopelessStays`: the price of `Take()` without a timeout, as an action
  property. A thread (an agent, a request of the gateway, the consumer of a route
  in `Verify` or in a call of its method) is hopeless when nothing has answered
  it and nothing will: its reply queue is gone, or its request was dropped for
  want of a queue, or was lost with the queue or the process of its route. Only
  another fault ends such a wait.
* `EveryCallReturns`: without faults everything is answered, provided no call
  was made before all queues were declared. That condition is in the formula, the
  absence of faults is the bound MaxFaults = 0 of the run; the property is
  false without either.
* `AckedIsLogged`, `AlertedOnce`, `AddressHeld`, `EveryAlarmIsSent`: see the
  comments in `Monitoring`.
* `PoisonedRejects`: once a pending row is also stored, central stores and
  acknowledges nothing until its process ends. It documents a weakness as
  precisely as the code has it.
* `StockAgentSilent`: the branch for ERROR in `ProvideData` is unreachable and
  every client is created with TriggerLevel ERROR, so the shipped agent never
  causes an alert.
* `RowsPaired`, `AnsweredIsCreated`, `AdminKnown`, `FailedLeavesNothing`: what
  other services rely on when they look rows up.
* `LoginFindsAccount`, `AdminHasConfig`, `ConfigHasAdmin`: the guarantees that
  survive the missing transaction and the missing unique key.
* `NoLostChange`, `TrueLeavesNothing`: merging into tracked entities is safe,
  because a failed change stays in the context until it is stored or forgotten.
* `ListTrue`: a list put together from several queries is complete for what was
  stored when it was asked for, and a failure never shows as a list.
* `FailedForAReason`: without faults, only overlapping queries, a malformed id, a
  meerkat with an unknown admin, or logs of an unlisted token make a request fail;
  that a
  clientconfig is looked up queries after its token never does.
* `EmailHeld`: how stale the address in a list can be.
* `ShownIsAsked`: the list is that of the stored token and the logs are those of
  the address, although requests are never cancelled and answered in any order.
  It excludes exactly the pages that are rendered again without being mounted:
  there the code does show one account the list of another, or the logs of the
  meerkat that was shown before.
* `AddedIsListed`: a list that answers the page's *last* request has everything
  that was added in the page. The condition is the point: an older response that
  overtakes it hides the new meerkat, and nothing fetches again.
* `EveryDashboardLoads`: the one fetch of the mount suffices, without failures.
* `RoundTrip`: either reader gives back what was written, in particular a message
  that continues one which is there already is merged into it, and lists keep
  their order.
* `ErrorIsNoList`, `ErrorReadsFalse`: for the three types of failure the services
  can name (`Auth` of a refused request, `AggregateException` and
  `TargetInvocationException` of a method that threw), the body of the failed
  reply makes the parser of any list throw, and reads as a `BoolValue` false. Both
  hang on the number of the Error's first field and on the bytes of these names.

### Bounds

One fault suffices for each single failure at any moment; two are used where a
failure needs a second one to show (a failed save followed by a crash). Two
clients suffice for a reply to be taken by the wrong thread; three admin
requests for a failed save, a save of another admin and a later change. The
monitoring run has one reading per agent: repetition of a reading is a matter of
restarts, and the poisoned context needs two readings, which two agents supply.
Two requests meet in every pair of the presenter's routes, also twice on one; a
meerkat whose admin is known and one whose admin is not give a loop that ends
well and one that ends in the middle; its requests are interchangeable, which the
run uses as SYMMETRY. Four acts of a user reach a second login under a mounted
Dashboard, a preview without an id, a meerkat added by a page that was left, and
two fetches under way at once; opening the dialog is free, as it sends nothing.
A jump between the previews of two meerkats takes more acts, and only the proof
covers it. In `wire` two values per field, one of them the default, decide all that
the codec distinguishes; lists have up to two elements, and nesting is as deep as
the messages have it. For every invariant and every action property of the passing runs
other than `wire`, and for both refinements, the proofs remove the bounds
altogether; the bounds of the liveness properties and of `wire` remain.

### Fairness

The runs with liveness assume weak fairness of the steps of running threads, of
the delivery of replies and of process starts (`restart: always` in
`docker-compose.yml`). In `tab` it is fairness of the gateway's answers and of
the handlers, which the browser runs by itself; the user owes nothing.
`Throw`, calls and faults have no fairness. Nothing is
strongly fair: each step, once possible, stays possible until taken.

### Findings

* `http_ok`: `ClientCreatorController.Index` returns `Ok(...)` for every reply;
  the front end shows "Dodano poprawnie" for status 200.
* `duplicate_email`: the front end tells a refused person that a user with the
  address exists, and login looks the address up; two concurrent registrations
  create two such users.

## 4. Proofs

**`Amqp_proofs`.** `Invariance` proves `Spec => []IInv`. The properties are not
inductive: that a call gets its own reply depends on where its reply can be.
`IInv` says

* `WorkOK`, `CallOK`: what each stage of a route implies for its request and its
  own call;
* `QueueOK`: what is still to be delivered was neither acted upon nor is in
  work, and occurs once;
* `IssuedOK`: numbers of messages do not repeat;
* `RepliesOK`, `ResponseOK`, `ListenOK`: a reply belongs to a call that is still
  waiting, its request was handled, there is one reply per call, and a
  collection holds at most one. The last is where `OneCallerPerService` is used;
* `ValidOK`, `HistoryOK`, and the three properties themselves.

One lemma per action preserves it; lemmas on `Call`, `Take` and the loss of
queues serve several of them. From `IInv` follow the invariants, `HopelessStays`
as an action property, and `AmqpImplementsRpc`, the step simulation of `Rpc`
under the mapping `answered <- {a.call : a \in answered}`.

**`Registration_proofs`.** `IInv` adds `Progress` (what each label implies for
the rows) and `TwinsOverlap` (two requests with one address that have both
stored, or may, ran at the same time).

**`AdminConfig_proofs`.** `IInv` adds `TrackedAt`: an entity that is not
modified equals its row, and every value of a tracked entity is one its column
may have or one the request under way gives. Invariance shows that writing all
columns of all modified entities never writes anything else.

**`Tab_proofs`.** `ShownIsAsked` and `AddedIsListed` speak of what is shown;
what makes them inductive is known of the requests while they are under way:

* `RequestOK`, of every request: whose it is, and that a meerkat it adds has no
  owner until it is served and one once it is answered for;
* `LiveOK`, of those that the mounted page awaits: unless the page was kept, a
  fetch is for the stored token and logs for the shown address, and a good answer
  to the newest fetch has what was added so far. Requests of pages that were left
  need no such claim; `LeaveAbandons` and `ReloadAbandons` say that leaving and
  reloading leave no others behind;
* `AddsDiffer`: two requests under way never add the same meerkat.

`MountStep` and `RenderStep` are the two ways to show an entry of the history, and
every navigation and the late login reduce to them; `SubmitStep` and `AnswerStep`
serve the forms and the gateway likewise.

**`Monitoring_proofs`.** That no reading is alerted about twice is a fact about
where a reading can be: in a queue, in the work of central, among what was sent.
`IInv` says

* `SubmittedOK`: what is pending, stored or acknowledged was reported, numbers of
  readings do not repeat, and a stock agent reports nothing severe;
* `EntriesOK`: behind central's own queue there are only stored readings, and
  behind the notifier only severe ones;
* `EntriesApart`: a reading is in at most one place of one queue (readings wait in
  central's queue, then in the notifier's, then in a sender's);
* `SentOK`: a reading that was sent is in no queue any more;
* `WorkOK`: what central has taken is in no queue that it could still go to;
* `CacheOK`: a tracked configuration is one the admin has had since the notifier
  was started; and `AckedIsLogged`, `AlertedOnce` themselves.

Nearly every step moves at most one message. `Moved` states this of the queues
before and after, index by index, whether a head was taken, a message appended,
both, or a queue lost; `QueueStep`, `SentStep` and `WorkStep` carry the
invariant across any such move, so that the proof of an action only has to say
which move it is. `StockAgentSilent` follows from `SubmittedOK` and the order of
the tests in `ProvideData`; `PoisonedRejects` and `AddressHeld` are proved as
action properties. `MonitoringImplementsTelemetry` maps `Report` to the abstract
submission, a save (reported as such or not) to the storing, `Return` to the
acknowledgement and a sender's step to the alert; all other steps stutter.

**`ClientCreator_proofs`.** `IInv` says that the table and what is pending are
paired (`PairsOK`): the two entities are added in one step and stored by one
transaction, and a failed save leaves both in the context or both in the table.
`WorkOK` says which rows a request has at each stage, `AdminsOK` that a Release
build takes an admin from the list, not from the count. `FaultlessOK` is what
`FailedLeavesNothing` needs: without a fault, rows are pending only between
`List` and `Save` of their own request, because everything that throws by itself
throws before `List`. With a fault it is false, and the next request does store
rows of a failed one.

**`Presenter_proofs`.** `MethodsOK` is the invariant of the loops: in
`GetLogsForUser`, what had to be found is in the response or among the logs of
the tokens left; in `MeerkatsByUser`, likewise of the meerkats, each item having
an address that its admin has had; in `GetLogsForMeerkat`, a row that was there
when the request was sent was found. Rows are only ever added, so that what other
threads and services do between two queries disturbs none of this (`MethodKept`,
`AnswersGrow`). `AskedOK` says that a token always has its clientconfig, which
leaves an unknown admin as the only failure of the loop; `ClashOK` that a query
which clashed is remembered. `DoneInvariant` and `GoOnInvariant` are the two
ways a query ends, to which all methods reduce; `PresenterEmailHeld` looks at the
only steps that answer a request for meerkats.

An inductive invariant is a means of its proof and no property of a run.

Assumptions: the ASSUMEs of the seven modules, evaluated by TLC in every run:
types of the constants, the deployment, `OneCallerPerService`; that `None`, which
stands for a null, is no request, reading, configuration or call; that
administrators are finitely many, without which `GetRandomAdmin` has nothing to
count. The theorems hold for any number of services, routes, clients, requests,
columns, accounts, agents, meerkats, readings, changes, acts and faults.

Only model-checked: liveness (`EveryCallReturns`, `EveryAlarmIsSent`,
`EveryDashboardLoads`), because the prover has no support for fairness and
ENABLED, and everything about `Wire`, whose encoding and merging are recursive
operators over data. `AuthorizedOnly` in the deployment of `amqp_chain` is an
instance of the theorem about `Amqp`. The two violated properties are of course
not proved.

## 5. Not modelled

The JWT and the password hash; the layout of the front end, the validation of its
forms and its generated service worker, of which only `unregister()` is called;
numbers of more than one byte in the codec of `front/models/base.ts`; logging to Mongo and Logstash, Vault, configuration, Prometheus,
Kubernetes; the delay of the agent's loop; recovery of the connection of a service
in the middle of a request, where the behaviour of the client library with a
handler in `Take()` is not determined by this code. PostgreSQL, Redis, SMTP, the
broker, React and React Router are external and modelled as the code uses them.
That the broker keeps every delivery as unacknowledged
(`RabbitInternalService.cs:39`) is in the model, but the code promises no bound
that a property could state.

## 6. Plan

1. Facts about the abstract specifications themselves: what `Rpc` and `Telemetry`
   promise, as invariants that every implementation inherits.
2. That the presenter's environment is what the client creator promises: its
   `Create` as a refinement of the rows of `ClientCreator`.

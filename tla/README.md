# TLA+ models of the ULOV backend

The backend (`app/`) is a FastAPI application over PostgreSQL and Redis for car
owners and service centres. Its correctness rests less on any single handler
than on what happens when handlers overlap, repeat or fail half way: every
request is one READ COMMITTED transaction, no read takes a lock, the commit
runs *after* the response, Redis calls are steps of their own, and async
handlers call the database synchronously on the event loop. These modules model
that for every part that changes state, with the migrations and the scripts
that fill the database.

## 1. The system

### Execution model (shared by all components)

| Fact | Where |
|---|---|
| `get_db` opens a session per request, commits after the response was sent, rolls back on an exception | `app/deps.py:27-40` (FastAPI 0.103) |
| READ COMMITTED, `autoflush=False`, no `SELECT ... FOR UPDATE` and no optimistic version column anywhere | `app/db/session.py:31-37` |
| a plain `def` handler runs in a thread pool; an `async def` one runs on the worker's event loop, synchronous database calls included | the routers |
| two worker processes, restarted when they crash or grow | `ecosystem.config.js:33-41` |
| Redis keeps codes, locks and cached pages: no call watches a key, an expiry is a call of its own | `app/modules/auth/service.py`, `app/modules/content/service.py` |
| alembic runs all the scripts of one command in one transaction; a script commits after each of its sections | `alembic/env.py:76-96`, `scripts/*.py` |

So a read sees the last commit; an UPDATE waits for the row lock and then
rewrites the columns it names, computed from the row that was *read*, in the row
it *finds*. An async handler that waits for a row lock stops its whole event loop.

### Components

| Component | State | Operations | What is hard | What makes it correct |
|---|---|---|---|---|
| **services** (`modules/services`) | `services`, `service_items`, `service_transitions`, photos | create / intake, patch, transition, add photo, lists | check-then-act without a lock; publish inside the transaction; sync calls on the loop; a roster mechanic is no `users` row | only moves of the graph; terminal is final; status = last timeline row; stamps and pause ledger; a 500 leaves nothing; a list is not refused for one of its items |
| **notifications** | inbox rows, devices | create (called by services, billing), mark read, register device | push task before commit; check-then-insert | the inbox has what was pushed, once; one device per token |
| **events / WebSockets** | Redis channels, open sockets | publish, subscribe, pump | "ready" before subscribed; publish before commit; a subscription that breaks under an open socket | an event sent to a subscription arrives or the socket closes |
| **billing** + **Payme**, **Click** | `payments`, the centre's subscription | checkout; create, perform, cancel; complete | providers repeat and overlap calls; answer before commit; unique reference | paid is final; one notice; a subscription is backed by a payment; answered means recorded |
| **auth**, **users**, **admin**, **audit** | OTP and lock keys in Redis, users, refresh tokens, `audit_logs` | request / verify OTP, register, login, rotate, logout, reset; profile, avatar; role, (de)activation | read, then delete; count in whatever record is there; rotation racing reset or rotation; ORM updates that compare with a stale row | one admission per code, counted guesses; an ended session stays ended; no session for a disabled account; the trail tells the column |
| **cars**, mileage history, **plates** | `cars`, `car_mileage_readings` | create, patch, delete, record, snap at intake | read, compare, write without a lock; declared plate types | the odometer tops its history and falls only on a stale read; one car per plate and VIN |
| **trips** | trip, points | start, append, finish | points added while finish sums | the summary covers the points |
| **insurance** | tariffs, policies | buy, create from a quote | a default tariff made on demand | policies name a car and a tariff |
| **mechanics**, **centres**, **reviews** | one table each | create, patch, (soft) delete | foreign keys against deletions; a login outlives its mechanic | references agree, unique logins |
| **content** | pages, Redis cache | list (cached), upsert | no invalidation; a fill with what was read before | a stale page lives one TTL at most |
| **migrations** | the catalogue, the revision row | upgrade, downgrade | hand-written and generated scripts in one chain; two commands at once | the catalogue is what the revision builds; the head is what the models declare |
| **scripts** (`scripts/`) | the rows of most tables | seed, import, demo | no unique key on names; commits between sections; rows two scripts share | a re-run adds nothing; doubles need an overlap |
| rate limiter, SMS and push gateways, SOS, uploads, reference data, statistics, worker, entry, configuration | tokens and counters in memory or Redis, single rows | checks, sends, reads | - | not modelled, section 6 |

Interaction: services and billing call notifications inside their own
transaction; services publishes to Redis before committing; billing writes the
centre's row; intake writes the car's row; audit rows join the caller's
transaction; scripts and migrations meet in the tables. `PROJECT.json` lists
every component with its status and every hazard at its line, also the three
that no property covers, with the reason.

## 2. The modules

| Module | Models | Notes |
|---|---|---|
| `ServiceStates` | `state_machine.py`: statuses, graph, `validate` | constant operators |
| `ServiceLifecycle` | what the services module promises of one record | abstract specification: status and log move together along the graph |
| `ServiceDesk` | transition and patch endpoints, row lock, event loops, commit, rollback, publish, push task, crashes | refines `ServiceLifecycle` while requests do not overlap |
| `Billing` | checkout, `apply_webhook`, Payme and Click calls, centre and payment row locks, the unique reference, failures | |
| `GarageTables` -> `Vehicles` -> `Workshop` -> `Journeys` -> `Garage` | cars and mileage; centres, mechanics, intake, photos, reviews, access rules; trips and insurance; their composition | each extends the one before: they share tables |
| `PortalTables` -> `Otp` -> `Accounts` -> `Live` -> `Portal` | what is shared; codes in Redis; users, tokens, audit; pages, devices, sockets; their composition | as above |
| `Schema`, `Seeding` -> `Deploy` | the migrations operation by operation; the scripts section by section; operators running both | `Schema` is pure operators |
| `MCServiceDesk`, `MCBilling`, `MCGarage`, `MCPortal`, `MCDeploy` | TLC instances | bodies, scenes, symmetry |
| `ServiceDesk_proofs`, `ServiceDesk_serial_proofs`, `Billing_proofs`, `Garage_proofs`, `Portal_proofs`, `Schema_proofs`, `Deploy_proofs` | theorems | TLAPS, section 5 |
| `Induction` | induction on `0 .. n` and the recursive functions it justifies | used by the proofs about timelines and scripts |

### ServiceDesk: variables and code

* `db`, `items`, `timeline`, `inbox`: the **committed** rows of `services`,
  `service_items`, `service_transitions`, `notifications`. What a transaction has
  written and not committed is in the request's record (`req[c].row`, `.deleted`,
  `.added`) and is published by `Commit`.
* `lock`: who holds the row lock of a service (its first UPDATE until the end of
  the transaction). Inserting child rows takes only `FOR KEY SHARE`, which no
  UPDATE of this code conflicts with.
* `loop`: the request that occupies a worker's event loop: a transition from
  `TransitionBegin` (its SELECT) to the end of `TransitionWrite` (its first
  `await`), also while it waits for the row lock in between.
* `req[c]`: the locals of the request in flight, with `snap`, the row it read.
* `pushq`, `announced`: push tasks on the loop; events and pushes that left.
* `failed`: requests answered 500.

A transition is `TransitionBegin` (read, access, `validate`, clock) ->
`TransitionWrite` (UPDATE once the lock is free, timeline, audit and inbox rows,
push task) or `TransitionViolatesFk` (the caller is a roster mechanic, whose id
is no `users.id`) -> `PublishFirst` -> `TransitionReturn` -> `Commit`; a patch is
`PatchBegin` -> `PatchFields` / `DeleteItems` / `InsertItems` -> `PatchReturn` ->
`Commit`. `RedisFails`, `DatabaseFails`, `WorkerDies` cut in where the code can be
cut; `Rollback` is `get_db`'s except branch. `UpdatedRow` is the UPDATE: columns
it names come from `snap`, the rest from the row it finds.

Abstracted: line items are named by the request that wrote them; `mechanic_id`,
`notes` and `next_recommended_mileage` are one column `edited_by`; seconds are
clock values; reasons are "given or blank". Assumed: the car is not soft-deleted
and its owner has a device, so a transition writes its inbox row and creates its
push task.

### Billing: variables and code

* `payment`, `center`, `notices`: committed payment rows, the centre's
  subscription columns, the number of "billing.paid" inbox rows of each payment.
* `rowlock`, `centerlock`: row locks. `apply_webhook` updates the centre first
  (`update_fields` executes at once, then flushes the payment), so the order is
  centre, payment, unique index (`Contended` waits for an uncommitted
  reference, `Taken` raises).
* `call[h]`: the webhook request a handler slot serves, with `snap`, the row read.
* `told`, `lost`: history of the answers, and of transactions that failed after
  theirs.

`CreateTransaction` attaches a reference; `PerformTransaction`,
`CancelTransaction` and `Complete` go through `ApplyWebhook`, whose guards
`Settled` and `Mismatch` are those of the code in the code's order; then
`ExtendCenter`, `WritePayment` (or `ViolatesUnique`), `Answer`, `Commit`. The two
clock reads of one handler are one. A slot is a webhook on a worker of its own:
what two requests of one worker do to each other (both webhooks are `async def`)
is the same as in `ServiceDesk`. The status `refunded` is set by nothing in the
code and is left out, as are payments of other kinds than subscriptions, which
nothing creates.

### Garage: variables and code

* `car`, `reading`, `center`, `mechanic`, `service`, `photo`, `review`, `trip`
  (with its points), `tariff`, `policy`: the committed rows. A row is `Null`
  before it is inserted and `Deleted` after a hard delete, so an id is never
  given out twice.
* `req[c]`: the request in flight: `args` is its validated body, `key` the row it
  is for, `snap` the row it keeps from its SELECT. `crossed` is a ghost: rows two
  requests had in hand at once, which is where the properties make exceptions.

Each endpoint is two actions, `X_Read` (SELECTs and checks) and `X_Write` (the
statements and the commit); row locks make the second one step for everybody
else. A unique or foreign key that refuses is a guard of `X_Write`: what is left
then is `Abort`, the rollback, which also stands for a lost database and a dying
worker. `UniqueKeysAllow`, `UpdateFields` (None is dropped), `NormalizePlate`
(what a spelling becomes) and `DetectPlateType` are the code's helpers; the two
sets of access rules (`services/service.py` and `service_centers/service.py`)
are `AssertOpsAccess`, `ListCenterServices`, `ListVehicleHistory` and the like.

Abstracted: columns no rule looks at are left out, or stand for the request that
wrote them (`edited`); points are (request, number in its batch), and the
distance of a set of points is the set (`Distance`), so "the summary is of these
points" can be told exactly.

### Portal: variables and code

* `otp`, `lock`: the Redis keys `otp:{phone}` (code, attempts, whether it has an
  expiry) and `otp:lock:{phone}`. Every Redis call is an action: `RequestOtp_*`
  are EXISTS, DEL, HSET, EXPIRE; `VerifyOtp_*` HGETALL, HINCRBY, DEL, SETEX.
  `OtpExpires` and `LockExpires` are Redis' own.
* `user`, `token`, `audit`, `page`, `device`: committed rows, `cache` the cached
  list of pages. A token is named by the request that issued it and carries what
  the properties ask about: its parent, whether the account was active then, and
  the places in `log` of its request's read and commit.
* `sock[b]`, `published`: a WebSocket with the queue of its subscription, what
  it has received and what it is owed.
* `log` (the order of the commits), `guesses`, `admitted`, `disturbed` are ghosts.
  `disturbed` names phones over which two requests met, one died, or the record
  expired under a request.

`OrmUpdate` is SQLAlchemy's UPDATE of attributes: it compares with the loaded
value and may send nothing at all. A mechanic's login issues a cookie that no row
backs and changes nothing: it is left out. Codes are hashes of six digits: the
model takes a guess to be right or wrong.

### Deploy: variables and code

* `version`, `catalog`: `alembic_version` and the catalogue (types, tables,
  references, keys, indexes). `Schema` has each `upgrade()` and `downgrade()` as a
  sequence of operations and `Execute`, which refuses what PostgreSQL refuses.
* `data`: how often each row a script guards is there, the role of each user and
  which customer a query without an order returns. `Seeding` has each section of
  each script (`Sections`), with what it looks for, adds, and needs.
* `job[o]`: what an operator runs: an alembic command with the revision it read and
  its uncommitted work, or a script at a section with the data it looked at.
* `settled` (scripts that ran to the end with nothing else written since) and
  `job[o].alone` are ghosts of `RerunChangesNothing`.

## 3. The runs

| Run | Question | Bounds | Result |
|---|---|---|---|
| `desk_serial` | one caller: stamps, pause ledger, terminal is final, refinement, every request ends | 1 service, 1 caller, 5 requests, clock 0..2 | holds |
| `desk_overlap` | two callers, two workers, all faults: graph, status = last hop, one notice per hop, a 500 leaves nothing | 1 service, 2 callers with 2 requests each, staff and mechanic | holds |
| `desk_race` | is terminal final when two transitions overlap? | 2 callers, 2 workers | violated |
| `desk_loop` | does every request end on one worker? | 2 callers, 1 worker | violated |
| `desk_push` | is the inbox the source of truth when a publish fails? | 1 caller | violated |
| `billing_overlap` | subscription backed, notice iff paid, answered is recorded, paid and reference yield to a stale read only, no deadlock | 2 slots with 2 calls each, 2 payments, 2 references, 2 plans, 1 centre, clock 0..1 | holds |
| `billing_replay` | is the webhook idempotent when deliveries overlap? | 1 payment, 2 deliveries | violated |
| `billing_cancel` | is the provider answered what is stored? | 1 payment, 2 calls | violated |
| `garage` | references, unique keys, odometer and history, trip summaries, answered lists | 3 requests, two at a time; 2 cars, trips, mechanics, customers, plates, 3 centres (one id free), mileage 0..2, batches of 1 or 2 points; 7 scenes | holds |
| `garage_history` | does every update of a mileage leave a reading? | the scene of mileages | violated |
| `portal` | codes, sessions, disabled accounts, audit trail, unique rows, stale pages, silent feeds | 3 requests, two at a time; 2 phones, 2 attempts, 1 slug, device, socket; 9 scenes | holds |
| `deploy` | catalogue = revision, refused steps, head = models, safe re-runs, doubles | 2 operators, 2 or 3 jobs; goals 0, 5, 6, 8 of 8 revisions; 6 scenes | holds |

Why the bounds are enough to be interesting.

* `desk_*`: five requests of one caller reach waiting -> in_progress -> paused ->
  in_progress -> paused -> completed, with two pause windows to add up, and three
  clock values make windows of different lengths. Two overlapping callers with
  two requests each give every pair of stale read and late write, each with the
  service moved on by an earlier request; two requests conflict through one row,
  so a third caller only adds to the queue for its lock.
* `billing_*`: four calls on a payment are create, perform, redelivery,
  cancellation; two references and two payments give mismatches and collisions of
  the unique index.
* `garage`, `portal`: a *scene* is a set of request kinds that share rows or
  records (`MCGarage`, `MCPortal` name them: mileages, references and deletions,
  tracks, codes, resets, disabling ...). Kinds outside a scene touch nothing that
  the properties of the scene relate. Three requests, two at a time, are: one
  that sets the row up, and two that overlap over it; or two that overlap and
  one that meets what they left. Two attempts are enough to reach the limit of
  wrong guesses with one count before it. Garage bodies have a plate in either
  spelling, a declared type that is not the plate's, a VIN, and mileages below,
  at and above the car's.
* `deploy`: the commands start at 0, 5, 6 or 8, go up and down over the generated
  revision 6 and the hand-written ones around it, and overlap with each other or
  with a script; the scenes of scripts are those that write the same rows.

`MaxReq`, `MaxCalls`, `MaxJobs`, `MaxTime`, `MaxKm`, `MaxBatch` bound otherwise
endless behaviours; they are guards of the actions that start something or move
the clock, or ranges of inputs, never of a program's own step. Deadlock checking
is off because all bounded requests may be spent; that a request in flight can go
on is a property of its own (`EveryRequestEnds`, `SomeoneProceeds`), and in
`Garage`, `Portal` and `Deploy` a request, command or script in flight can always
at least be aborted.

`ListsAreAnswered` asks of staff only what the queue of a centre needs. It does
not ask it of a car's history: there `list_for_car` (`services/service.py:137`)
lets every mechanic and owner pass, and the handler then asks for the items of
each service (`services/router.py:199`), which only the staff of *that* service's
centre may see: the history of a car that was ever at another centre is a 403.
No document promises otherwise, so the property leaves it out and this paragraph
records it.

Fairness. `ServiceDesk!FairSpec` assumes weak fairness of each request's own
steps (the event loop, thread pool and database run what is runnable) and of push
tasks on a free loop. `Portal!Fairness` assumes weak fairness of a request in
flight (its handler goes on, or it is aborted: nothing waits for a lock between
two steps there), of the expiry of the cached list (Redis ends a key that has an
expiry; `CACHE_TTL_SECONDS`), and of each socket's forwarding and closing (tasks
of a running event loop). Nothing is assumed of clients, faults, subscriptions or
the clock.

### What the violated runs show

* `desk_race`: `transition` validates a row it does not lock and updates without
  a condition; a completed service can be moved on by a transition that was
  waiting (the state machine's docstring calls terminal states final).
* `desk_loop`: a transition waits for the row lock on the event loop its holder
  needs to finish. Neither ends ("always closes on exit"); no timeout is set.
* `desk_push`: the push task is created before the commit; a failing publish rolls
  the inbox row back and the push is still sent.
* `billing_replay`: two overlapping deliveries of one outcome both apply ("Webhook
  handling is idempotent").
* `billing_cancel`: cancelling a performed payment is answered "cancelled" and
  leaves it paid ("refund / cancel").
* `garage_history`: a PATCH of the mileage compares the new value with a row its
  own UPDATE has already refreshed: no reading is appended ("Every time a
  `Car.mileage` is updated, a row is appended here").

## 4. Other divergences

Met while modelling; the models follow the code, and no run is spent on them.

* The end of a subscription is the clock plus the plan's duration, what was left
  is lost (`billing/service.py:126`; lines 8-10 say "extend ... by the plan's
  duration").
* `patch` of a plate leaves `plate_type` as it was (`cars/service.py`); a declared
  type is never compared with the plate, because the validator runs before the
  field is known (`cars/schemas.py:25-26`: "enforce it").
* `otp_verify` does not ask whether the account is active, login and refresh do
  (`auth/router.py:135`): the exception in `DisabledAccountsGetNoSession`.
* "Every existing refresh cookie must die" (`auth/service.py:307`): a rotation that
  overlaps the reset issues one that lives: the exception in
  `EndedSessionsStayEnded`. The reset, too, updates a row synchronously in an
  async handler (`auth/router.py:397`), as in `desk_loop`.
* `upsert_page` drops no cached list; `content/service.py:17` ("invalidate on admin
  edits in P6") and `CH_CONTENT` in `core/events.py:22` announce it. The expiry
  mends it (`EditsReachReaders`).
* A roster mechanic can neither create a service nor add a photo: the foreign key
  to `users` always refuses (`services/service.py`), so those requests only abort.
* The lookup at intake compares the plate as the client spelled it.
* The generated downgrade of `e52e9a810976` drops a constraint without a name and
  cannot run (`OnlyOneStepIsRefused`).
* The importers give one phone, +998901234567, to an owner and to a customer: each
  flips the role the other gave (part of `Seeding`'s roles).
* `scripts/seed.py` promises "ON CONFLICT DO NOTHING" and overwrites the pages;
  `import_cms_content.py:20` deletes all pages in a transaction of its own.
* `import_erp_json.py:178,314` make up phones from `hash()`, which differs from
  process to process; `seed_fake_data.py:328` and others take `.first()` without
  an order.
* Dead code: `_can_view` (`services/service.py:44`), `check_rate_limit`.

## 5. The proofs

Every proof is for all values of the constants: any number of rows, callers,
overlapping requests and faults. Each invariant below was checked by TLC on the
run's instance before it was proved.

### ServiceDesk

`ServiceDesk_proofs`, from `DeskAssumption` and `RowAssumption` only (`Null` is
none of the values it stands beside):

| Theorem | Statement |
|---|---|
| `TypeCorrect` | `Spec => []TypeOK` |
| `RecordedMovesAllowed` | `Spec => []HopsAllowed` |
| `StatusFollowsTimeline` | `Spec => []StatusIsLastHop` |
| `NotifiedOnce` | `Spec => []OneNoticePerHop` |
| `FailedIsUnrecorded` | `Spec => []FailureLeavesNoTrace` |

None of the last four is inductive. The invariant `Desk` adds to `TypeOK` what a
request in flight knows: `FlightOK` (its locals are set as its stage says, and the
hop it carries is one the graph has from the status it *read*), `LockOK` (a
request with an uncommitted row holds the lock of its service; the row carries the
requested status, or for a patch the committed one; a transition past its write
has such a row) and `HistoryOK` (no timeline is empty, `HopsAllowed`,
`StatusIsLastHop`). The lock is what makes the status follow the timeline: while a
request holds it no other commit changes the row, so its commit sets the row and
appends the hop together. `PastOK` adds that the inbox is the set of recorded
requests, that it and `failed` are disjoint and hold only requests already sent,
and that a request in flight is in neither until its end: so one request is one
timeline row at most and a 500 is never recorded later.

`ServiceDesk_serial_proofs`, under `OneCaller` (the set of clients has one element:
one request in flight at a time; an assumption of these theorems alone):

| Theorem | Statement |
|---|---|
| `StampsTellStatus` | `Spec => []StampsMatchStatus` |
| `LedgerMatchesTimeline` | `Spec => []PauseLedger` |
| `TerminalStaysFinal` | `Spec => TerminalIsFinal` |
| `DeskImplementsLifecycle` | `Spec => ImplementsLifecycle`: every step is one step of `ServiceLifecycle` or a stutter |

They rest on one more invariant, `Serial`: with one caller the row a request read
is the row it finds (`snap` equals the committed row while the request is in
flight, and is not terminal), what it has flushed is computed from that row alone,
and every row is stamped as its status says. `desk_race` breaks exactly the first
of these.

`PauseLedger` says of a timeline of any length that the row's `paused_elapsed_s` is
the sum of the pauses the timeline shows (`PausedTime`, a recursive function). Its
invariant `Ledger` adds to `Serial` that the clock has not run backwards (`ClockOK`:
the last row of a timeline is no later than the request in flight over it, nor that
request later than now) and that a paused service was paused by its last row
(`PausedByLast`); the lemma about the sum says what one more row adds to it.

### Induction

The library's induction theorems have an operator as a parameter, which the
installed provers cannot instantiate. `Induction` states induction with *sets*
instead (`InductionUpTo`: a set that holds 0 and with each number the next holds
all up to n), derived from the library's theorem that `<` is well-founded on `Nat`,
and from it that a recursive function on `0 .. n` exists and is unique. That is what
makes `PausedTime` and `Execute` more than computations.

### Billing

`Billing_proofs`, from `BillingAssumption` and `BillingRows`:

| Theorem | Statement |
|---|---|
| `BillingTypeCorrect` | `Spec => []TypeOK` |
| `PaidIsFinal` | `Spec => PaidYieldsToStaleRead` |
| `ReferenceIsKept` | `Spec => RefYieldsToStaleRead` |
| `SubscriptionsArePaidFor` | `Spec => []SubscriptionBacked` |
| `PayersAreNoticed` | `Spec => []PaidIsNoticed` |
| `AnsweredPaymentsAreRecorded` | `Spec => []AnsweredPaidIsRecorded` |
| `NobodyWaitsForEver` | `Spec => []SomeoneProceeds` |

The invariant is `Ledger`. A call knows its path (`PathOK`: what its stage says of
its locals, and that it read a row it may write); what it read is still true of
its payment (`Current`: same purchase, and a reference or a stamp once there is
still there, so a call can be overtaken only forwards); the row it has flushed is
the *committed* row with its changes and it holds the row's lock (`HoldsRow`), the
subscription it has written likewise with the centre's lock, and is the one its
payment buys (`HoldsCenter`). A row that is paid has a reference and a stamp.
`ToldOK` says the same of what a provider was told: recorded, about to be, or lost.

`NobodyWaitsForEver` needs to know who holds a lock, and why (`LocksOwned`): a
payment's lock is held by a call that has written that row, a centre's by one that
has extended that centre or was refused at its flush and has not rolled back yet. A
call that has written its payment waits for nobody. So whoever waits for a row, or
for a reference another call has flushed, waits for such a call; and whoever waits
for a centre waits for one that is done with it, fails, or waits for such a call: a
chain of at most two. A call never asks for the centre after the payment, and that
is what the proof turns on. `SomeoneProceeds` names the guards of the steps that
lock (`MayExtend`, `MayWrite`, which the actions themselves use) where TLA+ would
say `ENABLED`.

### Garage

`Garage_proofs`, from `GarageAssumption`, `RowAssumption`, `BodiesAssumption` and
`PopulatedAssumption` (what `Init` needs to choose its rows):

| Theorem | Statement |
|---|---|
| `GarageTypeCorrect` | `Spec => []TypeOK` |
| `ReferencesStayGood` | `Spec => []ReferencesAgree` |
| `KeysStayUnique` | `Spec => []KeysAreUnique` |
| `OdometerStaysOnTop` | `Spec => []OdometerTopsHistory` |
| `FallsTakeAStaleRead` | `Spec => OdometerFallsOnStaleRead` |
| `SummariesCount` | `Spec => []FinishedTripIsCounted` |
| `QueuesAreAnswered` | `Spec => []ListsAreAnswered` |

Two invariants carry them. `Tables` says what a request in flight may rely on
however long it waits: services, readings, trips and their points stay, an id is
not given out twice, a mechanic keeps its centre, a tariff stays (and
`OwnersOwn`: a centre's owner is an owner, never a mechanic, which is why the two
modules' access rules agree). `InHand` says what it may *not* rely on and when it
may: two requests with one row in hand have it in `crossed`
(`CrossingsAreKnown`), and a row that is in one request's hand and not in
`crossed` is still as it was read (`StillCurrent`). The odometer and the trip
summary follow from the second, references and keys from the first and the guards
of the writes.

### Portal

`Portal_proofs`, from `PortalAssumption` and `RowAssumption`: every safety
property of the run.

| Theorem | Statement |
|---|---|
| `PortalTypeCorrect` | `Spec => []TypeOK` |
| `RowsStayUnique` | `Spec => []RowsHaveUniqueKeys` |
| `NoSessionWhileDisabled` | `Spec => []DisabledAccountsGetNoSession` |
| `SessionsStayEnded` | `Spec => []EndedSessionsStayEnded` |
| `CodesAdmitOnce` | `Spec => []CodeAdmitsOnce` |
| `GuessesAreCounted` | `Spec => []WrongGuessesAreCounted` |
| `OtpRecordsAreWhole` | `Spec => []OtpRecordIsWhole` |
| `TrailTellsColumns` | `Spec => []AuditTellsColumn` |

No lock is held from a read to a write, so each property needs an invariant of
what a request in flight still knows of what it read.

* `Tables`: a request is of its kind, has an id of its own and read no later than
  now; rows of users and tokens stay, and a token's fields other than `active`
  never change (`Stays`).
* `SeenActive`: the account of a login or a rotation in flight is active, or its
  disabling is in the log after the read. `RotatesBeforeEnd`: a rotation in flight
  read its token before whatever ended it. With `NewToken` and `Brought` (which
  request brings a token, and what it says) these give the two properties of
  sessions.
* `Codes`: nobody knows a code before the request that names it has stored it
  (`CodesAreIssued`); a stored code sits at one phone, has admitted nobody and its
  record has counted its guesses (`CodesAreStored`); whoever is still about to be
  let in by a code that admitted another had arrived by then
  (`LatecomersOverlapped`).
* `Undisturbed`: for a phone that only one request at a time had in hand, the
  record is what that request's next Redis call relies on (`Relies`: absent before
  `HSET`, present before `HINCRBY`, no lock before a new code), and whole otherwise
  (`Whole`).
* `Trail`: the column still shows what an administrator in flight saw, or a later
  entry says who overtook; the last clean entry is what the row shows. It carries
  which entry follows which (`Follows`), which the property only chooses.

### Deploy

`Schema_proofs` has no assumptions beside those of its modules: the chain of
revisions is a constant of the code. `Deploy_proofs` is from `SeedingAssumption`,
`NoneAssumption` and `DataAssumption` (`None` is no user, no role and no data) and
the assumptions of `Deploy`, for any number of operators, jobs and scenes and any
goals.

| Theorem | Statement |
|---|---|
| `DowngradeUndoes` | on what the upgrades up to a revision build, its downgrade runs to its end and leaves what they build without it; only that of the sixth is refused |
| `OneStepIsRefused` | `Spec => []OnlyOneStepIsRefused` |
| `HeadIsWhatModelsDeclare` | `Spec => []HeadIsDeclared` |
| `SchemaIsWhatItsRevisionBuilds` | `Spec => []SchemaIsAtRevision` |
| `RowsHaveTables` | `Spec => []TypeOK` |
| `DoublesComeFromOverlaps` | `Spec => DuplicatesNeedStaleLook` |
| `RerunsAreSafe` | `Spec => []RerunChangesNothing` |

* *Scripts.* No prover evaluates a script of eighty operations, and an induction
  over operations needs to know that each is allowed where it runs. So the chain is
  followed from catalogue to catalogue, each written out (`Cat`): the types so far,
  and the first k tables in the order of their making (`Order`, `Tables`), as the
  scripts make them (`Made`), with the references that the third revision gives
  `users` and `reviews` (`Filled`), as the sixth leaves them one after the other
  (`Meta`), and as the models declare them (`Metadata`). `Leads` says that a script
  runs from one catalogue to another, and scripts that lead on from each other
  compose; a lemma per kind of operation says where it is allowed and what it
  changes, one per block of a script (a table with its indexes, a list of types, the
  indexes of the generated revision) puts them together, and one per script names
  its end. `ChainIs` is the list of the nine catalogues. From it, no upgrade is
  refused (`AtIsOk`), the last catalogue is `Metadata` (`HeadIs`), and seven
  downgrades are followed back the same way. The sixth is refused at the first
  constraint without a name, which no catalogue of the chain has.
* *Revisions.* `SchemaInv`: a command that has altered something holds, as its
  uncommitted work, the revision it came to and `At` of it. Two commands that read
  the same revision: the first to commit wins the row of `alembic_version`, or, as
  the table has no row yet at the base, the other is refused because `users` is
  there already (`FirstOnlyOnce`: every revision keeps it, `UsersStay`). A command
  nobody overtook runs its script on `At` of the revision it stands at, which gives
  `OneStepIsRefused` (`StepRuns`), and a database at the newest revision is `At` of
  it, which gives `HeadIsWhatModelsDeclare`.
* *Rows.* `DataInv`: nobody alters the schema beside another who does, or beside an
  open section (`Locks`), so the tables a section found stay while it is open
  (`TablesThere`), and a downgrade takes the rows of the tables it drops.
  The form of every section of every script (`Regular`: the tables it names, the
  rows it is about, the roles it gives) is a lemma of its own; what a section does
  with a row it finds (`Looks`) gives `DoublesComeFromOverlaps`.
* *Re-runs.* `RerunInv`: of a run that nobody crossed, every section behind it is
  quiet (would change nothing now), and a settled script is quiet throughout. That
  a section stays quiet while later sections of the same script write is the
  point. The importers and the page seed look for each row by itself, so a row more
  anywhere leaves a quiet section quiet (`SeekersAreSteady`). The fake seed counts
  what is missing per parent row; there the reason is the order of `main()`: no
  section names a table that a later one writes (`FakeOrder`), so what it would add
  stays the same (`FakeKeeps`), and one that was written finds its own rows filled
  (`FakeDone`).

### Only model-checked

Every invariant and every action property of the passing runs is a theorem, and
so is the refinement. Left to TLC alone are `EveryRequestEnds`,
`EditsReachReaders` and `EventsArriveOrSocketCloses`: liveness under fairness.

## 6. Not modelled, and the plan

* SMS and push gateways: best effort after the state was stored; a token in memory
  and one retry on 401. No state of the program depends on the answer; that a push
  may precede a rollback is in `ServiceDesk`.
* Rate limiter: `check_rate_limit` is called from nowhere.
* SOS: inserts and reads of single rows. Reference data, fuel stations, statistics,
  listings, pagination, recommendations: reads and pure computations.
* Uploads: presigned URLs, no state. Background worker: an empty task list and a
  health check that logs.
* Inbox: listing it and marking rows read (one UPDATE of one flag).
* The connection pool: a WebSocket holds its session for its life
  (`services/router.py:488`), a counter against a limit; listed as a hazard.
* The order in which a timeline is listed (`at` is the start of the transaction) and
  two overlapping replacements of line items (`ServiceDesk` has the steps): no
  document promises anything of them; listed as hazards.
* In `Schema`, columns, defaults and checks; in `Seeding`, the values of rows that
  are found and updated (only a user's role is kept).
* Entry, configuration, errors, logging, security helpers: wiring and pure functions.

What a next step would be, in order: the inbox (the read flags of a notification);
two overlapping replacements of line items; the connection pool, if its limit ever
matters.

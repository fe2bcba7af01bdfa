# Verification of the Yuusell logistics backend

TLA+ models of the NestJS backend in `src/`, the TLC configurations that check
them on small instances, and TLAPS proofs of their main properties for every
instance. Paths below are relative to `src/src/` unless they say otherwise.

    tlc -workers 2 -config concurrent.cfg MCLogistics     # see "Runs"
    tlc -workers 2 -config auth.cfg MCAuth
    tlc -workers 2 -config documents.cfg MCPaperwork
    tlapm LogisticsProofs.tla      # and LogisticsTheorems, ReadsProofs, MessageProofs,
                                   # SequentialProofs, AuthProofs, AuthTheorems, PaperworkProofs

## The system

One Node process answers HTTP requests and serves a WebSocket namespace. Its
state is in PostgreSQL (through Prisma), Redis and an S3-like object store; the
process itself keeps only the local variables of the handlers in progress and
the rooms of connected sockets.

| component | state | operations | talks to |
|---|---|---|---|
| shipments service (`api/shipments`) | `shipments`, `shipment_events`, `documents` | create, update, updateStatus, softDelete, bulkUpdateStatus, uploadDocument; list, get, history, stats | PostgreSQL, object store |
| label service | `documents` | generateLabel, and a store of the label in the background | PostgreSQL, object store |
| warehouse service (`api/warehouse`) | `warehouse_items`, and the shipment's status and events | receive, outbound, updateLocation; scan, inventory, reports | PostgreSQL |
| users service (`api/users`) | `shipments.assigned_driver_id` | assignDriver, unassignDriver; list and get drivers | PostgreSQL |
| tracking service (`api/tracking`) | `shipment_events` | updateGps; public tracking, timeline, GPS history, ETA | PostgreSQL, tracking gateway |
| tracking gateway (`gateways`) | rooms of sockets | subscribe, emit, disconnect | sockets |
| auth service (`api/auth`) | `users`, `sessions`, `wallets`, Redis counters and tokens | register, login, refresh, logout, change / forgot / reset password | PostgreSQL, Redis |
| access control (`core`) | none (a constant table) | throttle, JWT, roles, permissions guards, `@CurrentUser` | every request |
| audit log interceptor (`core`) | `audit_logs` | one row after each mutation that answers | PostgreSQL |
| CRM, wallet, notifications, jobs, mail, SMS, maps, OCR, payments | none | empty modules and stubs that nothing calls | - |

The services do not call one another (but for tracking, which calls the
gateway). They interact through the rows they share: three of them write
`shipments.status` and append to `shipment_events`.

### What is hard here

Between two `await`s a handler runs alone; at every `await` any other handler
may run. Every handler *reads a row, decides, and writes it after another
await* with an update that names the id only. No row is locked, no version is
compared, no transaction covers the read. So a write may rest on a status that
is gone, a shipment may be deleted under a handler, and two handlers may decide
the same thing. What protects the data is little and must carry much: two
unique columns (`tracking_number`, `warehouse_items.shipment_id`), the
`$transaction` batches that write status, event and item together, and the fact
that rows only grow. A handler may also stop between two of its calls: a call
rejects, or the process dies. `PROJECT.json` lists the hazards, each at its line
with the properties that would catch it.

### What makes each component correct

* **Shipments**: tracking numbers are unique; the status is the one the log last
  set; a status is only entered from one VALID_TRANSITIONS allows; a deleted
  shipment stops changing; what is over in its journey is over for every later request;
  a request ends, and a bulk request treats each item by itself; the pages of a list cover
  it, but for rows of one timestamp that a page ends among.
* **Warehouse**: a shipment is received at most once; item and log agree; an item
  that left does not come back to processing; a shipment that bypassed the warehouse stays out of it.
* **Drivers**: a driver is assigned only to a live shipment in a fitting status.
* **Tracking**: a GPS event never invents a status; subscribers see logged events of
  the shipment they asked for, once, and none after the request that logged it is over.
* **Auth**: a session stays deleted, keeps its user and takes only its own tokens; the
  last refresh token stored for it is one a client has been given; a password is written by
  its first registration, a change or a reset of that user and by nothing else; failed logins are counted, and a locked account
  unlocks; every user has a wallet; a password change ends every session; a reset token that
  is used up is of no use to a later request.
* **Documents**: every document has its object; an upload stays what it was; a label
  that was sent is stored and can be found, and a label row is updated rather than added again; the
  documents of a deleted shipment become final.
* **Access control**: whoever is named as the author of what is stored holds the permissions
  of the route that led there, also when the write comes after the answer.
* **Audit log**: it reports what happened, all of it where no call fails, and names who did it.

## Modules

| module | what it is | code |
|---|---|---|
| `ShipmentStatuses` | the eight statuses and VALID_TRANSITIONS | `shipments.service.ts:23-32` |
| `ShipmentStore` | constants, variables, types, initial state, and the reads and writes every service uses | the Prisma schema; `findOne`; the `$transaction` batch |
| `Shipments` | create, update, updateStatus, softDelete, bulkUpdateStatus | `shipments.service.ts` |
| `Warehouse` | receive, outbound, updateLocation | `warehouse.service.ts` |
| `DriverAssignment` | assignDriver, unassignDriver | `users.service.ts` |
| `Tracking` | updateGps, and the gateway | `tracking.service.ts`, `tracking.gateway.ts` |
| `Reads` | lists as sets of rows in some order, their pages, the counts of the dashboard, public tracking: what the reading handlers answer | `findAll`, `getInventory`, `getStats`, `getPublicTracking` |
| `Logistics` | composes the four services; Next, failures, fairness, the properties | `app.module.ts` |
| `ShipmentJourney` | abstract specification: what the services together promise about a status | - |
| `MCLogistics` | the instances of `Logistics` that TLC checks | - |
| `LogisticsProofs` | inductive invariant; type correctness; log and status agree | - |
| `LogisticsTheorems` | the other theorems of `Logistics` about any number of requests at a time | - |
| `ReadsProofs` | pages and counts | - |
| `MessageProofs` | what subscribers are sent | - |
| `SequentialProofs` | the theorems of `Logistics` about one request at a time | - |
| `AuthStore` | constants, variables, types, initial state, and the reads and writes the auth handlers share | `user.prisma`, the Redis keys, the tokens |
| `AuthSessions` | register, login and lockout, session and token creation, refresh, logout | `auth.service.ts:48-262,397-490` |
| `AuthPasswords` | changePassword, forgotPassword, resetPassword | `auth.service.ts:295-391` |
| `Auth` | composes them; failures, time, fairness, the properties | `auth.controller.ts` |
| `SessionLife` | abstract specification: what the service promises about a session | - |
| `MCAuth` | the instances of `Auth` that TLC checks | - |
| `AuthProofs` | inductive invariant; types; the refinement of `SessionLife` | - |
| `AuthTheorems` | who writes passwords; the bound on failed logins, reset tokens, sessions and passwords; what holds when no call fails | - |
| `Access` | the permissions of the roles, the routes, the guards | `role-permissions.ts`, the controllers, `core/guards` |
| `DocumentStore` | constants, variables, types, initial state of the documents, and the reads they share | `Document`, `AuditLog` of the Prisma schema; the keys of objects |
| `AuditLog` | the end of a request, and the row it logs | `audit-log.interceptor.ts` |
| `Documents` | uploadDocument, the label download and its background task, softDelete | `shipments.service.ts:383-408`, `label.service.ts` |
| `Paperwork` | composes them with the audit log and failures; fairness, the properties | `shipments.controller.ts` |
| `MCPaperwork` | the instances of `Paperwork` that TLC checks | - |
| `PaperworkProofs` | inductive invariant; the safety properties of `Paperwork` | - |

A definition whose name ends in `_Something` next to a definition of the same name
is that definition with a plausible mistake in it. No specification uses them; they
show that a property can tell the code from a broken version of it.

### State and actions of `Logistics`

* `ship[s]` is the row of shipment `s`: tracking number, status, isDeleted, driver.
  A row exists when it has a tracking number. `events[s]` are its events in the
  order of insertion, `item[s]` its warehouse item: none, in stock, or out.
* `room[c]` and `inbox[c]` are the rooms of a socket and what it was sent.
* `handler[w]` is a request in progress: the await it is suspended at (`at`) and the
  local variables that survive it. `seen` is the status it read.

An action is the code from one await to the next, and ends with the one database
call, or the one batch, that this code issues. `StatusFind` is `updateStatus` from
the arrival of the request through the read and the check; `StatusWrite` is its
batch. The read and the code up to the next call are one step: the handler's
decision depends on what it read only, so placing the read and the decision at
the same instant loses no behaviour. The arrival of a request is one step with its
first read for the same reason. A request that is refused changes nothing and is
written as such.

Abstractions, each where the code allows it:

* Of the columns of a shipment the model keeps those the properties read.
  `update` writes any subset of the others; the model keeps the driver, named or not.
* The kind of an event (`note`) stands for the text each writer gives it. The code has
  no such column; no action's guard reads it.
* `assignDriver` reads the driver and then the shipment. Nothing modelled writes
  users, so the two reads are one step.
* Events are in insertion order. `createdAt` is not modelled; that timelines are
  sorted by it is a hazard no property covers.
* A message's timestamp, which is `createdAt` of its event, is the position of the
  event in the log.
* A UUID is never drawn twice: `CreateStart` picks an id nobody uses.
* A list is a set of rows, each with a value it is sorted by (`SortKeys`), which rows may share: `findAll` and
  `getInventory` sort by one column, by default a timestamp in milliseconds, and name no second one
  (`shipments.service.ts:175`, `warehouse.service.ts:125`). Each query has a ranking of its own that agrees with the
  values and is free among equal ones (`Orders`). A page is the rows whose place in that ranking is in its
  interval. The filters of `findAll` are left out: they only make the list another set.

External services are modelled by what the code relies on: a call is atomic, a
`$transaction` batch commits as a whole or not at all, a unique column rejects a
second value (`CreateInsert`, `ReceiveWrite`), and a call may throw at any time
(`Fail`, `BulkItemFails`). The process dying is a `Fail` of every handler and a
`Disconnect` of every client, in any order. All state that outlives it is in the database.

### State and actions of `Auth`

The auth service shares no row with the logistics services, so it is a model of its own,
made the same way: an action is the code from one await to the next.

* `account[e]` is the user with email `e` and its wallet; `version` counts the
  writes of `password_hash`, and 0 says that there is no user.
* `session[x]` is a row of `sessions`: none, open or closed (deleted), its user, the refresh
  token it holds (`Null` for the code's `'pending'`), whether `expiresAt` is past. `opened`, the
  password version it was opened with, is no column: it serves `SessionsMatchPassword` only.
* `attempts[e]` is `auth:lockout:<e>`: the count and whether the key has a time to live.
  `reset[t]` is `auth:reset:<t>`, whose user it holds while it is live.
* `issued` are the refresh tokens clients have been answered; `now` is the second in which
  tokens are signed; `request[w]` is a request in progress with its local variables.

Time has actions of its own: `Tick`, and the expiry of a counter that has a time to live, of a
reset token, of a session. They may come at any moment and in any order, which covers 15
minutes, an hour and 30 days without measuring them. `Fail` ends a handler at an await.

Abstractions:

* A password is its version. `comparePassword` answers yes or no as it may for a caller who
  knows the password of the version read, or not: `LoginFind` and `ChangeFind` have both outcomes.
* A refresh token is what its JWT contains: the session and the second it was signed in. Two
  that are signed for one session in one second are the same string, which is how the code's
  comparison sees them.
* `JwtAuthGuard` looks nothing up: whoever was given tokens is signed in (`SignedIn`),
  also after the session is gone. The expiry of access tokens, which only takes callers
  away, is left out.
* No code removes a user or writes `isActive`, so a lookup of a user that exists is one step
  with the call next to it, and the refusals of inactive users are left out, with the column `lastLoginAt`.
* A token that does not verify is refused by refresh, and takes logout to the deletion of all
  sessions (`LogoutAll`). A client may send logout any token that was ever issued, also one of another user: the
  code does not compare its owner with the caller (`LogoutOne`), and neither does the model.
* The id of a session is drawn when the request that will insert it is accepted, so that
  a bounded set of ids bounds the rows. UUIDs and reset tokens are never drawn twice.

### State and actions of `Paperwork`

Documents and audit rows share with the logistics services only the row of their shipment, and of that
only whether it is deleted and what a label shows of it; so they are a model of their own as well.

* `shipment[s]` is that row: `isDeleted`, and `prints`, the version of what a label shows, which
  `ShipmentChanges` raises. All shipments of the instance exist.
* `document[x]` is a row of `documents`; `object[k]` the size of the object at key `k`, or `Null`.
* `audit[e]` counts the audit rows of one kind: user, route, and the `:id` of the route.
* `request[w]` is a request in progress *or what it left running*: the label download has answered
  when `storeLabelAsync` starts, and the audit row is inserted after the answer. Neither is awaited by
  anybody, and a failure of either is only a line in the process's log.
* `failed` is history: whether any call has rejected. What holds only where no call fails says so with it.

A request that passes the guards (`CanActivate`, with the caller and the route as parameters) and finds its
shipment is a step, `UploadFind`, `LabelFind` or `RemoveFind`; refusals change nothing. `Answer` is the end of a
handler that returned: a request that `Mutates` goes on to its audit row, another is done.

Abstractions:

* A label is the version of the row it was made from: two labels differ when the row changed in between. Its
  size is that version; that of any upload is 0, so that a size tells whose it is.
* One UUID serves an upload for its row and its key, which are two in the code. `NewId` takes some unused
  one; which makes no difference. Ids are bounded, and a request starts only with one left.
* `fileName` tells rows that a label task created from uploaded ones. A user may upload a file with the
  name of a label; in the model its name is still "upload", since no code compares names.
* DocumentType keeps LABEL and OTHER: no code tells the other four apart. An unknown type, which the controller
  passes on and the database refuses, is kept.
* `OtherRoute` stands for the other routes as far as the interceptor goes, with what their `:id` may name (`Targets`).
  What their handlers write is in `Logistics` and `Auth`; here they answer in the step in which they are accepted.
* JwtAuthGuard is passed by whoever has an access token (see `Auth`). The throttler, which only refuses, is left out.

### Properties

#### Logistics

Invariants and action properties are in `Logistics`, each with the code it is about.

* `TrailMatchesStatus`: the last event that changed the status names the status of
  the row. It must survive stale writers, events logged late, GPS events in between.
* `MilestonesInOrder`: an event enters a status that the table allows from one the
  shipment held before that event. This is the strongest order the code gives under
  concurrency: a stale writer may take a shipment back, never past a milestone.
* `WarehouseMatchesTrail`: item exists iff exactly one reception is logged; out iff
  an outbound is logged, after the reception.
* `NoReturn` (an action property): let S be a set of statuses that the table does not lead out of, such as
  all after PENDING, or {CANCELLED}. Once the status of a shipment is in S, and so is what
  the requests that found it earlier would write, it never leaves S. Finding 1 shows that a status *is* left;
  this says by whom only: by requests that were validated before.
* `BypassedForGood`: a shipment that is past PENDING without an item, and that no receive has found
  before, gets no item and is never handed out. `PATCH :id/status` offers PENDING to PROCESSING, and this is what
  the refusals of receive and outbound make of it.
* `GpsStatusHeld`, `MessagesAreLogged`: what tracking stores and sends is true.
* `NoLateMessages`: once the request that logged a GPS event is over, no client is sent that event. So a
  subscriber can be sent an older position after a newer one only if the two requests overlapped.
* `TrackingUnique`; `DeletedQuiescent` (an action property: after deletion, once the
  requests that found the row are gone, nothing changes).
* `Journey`: `Logistics` implements `ShipmentJourney!Spec` under the mapping *held =
  DRAFT and the statuses of the change events, current = the status column*.
* With one request at a time: `StrictJourney` (it implements the stricter
  `ShipmentJourney!StrictSpec`, in which a status is entered from the current one
  only), `OutStaysOut`, `LastEventIsCurrent`, `AssignmentsFit`. All four are false
  with two concurrent requests.
* `PagesCover`: what the pages of a list tell when each is a query that ranks rows of one key as it likes. A row is on
  one page and on no other, *unless a page ends among the rows of its key* (`Parts`): such a row may be on two
  pages or on none, since the code sorts by one column and breaks no ties. No later page holds a lower key, every page but
  the last is full, the last is not empty, nothing follows it, and page 0 of the inventory is page 1.
* `ReadsDriftByOne`: one commit changes a list by one row, and the total and each count of the dashboard by at
  most one, no more than two of them. The places that its key leaves to a row (`FirstPlace` to `LastPlace`, one place where no
  other row has the key) move by one at most; within them, rows of one key may change places with no commit at all. The
  ten counts, or a page and its total, are queries of their own between which others commit; this bounds how far they
  can disagree.
* `RequestsShrink`: `Work` counts the steps a request may still take, a round of create for each draw that is left and
  two for each item of a bulk update. Every step of a request lowers it, failures included, and no step writes a row
  without lowering somebody's.
* `RequestsEnd` (liveness): every request is answered.

#### Auth

* `Life`: `Auth` implements `SessionLife!Spec` under the mapping of each row to its phase, user and
  token. A refresh or a login that is suspended while a logout, a password change or
  an expiry deletes its session must not bring it back; a step ends one session or those
  of one user.
* `AttemptsBounded`: the counter is checked before an attempt and added to after it, in two calls,
  so it passes the limit, but by less than the number of requests at a time.
* `PasswordsOnlyAdvance`: it names who may write the password of a user (`PasswordWriters`): a registration of that email
  while it has no user, a change by that user, a reset with a token that was sent to that user; and each
  writes once. Of two registrations of one email the second never takes the account, although both found no user.
* `ResetTokensSpent`: a reset token is deleted after the password is written, so two overlapping requests may both use
  it; but once it is gone, by use or by time, it stays gone and no request that has not found it live takes it up.
* `SessionsStayMatched`: where the open sessions of an account, and the logins past the comparison, have its present
  password, only a write of the password can change that. Together with finding 4: the sessions of an old
  password come from logins that overlapped its change, and from nothing else.
* Where no call fails (`CalmSpec`): `AccountsComplete` (a user has a wallet, or the
  registration about to create it), `SessionsAreUsable` (a session nobody works on holds a token that a
  client has been given, although two refreshes of one token both rotate it),
  `Unlocks` (liveness: a locked account is unlocked). All three are false when a call may
  fail. For the first two, nothing in the repository says otherwise; the third is finding 5.
* `SessionsMatchPassword`: violated, finding 4.

#### Paperwork

* `DocumentsHaveObjects`: the link getDocumentUrl signs leads to an object, and the row's size is of that kind of object.
* `UploadsKept`: an uploaded object is never overwritten; its row changes only when a label task takes over a
  document of type LABEL, which keeps name, type and author and from then on leads to the label.
* `OneLabelIsEnough`: two overlapping first downloads may create two label rows (nothing promises otherwise); but once there
  is a label and those tasks are over, no download adds another.
* `DeletedDocumentsSettle`: softDelete does not wait for uploads and label tasks that found the shipment; once
  they are over, its documents and its label object stay as they are.
* `AuditTruthful` and `UploadsAudited`: the audit log counts no upload that created no document, and, where no call
  fails, misses none; a deletion is logged only of a deleted shipment.
* `WritersAreAllowed`: the author of a document holds the permissions of the route that led to it, the user of any
  audit row those of the route logged, and a row without a user is of a public route. The guards have run
  awaits, and for labels a whole response, before the row is written, and the user has come along as a local variable. It says
  that guards and handlers enforce the table. It does not say that the table fits the description of the roles in
  `role-permissions.ts:7-12`, and it does not: see "Findings".
* `StoredLabelsRecorded`: as long as no call fails, a label object has a document of its shipment that leads to it, or a
  task that has still to see to one. Tasks that overlap, and uploads they take over, must not lose it.
* `LabelsStored` (liveness): a label that was sent is stored, unless a call fails.

Some consequences of the code that the model has and no promise of the repository is about: downloading a label
writes a document and is not logged, being a GET, although `core.module.ts:30` says "audit log all mutations"; drivers and
customers are said to view their own shipments (`role-permissions.ts:11-12`), but no route requires `SHIPMENTS_VIEW_OWN` or
`SHIPMENTS_VIEW_ASSIGNED`; a manager is said to "manage shipments" (`:9`), but holds neither `SHIPMENTS_DELETE` nor
`SHIPMENTS_BULK_UPDATE`; a list sorted by `status` or `updatedAt` is sorted by values that change between one page and the next,
while `PagesCover` is about pages of rows that do not change in between.

One behaviour of `Auth` has no property, because the repository promises nothing about it: a
logout that is repeated, so that its deletion rejects, ends all sessions of the caller, and a logout with the refresh
token of another user ends that session.

## Runs

The first seven runs use `MCLogistics`, the next four `MCAuth`, the last `MCPaperwork`. "States" are distinct states,
after symmetry where the run declares it.

| run | instance | states | what it shows |
|---|---|---|---|
| `concurrent` | 1 shipment, 2 requests at a time, create/status/delete/receive/outbound, logs up to 7 events | 127,986 | type, log, milestones, warehouse, deletion, no return, refinement of `ShipmentJourney` under interleaving |
| `tracking` | 1 shipment, 2 requests, 1 client, create/status/delete/gps/subscribe, logs up to 5 | 363,315 | GPS events and messages |
| `fleet` | 2 shipments, 2 numbers, 2 requests, create/delete/bulk/receive, 2 attempts, fairness | 142,654 | uniqueness, retries, bulk items of two shipments, work left, liveness, pages and counts |
| `sequential` | 1 shipment, 1 request at a time, every HTTP endpoint | 89,174 | the promises that hold without races |
| `final_status` | as `concurrent` | violated | finding 1 |
| `inventory` | as `sequential` | violated | finding 2 |
| `authors` | as `sequential` | violated | finding 3 |
| `auth` | 2 emails, 2 sessions, 2 requests at a time, register/login/refresh/logout, limit 2, failures | 195,579 | types, the bound on attempts, refinement of `SessionLife` |
| `passwords` | 1 email, 2 sessions, 1 reset token, 2 requests, all endpoints but logout, limit 1, 2 seconds, no failures | 315,790 | accounts, usable sessions, who writes passwords, reset tokens, passwords and the sessions they opened, unlocking |
| `relogin` | 1 email, 2 sessions, 2 requests, register/login/change, no failures | violated | finding 4 |
| `lockout` | 1 email, 1 request at a time, limit 5 as in the code, failures | violated | finding 5 |
| `documents` | 1 shipment, 2 ids, 2 requests or background tasks, an admin and a warehouse user, upload/label/remove/login/updateGps/findAll, failures, fairness | 495,822 | objects, uploads, labels and their rows, deletion, audit log, authors and permissions |

**Bounds.** `Workers` bounds the requests in flight: two are enough for every race of a
read with a write, since each handler holds what it read from one row. `MaxEvents` stops new
requests, never a request in progress, so every log is finished: a full life (created,
pending, received, outbound, in transit, delivered) is 6 events, and 7 leave room for a
stale write on top. In `tracking` five are enough for GPS updates around two status
changes. `MaxAttempts`, 10 in the code, is 2 in `fleet`, where two numbers collide as soon as
two shipments exist. `Endpoints` selects the operations, to keep
each run within the interleavings its question is about; `sequential` covers all of
them. The two shipments of `fleet` make lists of two rows whose keys are equal or not, and so pages that end between
rows of one key and between rows of two; how longer lists fall into pages is left to the theorem. Its bulk request asks
for one shipment twice and then for the other; any item may fail. Workers are symmetric in
`concurrent` and `tracking`: no property names one, and all of the properties there are safety properties. Deadlock is checked everywhere.

For `Auth`: two sessions are one that a request works on and one that it must leave alone, and in
`auth` two emails let them belong to one user or to two. The limit of failed logins is 2 or 1 there,
so that overlapping attempts pass it; the theorem is for every limit. `MaxVersion` lets a password be
changed once, and twice by overlapping requests: it stops new requests that write a password,
never one in progress. Passwords are checked with one email and one reset token: that no request writes the password
of another user is left to the theorem `PasswordsCorrect`. `MaxTime` 1 gives tokens of one second and of two; in `auth`, where two
tokens of a session are never compared by a property, it is 0. Emails, sessions and workers are symmetric in
`auth`, whose properties are safety properties that name none of them.

For `Paperwork`: two ids are two documents of one shipment, of which one may be uploaded as LABEL and taken over while a
task creates the other. `MaxPrints` 2 makes labels that differ.
`MaxAudits` 1 stops `OtherRoute` only, of which one audit row of a kind shows what the interceptor does. The routes are
chosen so that the guards have something to refuse: the admin may upload, delete and download labels, the warehouse user may
download labels only, neither may report a position (`updateGps`), and anybody may log in, which is logged without a user.
The theorem is for every assignment of roles and for all routes, `updateStatus` and `updateLocation` with their targets
among them. The properties relate documents to their own
shipment, so one shipment is enough for TLC; the theorems are for any number.

**Fairness.** `FairSpec` is weak fairness of each handler's next step: a database call returns or
throws, and the event loop resumes the handler, which stays enabled until it does.
Nothing is assumed about clients, arrivals or failures. The code has no locks, so weak
fairness is enough. In `Auth` it is assumed of each handler in the same way, and of the expiry
of a counter that has a time to live, which Redis sees to. `CalmSpec` adds that no call rejects
and the process does not stop: what is promised under it is promised of races alone.
`FairDocSpec` is weak fairness of the next step of each request or background task in progress: the event loop resumes
a task that nobody awaits like any other.

## Findings

1. `final_status`: `updateStatus` (`shipments.service.ts:270-307`) validates against a status
   it read earlier and writes without a condition. Two requests that read IN_TRANSIT,
   one to DELIVERED and one to RETURNED, both succeed; the error message of the same
   method calls these statuses "none (final state)" (`:280`).
2. `inventory`: `PATCH shipments/:id/status` moves a received shipment on without
   touching its item. `getInventory` (`warehouse.service.ts:117-147`), "list all active
   warehouse items" (`:115`), filters on `outboundAt: null` only and lists it after it was delivered.
3. `authors`: `@CurrentUser('id')` (`warehouse.controller.ts:48,86,97`,
   `tracking.controller.ts:67`) reads a field that `JwtStrategy.validate`
   (`jwt.strategy.ts:18-24`) never sets, so these events have no author and the log line
   "received in warehouse by user ${userId}" (`warehouse.service.ts:77`) names nobody.
4. `relogin`: `changePassword` writes the password and then deletes the sessions
   (`auth.service.ts:317-325`), "Invalidate all sessions (force re-login)" (`:322`). A login that compared
   the old password before (`:133`) inserts its session after the deletion (`:405`): a session opened with the old
   password lives on, as long as it is refreshed. `resetPassword` has the same order.
5. `lockout`: `incrementFailedAttempts` gives the counter a time to live in a second call, made only by
   the caller that INCR answered 1 (`auth.service.ts:474-479`). If that call fails, no later one makes up for it:
   four more failures lock the account, "Try again in ... minutes" (`:467`), and it stays locked.

Two more disagreements are not runs. The first: the role WAREHOUSE is described as "warehouse operations only"
(`role-permissions.ts:10`), and is given shipments to "view for context" (`:82`). The label download requires that permission only
(`shipments.controller.ts:219-220`) and creates, or rewrites, a document of the shipment in the caller's name
(`label.service.ts:246-265`), although uploading one requires `SHIPMENTS_EDIT`. Being a GET it is not logged either.
`WritersAreAllowed` lets the warehouse user be the author of a label because the table does, not because the description does.

The second: `SHIPMENT_STATUS_TRANSITIONS` in `shared/enums/shipment-status.enum.ts`, under the comment
"State machine: valid transitions", is a second table that no code reads. It contradicts VALID_TRANSITIONS, which the services use and
the model takes: it has neither DRAFT to CANCELLED nor PROCESSING to CANCELLED.

## Proofs

Every theorem is about `Spec`, with failures and every endpoint, or about `CalmSpec` where the table says so,
for arbitrary constants.

### Logistics

The assumptions are those of `ShipmentStore`: drivers and callers are users (`UsersAssumption`), `Null` is
no value of the code (`NullAssumption`), the bounds are of their types
(`BoundsAssumption`), and there are finitely many ids of shipments (`ShipmentsFinite`, of `Reads`: a
cardinality means nothing otherwise; only the theorems of `ReadsProofs` use it). The bounds are parameters like the
others, so nothing depends on their values.

| theorem | module |
|---|---|
| `TypeCorrect`: `Spec => []TypeOK` | `LogisticsProofs` |
| `TrailCorrect`: `Spec => []TrailMatchesStatus` | `LogisticsProofs` |
| `TrackingNumbersUnique`: `Spec => []TrackingUnique` | `LogisticsTheorems` |
| `MilestonesCorrect`: `Spec => []MilestonesInOrder` | `LogisticsTheorems` |
| `GpsCorrect`: `Spec => []GpsStatusHeld` | `LogisticsTheorems` |
| `WarehouseCorrect`: `Spec => []WarehouseMatchesTrail` | `LogisticsTheorems` |
| `DeletedStaysQuiet`: `Spec => DeletedQuiescent` | `LogisticsTheorems` |
| `JourneyCorrect`: `Spec => Journey` (the refinement) | `LogisticsTheorems` |
| `NoWayOut`: `Spec => NoReturn` | `LogisticsTheorems` |
| `BypassIsForGood`: `Spec => BypassedForGood` | `LogisticsTheorems` |
| `RequestsRunOut`: `Spec => RequestsShrink` | `LogisticsTheorems` |
| `PagesCorrect`: `Spec => []PagesCover` | `ReadsProofs` |
| `ReadsDrift`: `Spec => ReadsDriftByOne` | `ReadsProofs` |
| `MessagesCorrect`: `Spec => []MessagesAreLogged` | `MessageProofs` |
| `NothingLate`: `Spec => NoLateMessages` | `MessageProofs` |
| `OutCorrect`: `Spec => []OutStaysOut`, if `Workers = {x}` | `SequentialProofs` |
| `LastEventCorrect`: `Spec => []LastEventIsCurrent`, if `Workers = {x}` | `SequentialProofs` |
| `StrictJourneyCorrect`: `Spec => StrictJourney`, if `Workers = {x}` | `SequentialProofs` |
| `AssignmentsCorrect`: `Spec => AssignmentsFit`, if `Workers = {x}` | `SequentialProofs` |
| `FinalIsFinal`: `Spec => FinalStatusIsFinal`, if `Workers = {x}` | `SequentialProofs` |

**The inductive invariant** `IInv` is `TypeOK` and `TrailMatchesStatus` with what they need:

* `Shape` and `Facts`: what a handler's local variables say about the rows *now*, although
  it read them earlier: the transition it is about to write is in the table from the status it
  read, that status is one the shipment has held, its shipment exists, its item exists.
  These survive other handlers because no handler removes a row or an event. That is the
  reason why the code is as correct as it is without locks, and why it is no more:
  *held* cannot be strengthened to *current*.
* `CreatesAlone`: while a create has not inserted, no other handler has its id.
* `NothingBeforeInsert`: an id not in the table has no events and no item.

**The argument.** `StepOutcome` shows once, action by action, that a step of any handler
has one of six effects on the rows (`RowStep`: nothing, `Inserts`, `Commits`, `Logs`,
`Touches`, `Moves`) and leaves a handler that satisfies `Shape` and whose shipment is
accounted for (`Origin`). `RowsGrow` shows that `Facts` of the others survive. Each further theorem
then splits on six effects, not on some thirty actions.

**What is over stays over.** `NoReturn` and `BypassedForGood` quantify over what a request may still write
(`Entering`). `EnteringAllowed` is the step they share: a request that a step lets enter a status has just read one from
which the table allows it, so if the status of the row is in S, what it will write is in S; `WritesEntering`
says that a row gets no status but such a one, and `OthersStay` that the other requests are as before.

**Work.** `RequestsRunOut` is the safety half of `RequestsEnd`: with it, a request that is resumed again and again
ends, and what TLC adds is that it is. The lemmas (`DrawWork`, `BulkWork`, `WorkShrinks`) show that `Work` is a natural number
and goes down, draw by draw and item by item, from the bound on `attempts` and the length of `todo`.

**Lists** (`ReadsProofs`) are finite sets with a key for each row and any ranking that agrees with the keys. `PlaceOnto` shows
that the places of the rows are exactly 1 to their number, `PlaceOfKey` that the place of a row lies in the span its key leaves
it, `Ceiling` and `PageBounds` that the intervals of the pages tile the places. Hence a row whose span no page ends in is on one
page in whatever ranking (`RowOnOnePage`), pages follow the keys (`PageOrder`), none is empty (`PageSize`), none follows
(`PageAfterLast`). For the drift, a step changes the row of one shipment (`OneRowMoves`, from the six effects), and sets that agree
but for one element have nearly the same size (`NearSets`), which both ends of a span are.

**Messages** need an invariant about the requests between insert and emit (`EmitInv`): the event such a request is about to
send is in the log as it will send it (`Reported`), and nobody else is about to send it or has sent it
(`OwnEvent`). The first survives since logs only grow, the second since an insert takes a position no one has.

**One request at a time**, *held* can be strengthened to *current*: what the only handler has read
is still so (`Fresh`). Hence every step that logs anything either obeys the table from the status of the row or
repeats that status (`StrictStep`), and a step that logs nothing changes no status, as the log determines it
(`StatusNeedsEvent`). `FinalIsFinal` follows, as the table has no transition from a final status: what the run `final_status`
refutes for two requests at a time holds for one, so the race is all there is to finding 1. The theorems assume that
`Workers` has one element, and nothing else is bounded; failures are included.

### Auth

The assumptions are those of `AuthStore`: the limit is positive, the bounds are natural numbers
and the requests at a time finitely many (`AuthAssumption`); `Null` is no value of the code
(`AuthNullAssumption`).

| theorem | module |
|---|---|
| `AuthTypeCorrect`: `Spec => []TypeOK` | `AuthProofs` |
| `LifeCorrect`: `Spec => Life` (the refinement) | `AuthProofs` |
| `PasswordsCorrect`: `Spec => PasswordsOnlyAdvance` | `AuthTheorems` |
| `AttemptsCorrect`: `Spec => []AttemptsBounded` | `AuthTheorems` |
| `ResetTokensCorrect`: `Spec => ResetTokensSpent` | `AuthTheorems` |
| `SessionsMatched`: `Spec => SessionsStayMatched` | `AuthTheorems` |
| `AccountsCorrect`: `CalmSpec => []AccountsComplete` | `AuthTheorems` |
| `SessionsCorrect`: `CalmSpec => []SessionsAreUsable` | `AuthTheorems` |
| `ReloginForced`: `CalmSpec => []SessionsMatchPassword`, if `Workers = {x}` | `AuthTheorems` |

**The inductive invariant** `IInv` is `TypeOK` with: what the local variables of a request say about
the rows (`Shape`, `Facts`: the session it works on has been inserted, or not yet); the id of
a session that is not inserted yet belongs to one request (`Alone`), which is why a
suspended login can insert without looking; and rows, answered tokens and reset tokens name sessions
and users that exist (`Rows`, `Issued`, `Sent`). As in `Logistics`, the steps are sorted once into a few
effects on the sessions (`RowStep`, `NextOutcome`), and the theorems split on those.

**On top of it.** `AttemptsCorrect` needs more than the counter: `Attempted` bounds the counter *plus the
attempts under way*, a sum that an attempt enters when it passes the check and that it keeps
when it moves from one term to the other. `PasswordsCorrect` needs `UsersFound` (a request that
writes a password found its user) and `TokensOwned` (the reset token it was let in with was sent to that user, and stays
that user's when it is gone); the unique column is what it rests on for registrations. `AccountsCorrect` needs `UsersFound`
as well, `SessionsCorrect` needs `TokensServed` (the token
of an open session has been answered, or a request on that session is about to answer or replace it).

**Passwords and sessions.** `SessionsMatched` is about any number of requests: an open session was open before with
the same user and version, or is opened now by a request past the comparison (`OpenBefore`); such a request was past it
before, or has just compared with the version the account has (`ComparedBefore`). `ReloginForced` builds on it for one
request at a time, where finding 4 cannot happen: a password that is written belongs to a user without sessions, or to
a request that will delete them (`Dropping`), and nothing comes in between. It needs `Enrolled`: sessions, and
requests past the comparison, are of users that are registered. It is about `CalmSpec`, because a failure between the
write and the deletion leaves the sessions, with one request as with two.

### Paperwork

The assumptions are those of `Access` (roles are in the table, `Null` is no user) and `DocumentStore` (finitely
many ids and requests; the routes are those of the controllers).

| theorem (all in `PaperworkProofs`) | |
|---|---|
| `DocTypeCorrect` | `DocSpec => []TypeOK` |
| `DocumentsCorrect` | `DocSpec => []DocumentsHaveObjects` |
| `WritersCorrect` | `DocSpec => []WritersAreAllowed` |
| `AuditCorrect` | `DocSpec => []AuditTruthful` |
| `AuditComplete` | `DocSpec => []UploadsAudited` |
| `UploadsStay` | `DocSpec => UploadsKept` |
| `OneLabelCorrect` | `DocSpec => OneLabelIsEnough` |
| `StoredLabelsCorrect` | `DocSpec => []StoredLabelsRecorded` |
| `DeletedSettle` | `DocSpec => DeletedDocumentsSettle` |

**The inductive invariant** `IInv` is `TypeOK` with `Shape` (which local variables a request has at each
await, and that its caller passed the guards), `Facts` (what they say of the rows now: the object it put is there, the label
it found exists, the shipment it deleted is deleted), `Alone` (the id of a row not yet
inserted belongs to one request), `Documented` (rows and their objects) and `Logged` (audit rows, users and routes). The steps
are sorted once into a few effects on the rows (`RowStep`, `Outcome`); the theorems split on those.

**The audit theorems** count: `Tally` says that rows logged, plus requests about to log, are at most the documents a user has
uploaded, and equal to them where no call has failed. An upload adds one to both sides in one step,
`AuditWrite` moves one from one term to the other, a failure takes one from the left; the lemmas about it are
about cardinalities only.

**Stored labels.** `StoredLabelsRecorded` is inductive on top of `IInv`: a row that leads to the label of its shipment does
so ever after (`RecordedStays`, from `UploadsKeptStep`), a task that looks for a row finds one, which it points to the label, or
none, and creates it; no other step touches a label object or a task in progress (`FindableStays`).

**Model-checked only.** `RequestsEnd`, `Unlocks` and `LabelsStored`: liveness under fairness is beyond the prover. The
safety half of the first is `RequestsRunOut`, that of the third `StoredLabelsCorrect`. The refuted properties are
refuted by TLC; that two of them hold of one request at a time is proved (`FinalIsFinal`, `ReloginForced`).

## Not modelled, and the plan

Every safety property of the passing runs is proved. What is left to model is little: `createdAt`, by which
timelines are sorted, and the routes `getReports`, `scan`, `getDriver` and `listDrivers`, which only read and of which
nothing is promised. What is left to prove is nothing that a run states; further theorems would be about the hazards that
no property covers.

Left out for good: the empty CRM, wallet, notifications and jobs modules; the mail, SMS, maps,
OCR and payments stubs, which nothing calls; the notifications gateway, which emits to rooms nothing
joins; the timeout interceptor, which nothing registers; filters, pipes, middleware and
configuration, which only format or wire; the seed and the Postman generator.

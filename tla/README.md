# RentFlowAPI in TLA+

RentFlowAPI is a NestJS server with a MySQL database (through Prisma) for
people who let properties: properties, tenants, contracts, payments,
maintenance tickets, leads from a public site, a dashboard. This directory
holds TLA+ models of it, the TLC runs that check them and TLAPS proofs.
`PROJECT.json` lists components, runs, findings, hazards and theorems, and says
for every definition which lines of the code it models.

## 1. The system

### How it executes

Node runs one thread, but every handler is an `async` function that yields at
each `await` of a database call. Handlers of different requests interleave at
these points, and so do two server processes on one database. Almost no
handler takes a lock: the usual shape is *find, check, write by id*, where the
row may change between the find and the write. Only a few writes are
transactions (`$transaction`), and a few unique keys catch duplicates.
Nothing runs by a timer.

### Components

| component | state it keeps | operations | talks to | what is hard, and what must hold |
|---|---|---|---|---|
| contracts | table `contracts` (code, owner, property, tenant, dates, `estado`, `isActive`) | POST, PATCH, DELETE, lists | reads `properties` and `tenants`, writes `properties.estado`; notifications | check-then-insert of the active contract and of the code; PATCH and DELETE on a stale row; one active contract per property; a cancelled contract is final; dates in order; the property's `estado` agrees |
| properties | table `properties` (`estado`, `publicado`, `publicadoEn`, `imagenPrincipal`, `isActive`) | POST, PATCH, DELETE, lists | `estado` is also written by contracts, `imagenPrincipal` by uploads | removal ignores contracts; `publicadoEn` decided from a stale `publicado` |
| tenants | table `tenants` | POST, PATCH, DELETE, list | reads `properties` | unique e-mail and DNI per owner by check and by key |
| payments | table `payments`, unique (contract, period) | POST, PATCH, DELETE, overview, list | copies tenant and property from the contract | duplicate period; PAGADO needs `fechaPago`; totals from stale amounts; contract cancelled meanwhile |
| auth | table `refresh_tokens` | register, login, refresh, logout | reads and writes `users` | rotation of one token twice; logout racing refresh; housekeeping; failure between revoke and issue |
| users | table `users` (`role`, `organizationId`, `linkedTenantId`, `isActive`, `avatar`) | profile, activate, deactivate, change role, list | auth reads it on every request | a caller's role changes during the caller's request; deactivation racing a refresh |
| maintenance | table `maintenance_tickets` | POST, PATCH, DELETE, read, list, overview | properties, tenants, users' roles; notifications | closed tickets are final; RESUELTO has `fechaResolucion`; three filters by role must show one set of tickets |
| leads, public site | table `leads`; published properties | public form, POST, PATCH, DELETE, lists | reads `properties`; notifications | the account of a lead is found from a property that changes meanwhile |
| uploads | image files and `property_images` | upload, delete, avatar | `properties.imagenPrincipal`, `users.avatar` | file, row and main picture written apart; each may fail |
| notifications | tables `notifications`, `activity` | notify, logActivity, mark read, lists; socket gateway | called by the others without `await` | late, reordered or lost; never untrue |
| dashboard | none | six reports over all tables | — | figures from several queries; months at the 29th–31st and at the turn of a year; rates |
| database schema, seed | all tables of a demo account | `prisma/seed.ts`, with or without `--reset` | the API may run beside it | nine tables without a transaction; runs after a failure; `setMonth` |
| common | none | owner scope, roles, pagination, filters, interceptors | — | which rows a caller reaches, which page |
| bootstrap, config, health | none | wiring, validation | — | which bodies a handler sees |

The hazards, each at its line and with the properties that cover it, are in
`PROJECT.json`.

## 2. Modules

| module | what it is |
|---|---|
| `Leases` | the tables properties, tenants, contracts and the handlers that change them |
| `Tenancies` | what contracts promise about a property, with no tables or handlers: the abstract specification |
| `LeaseHistory` | `Leases` with two history variables: the contracts and properties that have been through an overlap which the code does not guard against; EXTENDS `Leases` |
| `Payments` | the table payments and its handlers, beside those of `Leases`, which it EXTENDS |
| `Sessions` | the table refresh_tokens, the handlers of auth, the activation of users |
| `Rotation` | what auth promises about sessions, with no tables, handlers or users: a session is a line of keys; the abstract specification |
| `Roles` | roles, the guard, `resolveOwnerId`: which account a caller's queries are filtered by |
| `Tickets` | maintenance tickets, the roles of their callers, notices and activity entries; EXTENDS `Roles` |
| `Catalogue` | what a property shows to visitors; the requests in flight that `Images` and `Leads` share; EXTENDS `Roles` |
| `Images` | pictures and avatars: files, rows, main picture; EXTENDS `Catalogue` |
| `Leads` | leads and the public form; EXTENDS `Catalogue` |
| `Site` | `Catalogue`, `Images` and `Leads` together |
| `Calendar` | JavaScript dates: months of different lengths, `setMonth` and its overflow |
| `Lists` | the filters and pages of every list |
| `Dashboard` | the six reports and the overviews of payments, tickets and leads |
| `Seed` | the seed as a program that fails and runs again, beside an API that writes |
| `Demo` | the reports and lists over every database that `Seed` reaches; composes `Seed`, `Dashboard` and `Lists` |
| `MCLeases`, `MCLeaseHistory`, `MCPayments`, `MCSessions`, `MCTickets`, `MCSite`, `MCDemo` | the request bodies and days of each TLC run |
| `LeasesProofs`, `LeaseHistoryProofs`, `PaymentsProofs`, `SessionsProofs`, `TicketsProofs`, `SiteProofs`, `SeedProofs`, `DemoProofs` | the theorems, see section 4 |

In every module of handlers one action is one database call (for a
transaction: its commit; for a picture: one file) and the code that follows up
to the next await. `req[r]` is the handler serving request `r`: `pc` names the
await it is at, the other fields are its local variables. A call that fails
makes the handler throw (`Fail`); what it wrote before stays.

### Leases

State. `properties`, `tenants`, `contracts` map ids to rows (or `Null`: no row
yet). Rows keep the columns some check or property reads; amounts, texts and
timestamps are left out. `Arrive` is the call of a client up to the handler's
first wait; a request that is turned away at once leaves everything unchanged
and has no action. `Proceed` is the database answering; `Fail` is a call that
fails (lost connection, deadlock victim): the handler throws, the open
transaction is rolled back.

| code | actions |
|---|---|
| `ContractsService.create`, `ContractRepository.create` | `CreateStart`, `CreateFindProperty` / `CreateFindTenant` (the two calls of `Promise.all` answer in either order), `CreateCount`, `CreateCode` (the last round of `generateUniqueCode`), `CreateInsert` or `CreateRejected` (unique key) |
| `ContractsService.update`, `ContractRepository.update` | `PatchRead`, `PatchFindProperty`, `PatchFindTenant`, `PatchWrite` |
| `ContractsService.remove`, `ContractRepository.cancel` | `CancelRead`, `CancelBegin` (the transaction's snapshot: MySQL's default is REPEATABLE READ), `CancelCommit` |
| `PropertiesService.create/update/remove` | `CreateProperty`, `PropertyRead`, `PropertyWrite`, `PropertyRemove` |
| `TenantsService.create/remove` | `CreateTenant`, `TenantRead`, `TenantRemove` |

Three places where the model follows the code and not what one would expect:
PATCH of a contract looks up `propertyId` and `tenantId` but never writes them;
a field of a PATCH body may be `null` (`PartialType` makes it optional and
`@IsOptional` accepts null), which the check takes as absent and the write as
`new Date(null)`; PATCH can set `estado` CANCELADO without `isActive = false`
and without freeing the property.

`LeaseHistory` adds, and no action reads, `skewed` (contracts two PATCHes of
whose dates were in flight together, one of them of one date only, or that were
sent a null date) and `crossed` (properties with two POSTs in flight together, or
two DELETEs of one contract, or with an `estado` of theirs or of a contract set
by hand). Both are told from the handlers in flight (`Skewing`, `Crossing`).
Everything else that can interleave is left in.

### Payments

State: `payments` (rows) and `pay[r]` (the handlers of `PaymentsService`, as
`req` for the others). `PayNext` lets either a handler of `Leases` or one of
payments move, so contracts are created, patched and cancelled while payments
are. Of the amounts only the origin is kept: none (`Null`), `given` by the
client, or `computed` by the server; whether it computes the right sum is not
said here. The overview and the lists are in `Dashboard` and `Lists`.

| code | actions |
|---|---|
| `PaymentsService.create` | `PayCreateStart`, `PayFindContract`, `PayExists` (409, 400), `PayInsert` or `PayRejected` (unique key) |
| `PaymentsService.update` | `PayPatchRead` (what to write is decided here), `PayWrite` |
| `PaymentsService.remove` | `PayRemoveRead`, `PaySoftDelete` |

`PaymentsService.create` does not look at the contract's `estado`: a payment
can be made for a contract that is VENCIDO, or CANCELADO by a PATCH.

### Sessions

State: `active[u]` (a user's `isActive`), `rows[t]` (the row of token `t`),
`sub[t]` (whom `t` was signed for), `expired`, and `req[r]`, the handler of
request `r` as in the other modules. A token and its hash are one value; a new
token is always one not signed before (its payload holds a random UUID). On
the other side of the wire, `held` is the set of tokens that some client has
received. Four history variables, read by no action, serve the properties:
`parent[t]` (the token `t` was exchanged for), `session[t]` (the token that the
session of `t` began with), `presented` and `loggedOut`.

| code | actions |
|---|---|
| `register` | `RegisterRead`, `RegisterCreate` or `RegisterRejected` (unique e-mail) |
| `login` | `LoginRead` |
| `storeRefreshToken`, then the answer | `Store`, `Clean` |
| `JwtRefreshStrategy`, `refresh` | `RefreshStart`, `RefreshFind`, `RefreshExpire`, `RefreshUser`, `RefreshRevoke`, `RefreshGone` (the row to revoke is no longer there) |
| `JwtStrategy`, `logout` | `LogoutStart`, `LogoutFind`, `LogoutRevoke` |
| `UsersService.activate`, `deactivate` | `SetActive` |
| time; a failed call; a client that goes away | `Expire`; `Fail`; `HangUp` |

`HangUp` is the lost answer: the handler goes on, but what it issues reaches
nobody, and the client may try again with the old token. It also stands for
the `Promise.all` of `login`, which answers 500 when the update of
`ultimoLogin` fails while `storeRefreshToken` is still under way.

`Expire` ends a token and its row at one instant, where the code computes the
two times apart (`exp` by the library, `expiresAt` by `parseDurationToMs`);
they agree within a second for the durations that function parses (`7d`, `15m`).
Access tokens are not stored; `LogoutStart` only asks that the user has
received some pair, and lets it send any token, that of another user included.

Under `Spec` clients do anything. Under `PatientSpec` no client waits for two
refreshes of one token (`OneRefreshes`): the front end attaches one token pair
and queues requests during a refresh ("Silent token refresh on 401 (with queue
for concurrent requests)", README of the repository, "Connecting a Frontend").
It may have given up on any number of earlier ones, and may log out at any time,
also during a refresh.

### Tickets

State: `tickets` (rows), `users` (role, organization, linked tenant),
`properties` and `tenants` (the active ones), `unread`, `read` and `activity`
(what the notification tables hold) and `tasks` (calls of `notify` and
`logActivity` that nobody waits for). `req[r].by` is the caller, whose role
`JwtStrategy` reads when the request arrives; a later change of role does not
reach a handler that is under way.

| code | actions |
|---|---|
| `MaintenanceService.create` | `CreateStart`, `CreateProperty`, `CreateTenant`, `CreateInsert` |
| `MaintenanceService.update` | `UpdateStart`, `Find`, `UpdateWrite` |
| `MaintenanceService.remove` | `RemoveStart`, `Find`, `RemoveWrite` |
| `UsersService.changeRole` | `RoleStart`, `RoleWrite` |
| `AuthService.register` | `Register`: a user more, with the role of the body (`NewRoles`) or CLIENTE |
| `NotificationsService` | `Deliver` or `Drop` of a task, `MarkAsRead`, `MarkAllAsRead` |
| removal of a property or tenant; a failed call | `RemoveProperty`, `RemoveTenant`; `Fail` |
| list, read, overview | operators `Listed`, `CanRead`, `Overview` |

`tasks` are delivered in any order, which is how two promises nobody awaits
behave. They are a set: equal entries count once.

### Catalogue, Images, Leads and Site

State: `props` (rows), `gallery`, `files`, `used` (file names are random and
never drawn twice), `avatar`, `leads`, `told` (notices about leads) and `req`,
which all three share. Three history variables, read by no action, serve the
properties: `overlapped` (the properties and users two of whose handlers have
been in flight at once), `failed` (those one of whose handlers failed) and
`lost` (the pictures that a DELETE has set out to remove).

| code | actions |
|---|---|
| `PropertiesService.create/update/remove` | `PropertyCreate`, `PropertyPatchStart`, `PropertyRemoveStart`, `PropertyFind`, `PropertyWrite`, `PropertyRemove` |
| `UploadsService.uploadPropertyImages` | `UploadStart`, `UploadFind`, `Save` or `SaveFail` (`Promise.all` over the files), `SaveRows` (one transaction), `SaveMain` |
| `UploadsService.deletePropertyImage` | `DeleteStart`, `DeleteFind`, `Unlink` (an error is only logged), `DeleteRow`, `DeleteRemaining`, `DeleteMain` |
| `UploadsService.uploadAvatar`, `UsersService.updateProfile` | `AvatarStart`, `AvatarFind`, `AvatarUnlink`, `AvatarSave`, `AvatarWrite`; `ProfileWrite` |
| `PublicLeadsService`, `LeadsService.create` | `FormStart`, `FormRead` (resolveOwnerId); `LeadStart`, `LeadProperty`, `LeadInsert` |
| `LeadsService.update/remove` | `LeadPatchStart`, `LeadFind`, `LeadMove`, `LeadWrite`; `LeadRemoveStart`, `LeadFindRemove`, `LeadRemove` |
| a failed call or file operation | `PropertyFail`, `SaveFail`, `ImageFail`, `LeadFail` |

Where the code picks "the first" or "the latest" picture the model picks any.

### Seed, Dashboard, Lists and Demo

`Seed` is the script of `prisma/seed.ts`: `seed.pc` is its next table and
`seed.todo` the rows of a `Promise.all` still to come. Its rows are those of
the script (`PropertyOf`, `ContractOf`, `PaymentOf` and so on), with the columns
that a report or a filter reads. `Fail` is an error or a kill between any two
writes; `Start` runs it again, with `--reset` or without; `Tick` lets days pass;
`ApiStep` is what the API writes meanwhile. `Dashboard` and `Lists` are
operators, no machines. `ApiStep` includes POST and PATCH of payments of any
`fechaPago` (`PayDates`), with a method or without. A report takes a function `at` from its queries to the
databases they see: queries of one `Promise.all` may see different ones, those
of one `$transaction` the same.

`Slice` says which of the script's twelve properties, fifteen tenants and ten
contracts are seeded. Amounts are in tens of pesos and rates in hundredths of a
percent, rounded as `toFixed(2)` would; the order of breakdowns is left out.
Dates are days and no time is midnight (`Calendar`): a PATCH whose `fechaPago`
is a bare 31 December, hence midnight UTC, is left out.

Lists are sorted by one column, `orderBy: { [sortBy]: direction }`, which rows
may share, and MySQL promises no order among those. `Sorted` therefore gives
for each place of a list the set of rows that may be there (`Places`): a row
shares the places after those `Before` it with its `Ties`.

### Tenancies

`holder[p]` is the contract property `p` is let under, `signed` the contracts
that exist. `Let`, `Record` and `End` are all that can happen. `Leases` maps
`holder[p]` to the contract that `countActiveByProperty` would count, `signed`
to the rows of `contracts`. The refinement says more than
`AtMostOneActive`: a contract that stopped counting never counts again.

### Rotation

The keys are the tokens that some client has received: `session[k]` is the key
that the session of `k` began with, `usable` the keys a refresh would accept,
`used` those sent to refresh or logout, `exchanged` those exchanged for another.
`Open`, `Use`, `Revoke`, `Exchange` and `Expire` are all that can happen. An
exchange follows the revocation of its key, which may have been the doing of the
refresh itself or of a logout that overtook it. Storing a row, deleting rows,
activating users and losing answers change nothing that a client can tell, so
the refinement is also what makes those steps harmless: no failure,
housekeeping, logout or retry brings back a token or exchanges one twice.

## 3. Runs

Deadlock is checked in `sessions` (a user can always be activated or
deactivated, and `TokensLeft` lets a handler begin only if a token is left for
it) and in `demo` (the script can always be started again). In the others it is
not: ids of rows are never reused and arrivals are counted, so a finite
instance stops when they are used up. `EveryRequestAnswered` says that
`Leases` never stops inside a handler.

| run | question | bounds |
|---|---|---|
| `lease_accounts` | do types, accounts and identity survive interleaving? | 2 accounts, 2 properties, 2 tenants, 2 contracts, 2 requests at once, 3 codes; a PATCH that names the other account's tenant; 650,000 states |
| `lease_no_overlap` | one active contract per property, the refinement, and nothing resumed | 2 properties, 3 contracts, 2 requests at once; no two creations for one property overlap; patches only end contracts; 510,000 states |
| `lease_overlaps` | which overlaps do dates, `estado` of properties and finality of a cancellation survive? | 1 property, 2 contracts, 2 requests at once, with no restriction on how they overlap; dates given one at a time, both and null; a POST that is VENCIDO, an `estado` of each table set by hand; 960,000 states |
| `lease_serial` | is every request answered? | 1 request, 2 contracts, every `estado` of contract and property; with fairness; 380,000 states |
| `payments_together` | copies of the contract's columns, paid payments complete, finality and given amounts, under interleaving | 2 payment requests and 1 contract request, 2 payments of one period, 1 contract, 2 tenants (a PATCH of the contract names the other); amounts given, absent and null, no null date; 860,000 states |
| `sessions` | rotation, logout, sessions of one user beside each other, and the refinement | 2 users, 3 tokens of which one expires (`MaxExpired`), 2 requests at once; a token has one refresh that is waited for; 550,000 states |
| `tickets` | dates, finality, accounts, truth of notices, agreement of the views | an ADMIN, a SUPER_ADMIN, an INQUILINO and one user who may register as INQUILINO, SUPER_ADMIN or with no role; 2 properties and tenants of two accounts, 1 ticket, 4 requests, 2 at once; 1,000,000 states |
| `site` | publication, pictures, avatars and leads under interleaving and failure | 2 accounts, 2 properties (one created during the run), 3 pictures, 1 lead, 3 requests, all at once |
| `demo` | is a finished seed whole? do reports and lists agree, with one another and with the payments? | properties, tenants and contracts 1, 9 and 10 of the script; 28 December and 31 January; 1 write of the API anywhere, payments dated 31 December (a day to come on the first, of the year before on the second) among them; pages of 5 and of 100 payments; 32,000 states |
| `lease_double_active`, `lease_late_patch`, `seed_month_end` | statements of the repository that the code does not keep, see below | as small as shows it |

The bounds are enough for the cases in question: two handlers are what each
race needs (a check and the write that invalidates it), two contracts what a
collision needs, three codes let both handlers draw the same one and still have
another left, and a third contract lets a property be let, freed and let again.
Three tokens are a token and two that could both be its successors, and which of
them expires, and when, is free. Four
requests bring a ticket from creation through a resolution and a reopening to a
closing, or change a role, use it and change it again. Three requests and three
pictures allow an upload of two pictures with two overlapping DELETEs. The demo's
slice holds a contract near its end, a recent one and one that is over; the
days lie in two years, and one of them is a day that some months before lack.
`Codes` stand for the 32^5 codes of a
year. Dates are small integers with 0 the epoch in `Leases` and `Payments`, and
days in `Calendar`.

Symmetry is declared over ids of contracts, requests and codes in
`lease_accounts`, `lease_overlaps` and `lease_no_overlap`, over payments and their requests in
`payments_together`, over users, tokens and requests in `sessions`, over
requests in `tickets`, and over pictures and requests in `site`, none of which
has a liveness property; nothing in the model or in the properties of those
runs tells such ids apart (the `CHOOSE` of `Holder` chooses from a singleton as
long as `AtMostOneActive`, checked in the same run, holds).

Fairness (`LiveSpec` of `Leases`): weak fairness of `Proceed(r)`, for each
request apart, because the database answers each call and Node resumes each
continuation; `Fail` is never forced. For `generateUniqueCode` this also says
that a free code is drawn in the end. The liveness run keeps more codes than
contracts. It is the only loop that waits for a condition: the handlers of the
other modules are straight lines of calls, whose termination is not a question,
and the tasks nobody waits for may be lost, so no liveness is claimed of them.

Each property of a passing run has a mutant: a definition with a plausible bug
(they stand before the definition they replace, marked `Mutant`), under which
TLC finds the property violated.

### What the runs found

Each `violation` run checks one statement of the repository against the code.

- `lease_double_active`: two overlapping POST /contracts leave two active
  contracts on a property; a test expects a 409.
- `lease_late_patch`: a PATCH that read a contract before a DELETE cancelled it
  writes its dates to the cancelled contract, where the API's documentation has
  an error 400, "No se puede modificar un contrato cancelado".
- `seed_month_end`: from the 29th to the 31st `setMonth` overflows into the next
  month, two payments of a contract get one period and the unique key refuses
  all of them, so the seed stops with half a demo. "Generates a full payment
  history for a contract".

### What was met while modelling

Each of these is what the code does; the runs that would meet it restrict their
inputs as said.

*Contracts.* PATCH does not count active contracts: PATCH to VENCIDO, POST,
PATCH to ACTIVO leaves two, with no overlap; so may a contract created as
PROXIMO_A_VENCER. DELETE of a contract that has ended frees its
property although it is let under another one, and so does the second of two
overlapping DELETEs of one contract if the property has been let again in
between. Two overlapping
PATCHes, one of `fechaInicio` and one of `fechaFin`, are each checked against the
other date as it was, and leave the dates out of order. `{fechaFin: null}` passes
the check and stores 1970-01-01. `LeaseHistory` marks the contracts and
properties that have been through one of these; `DatesOrdered` and
`OccupancyAgrees` speak of the others, under every other overlap. A PATCH that
read its row before a DELETE writes to a cancelled contract, so
`CancelledStaysSettled` begins when the last of those has ended (`Settled`).
Removal of a property or a tenant ignores its contracts.

*Payments.* `{fechaPago: null}` stores 1970-01-01, with which a payment may be
PAGADO although no date was given; `payments_together` sends no null date. A PATCH
in flight writes to a payment that a DELETE has cancelled
(`CancelledPaymentsSettle` begins when the last of those has ended), and one that
read a payment without a `mora` or total writes the one it computed over one that
another PATCH has brought in between: `GivenAmountsSettle` says that nothing else
replaces what the client gave.

*Sessions.* `OneSuccessor`, `OneKeyPerSession` and the refinement need
`PatientSpec`: under `Spec` two overlapping refreshes of one token both issue a
pair. Logout does not stop a refresh in flight: `refresh` finds the token,
`logout` revokes it and answers, and `refresh` revokes it again and issues a pair
(auth.service.ts:129-162), so the client is left with a live successor of a token
it has logged out. The run has that overlap. `LogoutSettles` says what is kept:
once the refreshes that had found the token have ended, nothing more is signed or
delivered for it. A logout with an earlier token of the session, one exchanged
already, is answered like any other and leaves the session as it is. A refresh
that fails between revoking the old token and the answer ends the session.
Deactivation revokes no token; they work again after a reactivation.

*Roles.* POST /auth/register is public, accepts any `role` and stores it
(register.dto.ts:54-57, auth.service.ts:62-70), so the number of users with a
role can grow at any time and no property bounds it: `Register` is part of the
interleavings of `tickets`.

*Tickets.* A PATCH that read the ticket open can reopen it after another has
closed it, which is why `SettledStaysClosed` speaks of handlers that began
later. An INQUILINO passes the guard of POST /maintenance, whose summary says
"[todos los roles]" (maintenance.controller.ts:50), but is taken for an account
of its own, and unless that owns properties (as after a change of role) no
ticket of its can be created. An
INQUILINO without a linked tenant is refused the list but can read tickets
without a tenant of its account.

*Site.* Two overlapping PATCHes can leave a property published without a date.
Two overlapping DELETEs can leave a deleted picture the main one. Deleting any
picture replaces `imagenPrincipal`, also one the client had chosen. POST of an
avatar removes the old file before it saves the new one. The `vendedorId` of a
lead is not checked.

*Reports.* The last year's income ends at midnight of 31 December and leaves
that day out; this year's has no end, so that a payment dated in a later month
counts already (`RevenueAgrees` says both). A PAGADO without a method is in no
row of the report by method (`FiguresAgree`). Figures that are shown together but
come from several queries of one `Promise.all` may disagree for a moment, and no
property says otherwise: `ReportsAgree` is about queries that see one state. These
are the four counts of properties in the overview (`occupancyRate`, "(0-100)" in
dashboard.dto.ts:10, can exceed 100), the total and OCUPADA of each type
(dashboard.service.ts:305-337; `disponibles`, a difference, can be negative), and
`urgentes` beside the total of tickets (470, 533). "Por vencer" leaves out
contracts already marked PROXIMO_A_VENCER and counts ACTIVO ones that have ended.
`ticketsUrgentes` counts closed tickets. Where a page ends between rows of one
sort key, a client may see one of them on both pages and another on none, as
MySQL may order them anew for each request; `PagesAreWhole` says what does not
depend on that order.

*Seed.* A seed that failed leaves the administrator, so that a run without
`--reset` only says that the demo exists. Its comments give figures for the
current and the last month, and "4 pagos pendientes" (seed.ts:609), that are not
those of its data. The README of the repository (lines 67-73) announces 8
properties, 10 tenants, 5 contracts and about 18 payments; `seed.ts` creates 12,
15, 10 and a full history each, which is what `Seed` follows.

## 4. Proofs

`tlapm` checks every theorem to the last leaf, for every value of the
constants. Assumptions are the named ones of the modules: the bodies are of the
DTOs' types, and `Null` and `Undefined` are not dates, states, rows or ids. The
types are nowhere inductive by themselves: a write by id is well-formed only
because the row that its handler found is still there. Every inductive
invariant therefore says what each handler learnt at its earlier awaits and
still relies on (`LocalOK`, `LocalsOK`), and rests on what no step takes away
(no row is deleted or handed over).

`LeasesProofs`. `IInv` adds `LocalsOK`: the rows a handler has found exist and
have the owner it found them with (they may have been soft-deleted). Two facts
about every step carry the proof: no step deletes a row or changes its owner
(`KeepsOwners`), and contracts keep code, owner, property and tenant and are
never undeleted (`KeepsContracts`); a handler's `LocalOK` survives any such
step (`LocalStays`). There is one lemma per action. From `IInv` follow
`TypeCorrect`, `AccountsSeparated` and `IdentityKept`.
`CancelledContractsStay` needs nothing more and no assumption: a settled contract
has no handler that could write it (`WhoWrites`), and one that reads it now is
turned away (`WhoMoves`).

Under `NoOverlapSpec` and `EndingPatchesOnly` the invariant
`OneInv` says that the count a creation has taken stays zero until its insert:
only an insert makes a contract active on a property (`OccupantStep`), an insert
for the same property would be an overlapping creation, and creations for others
do not matter. `OneActive` and the refinement `TenanciesImplemented` follow; the
latter maps a step to `Let`, `Record`, `End` or a stutter by what it does to the
one contract it changes (`ContractStep`), and `NoTenancyResumes` follows from it.

`LeaseHistoryProofs` is about any number of requests in flight. `DatesInv` says
that what a PATCH is going to write still fits the row, although the check was
made on an earlier one (`PatchFits`); a write of another handler keeps it so
(`StillFits`) because the two do not both give dates, unless the contract is
`skewed`. `OccInv` says of a property that is not `crossed` that its active
contract is ACTIVO, that there is none while a POST for it is on its way past the
count, and that a DELETE on its way holds the property it is about to free, with
the `estado` it read (`HandlerOK`). `HistorySteps` carries the invariant of
`LeasesProofs` over: the history only observes.

`PaymentsProofs`. `PayIInv` says that a payment handler which has found its
contract holds that contract's owner, tenant and property, and that the row a
handler will write is there. It needs one fact about the contract handlers,
`KeepsContracts`, and gives `PaymentsTyped` and `CopiesStayEqual`. `PaidStaysComplete` assumes `PlainPaymentBodies` (no null
amount and no null or epoch date in a body). Its invariant `PaidInv` says that a
handler about to write PAGADO has a date and a total in its data or in the row;
as no step empties either column (`RowsFill`), what it relied on when it read is
still there when it writes. `CancelledPaymentsStay` and
`GivenAmountsStay` need neither that nor serial requests: only a handler that is
about to write changes a row (`RowChange`), it got there by reading the row
(`AboutToWrite`), and what it read then told it to turn away or to compute
nothing (`UpdateKeepsGiven`).

`SessionsProofs`. `IInv` says what keeps sessions apart: a handler that will
revoke a token holds one its own user has presented (`LocalOK`), the token that
a handler is about to hand out has not been received yet and is held by no other
handler (`FreshDistinct`), and parents and logged-out tokens are presented and
revoked. All of it follows from two facts about every step: nothing signed,
received or presented ceases to be (`Grows`), and rows only change as
`RowsFair` allows. This gives the first four theorems, under `Spec`. Two of them,
`LoggedOutIsDead` and `RotatedIsDead`, are no properties of the run: under
`PatientSpec` both are part of `ImplementsRotation`.
`LogoutStays` is proved from the same invariant, with no assumption about
clients: a token is signed for another only by a refresh that found that one
live, and delivered only by the handler that signed it (`NextFacts`).
`PatientInv` adds `GoingOK`: while a refresh whose client waits has found its
token live and not yet answered, nobody has received a successor. With
`OneRefreshes` each way to change that can only be the doing of that handler
itself, and `OneSuccessorOnly` follows.

`RotationImplemented` is the refinement, with one lemma for what a step does to
a key (`UseKey`, `RevokeKey`, `ExpireKey`, `ReceiveKey`) and one for the steps no
client can tell (`QuietKeys`). It adds to `PatientInv` that the session of a
token is the session of its parent (`SessionsLinked`). The rest needs no
handlers: `RotationIInv`, inductive for the steps of `Rotation` alone, says that
a session has one key that was not exchanged, and only such a key works;
`OneKeyEach` carries it back to the handlers.

`TicketsProofs`. `IInv` joins the types with `LocalOK`, with what each row keeps
(`RowOK`) and with `NoticesAreTrue`; it is inductive because a ticket is never
deleted or handed over, never loses its date and is never active again
(`KeepsRows`). A PATCH decides about `fechaResolucion` from the `estado` it read;
`LocalOK` says that a handler which read RESUELTO can count on the date, although
others may have moved the ticket since. `ClosedTicketsStay` is an action
property proved from it.

`SiteProofs` has one invariant for each question, on top of `IInv`:
- `PubInv`: what a PATCH read of the publication is true until it writes, unless
  another handler of the property overlapped;
- `NamesInv`: a name belongs to a row or to an avatar and never to both, and to
  one that was drawn before (so no avatar removes a row's file);
- `AvatarInv`: the file that an upload has saved is nobody's avatar yet, an avatar
  is of one user, and one whose file is gone has an upload of that user on the
  way or failed;
- `RowsInv`: the pictures of an upload under way are nobody else's, and a
  picture that is being removed has its DELETE on the way;
- `ShownInv`: on a property whose handlers neither overlapped nor failed, the
  main picture is one of its pictures and there, or the only handler in flight
  will replace it. From `Alone` and `MainAlone` follows that others cannot
  interfere.

`SeedProofs` starts with the calendar: months have 28 to 31 days, every date is
in one month and `MonthOf` finds it, and setting the month keeps a day up to
28. `SeedIInv` has four parts. `TablesOK` gives the types of all nine tables and
what their rows say of each other, for the demo and every row the API may have
written since. `UsersOK` says who has been created at each step, and that
without the administrator there is nothing: the cascade of `--reset` leaves no
row, and the check for the administrator is a check for any row. `SoFar` says
that, while nobody else writes, a table holds the rows created so far and no
others; it is what makes `db = DemoDb(seed.today)` at the end. `SeedOK` bounds
the dates. Payments that the API created while a run was under way stay beside
the script's (`PaymentsTogether`, `NoOtherPayments`). There is one lemma per step of the script and per
write of the API. `RunsAreWhole` and `HistoryUpTo28` follow; the second needs
its condition on the day, which is what `seed_month_end` shows to be missing in
the code.

`DemoProofs` is about every database in `SeedIInv`, for any rows and days.
- Sums. `SumOf` is a fold over a finite set, and a fold takes the elements in the
  order of a CHOOSE. `SumsUnique` shows that the sums over the subsets of a set
  are one function whatever that order is, `SumRemove`, `SumUnion` and
  `SumByClass` what follows for parts; induction over the set is replaced by
  looking at the smallest subset for which a claim fails (`SmallestSubset`).
- Figures. A groupBy has a row for each class, so the rows add up to all rows of
  the query (`CountByRow`, `SumByRow`), by type, method, category or estado.
- Revenue. The dates from the first day of a month to the last of another are
  those whose `MonthOf` is between (`MonthsOfDates`), so the slots split what was
  paid, and `BestMonth`'s CHOOSE has a value (`BestExists`).
- Lists. A list of n rows has n places, and a row may be in as many of them as
  there are rows of its key (`PlacesOfList`). Each place is on one page and has
  one number there (`HasPlace`, `OnePlace`), which `PlacesOfPages` makes a
  bijection, so pages of any size have the places of the list (`PagesWhole`).

`ReportsOfOneMoment` puts the last three together.

Only model-checked: `EveryRequestAnswered`, as liveness is out of the prover's
reach. Not proved is what the runs with `expect: violation` refute.

## 5. Plan

Done, in this order: contracts with `Tenancies`, payments, sessions, tickets
with roles and notifications, the public site with uploads and leads, the seed
with reports and lists, the proofs of each, and `Rotation`.

Left, as far as it is worth it: the checks of e-mail and DNI of tenants; the list
of users; an abstract specification of the tickets' life, and the refinement to
it.

## 6. Not modelled, and why

- Bootstrap, configuration, health, Swagger, logging, the interceptors and
  filters: wiring, and the form of answers. What `ValidationPipe` lets through
  decides which bodies the requests carry.
- The websocket gateway: it only forwards rows that are stored.
- Tenants: the e-mail and DNI checks of POST and PATCH, which the unique keys of
  the database repeat, as for the period of a payment and the code of a
  contract, which are modelled.
- Users: the list, and the texts of the profile.
- File types and sizes, checked by a library, and the contents of files.
- Texts, amounts in contracts and payments (except in `Seed` and `Dashboard`),
  times of day.

Prisma, MySQL, NestJS and class-validator are external; the models take from
them single statements being atomic, unique keys, commit and rollback,
REPEATABLE READ snapshots, and which bodies pass validation.

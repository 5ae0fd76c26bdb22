# Formal models of the Livepeer gateway console

TLA+ specifications of the operator console (`src/src`, `src/admin-ui`,
`src/migrations`), the TLC configurations that check them on small instances,
and TLAPS proofs. Paths below are relative to the repository root; `auditPoll.ts`
stands for `src/runtime/workers/auditPoll.ts`, `routing/index.ts` for
`src/service/routing/index.ts`, and so on.

## 1. The system

The console is one Node process (a Fastify server plus a background worker)
between an operator's browser and three things it does not control: the service
registry *resolver* daemon and the *payer* daemon, reached over unix-socket gRPC,
and an Ethereum RPC. Its only durable state is a SQLite file with two tables.

| Component | State | Operations | What makes it hard | What makes it correct |
|---|---|---|---|---|
| audit-poll worker (`auditPoll.ts`) | `timer`, `inFlight`, `watermarkMs` in memory; rows of `routing_observations` on disk | `start`, `stop`, `tick` on an interval (`runOnce` is `tick` for tests) | the daemon logs while a poll is in flight, several events share a millisecond, a page is cut at `fetchLimit`, the call or the insert fails, the process restarts | no event lost, none copied twice, the watermark never ahead of the rows, one poll at a time |
| chain-read cache (`createTtlCache` and its four loaders, `routing/index.ts`) | a `Map` from key to an entry (expiry, promise, value) | `getOrLoad(key, loader)`; two loaders call `getOrLoad` themselves | time passes under a load, loads overlap, a nested load throws, a late failure deletes by key | answers no older than the TTL, failures not stored, nobody waiting for ever, one load per key |
| refresh handlers and audit trail (`handleResolverRefresh.ts`, `service/audit`, `repo/auditEvents.ts`) | rows of `audit_events` | refresh all, refresh one, append, paged read | the daemon may execute a refresh after its deadline; the first insert may throw into the catch block; a crash between RPC and row | at most one row per attempt, `ok = true` only for an executed refresh |
| audit page (`admin-audit.js`, `handleListAuditLog.ts`) | rows shown, cursor, loading flag | first page, Reload, Older | the table grows between two pages; exact multiples of the page size | no gap, no duplicate, the end is really the end |
| process lifecycle (`main.ts`, `0001_init.sql`) | phase of the process, schema on disk | boot, migrate, listen, signal, close, forced exit, restart | a database that cannot be opened or written, kills between the statements of the migration, a request that never ends, a signal during boot | never serves without its tables, orderly exit drops nothing, shutdown ends |
| roster and per-orch view (`routing/index.ts`, `handleListOrchs.ts`, `handleGetOrch.ts`) | none of its own | `listOrchs`, `getOrch`, filter, 404 | four sources asked side by side that change and fail meanwhile, with their own spellings of an address | an orch that did not change is shown as it is; its history is found |
| chain reader (`providers/chain/viem.ts`) | none | pool walk, single reads | the pool changes between two RPCs of the walk | what a torn walk may and may not report |
| HTTP interface (`server.ts`, `authenticate.ts`, `actor.ts`, the handlers) | none | the hook, the routes, the error handler | order of the refusals, a hook that looks at the URL as it came, two daemons asked one after the other | no call without valid arguments, none for a URL under `/api/` without a token and an actor; no claim a daemon has not made; an answer to everything |
| daemon clients and codecs (`resolver/client.ts`, `payerDaemon/client.ts`, `gen/`) | none | seven unary calls, encode and decode of every message | a daemon that is down, hangs, restarts, or is built from other `.proto` files | a value means the same on both sides; a failure is not an empty answer |
| configuration (`env.ts`, `compose.yaml`, `.env.example`) | the environment | validation and coercion | an empty variable is neither missing nor valid | what the files of the repository set up can start |
| admin UI: session (`admin-app.js`, `admin-login.js`, `api-base.js`, `session.js`) | token and handle in `sessionStorage`, `_authed` | sign in, sign out, every API call | a 401 to an old token arriving during or after a new login | no credential behind the login form, no data without a credential |
| admin UI: dashboard, orch page, sender, search (`admin-routing.js`, `admin-orch-detail.js`, `admin-sender.js`, `admin-capabilities.js`) | what is selected, loaded, loading, failed | select, reload, refresh one, refresh all, search | answers arriving out of order, elements that go away under their requests | the detail shown is that of the selected orchestrator; nothing spins for good |
| SQLite, HTTP and logging providers, socket check, formatting helpers, lint plugin | none | thin wrappers | | |

The components meet in a few places: `main()` starts and stops the worker and
owns the database both repositories write to; the handlers share one cache
through the routing service; the per-orch view reads the table the worker fills;
the audit page reads the table the refresh handlers fill; every handler passes the
one hook, and all that need a daemon share its client.

## 2. Modules

| Module | Models | Checked through |
|---|---|---|
| `AuditPoll` | the audit-poll worker, its table and the daemon as it uses it | `MCAuditPoll` |
| `Mirror` | abstract: what the worker promises, as one atomic step; `AuditPoll` implements it | `MCAuditPoll` |
| `ChainCache` | the TTL cache with its nested loads | `MCChainCache` |
| `AuditTrail` | refresh handlers, `audit_events`, the audit page | `MCAuditTrail` |
| `Config` | the environment: what each variable accepts, what compose passes on | `Lifecycle` |
| `Lifecycle` | boot, migration, listening, shutdown, restarts; EXTENDS `Config` | `MCLifecycle` |
| `PoolWalk` | the walk through the transcoder pool while it changes | `Roster` |
| `Roster` | `listOrchs`, `getOrch` and their handlers; EXTENDS `PoolWalk` | `MCRoster` |
| `Wire` | the protobuf codecs, over a list of fields | `Api` |
| `Registry`, `Payments` | the messages of the two protocols | `Api` |
| `Rpc` | the two daemon clients, and daemons that fail | `Api` |
| `Api` | the hook, the handlers, the error handler; EXTENDS `Rpc` | itself |
| `Session` | the admin page's credential, sign-in and requests under way | `Dashboard` |
| `Dashboard` | the dashboard, the orch page, the sender page and the search, over `Session` | `MCDashboard` |
| `AuditPollProofs`, `LifecycleProofs`, `AuditTrailProofs`, `ChainCacheProofs`, `DashboardProofs`, `RosterProofs`, `WireProofs`, `ApiProofs` | theorems about the module each is named after; the first also that it implements `Mirror`, `LifecycleProofs` also about `Config`, `RosterProofs` also about `PoolWalk`, `ApiProofs` also about the messages | TLAPS |

An operator whose name has an underscore (`Advance_Inclusive`, `Throw_Kept`) is
a *mutant*: the definition it precedes, changed the way a plausible bug would
change it. Nothing refers to it; `PROJECT.json` says which property fails once it
takes the definition's place.

### AuditPoll

State: `log` and `clock` are the daemon's; `copies` counts the rows of
`routing_observations` per event; `timer`, `inFlight`, `watermark` are the
variables of `createAuditPollWorker` (`-1` for `null`, as `?? -1` reads it);
`call[t]` is the `getAuditLog` that invocation `t` of `tick()` awaits, with the
`since` it was sent with and, once the daemon has served it, the page on its way
back; `mine` is a history variable, the events this process life has copied.

| Action | Code |
|---|---|
| `Start`, `Stop` | `start()`, `stop()`: arm and disarm the interval. A tick under way at `stop()` goes on. |
| `Tick` | the interval fires: `tick()` to its `await` (lines 47-58) |
| `Record` | the answer arrives: the loop, the insert and the watermark, which run without another await on anything outside the process (lines 60-75) and the `finally` |
| `Fail` | the call or the insert throws: the `catch` and the `finally` |
| `Restart` | the process ends in any state and a new one is created: all but the table is gone |
| `Log`, `Serve` | external: the daemon appends; it answers from the log as it is when it serves the call |

A row needs an orchestrator and a date (`Mirrorable`); `Advance` is the
maximum that starts from the watermark, line 61. The daemon is not in this
repository: that it answers with everything dated at or after `since`, at most
`limit` events, is how `client.ts` asks. Which ones it keeps when it cuts a page is
not said anywhere, so it is the constant `OldestFirst`; only `LostOnlyToTies` and the
liveness properties need it to be `TRUE`, and the first says so.
`start()` with an interval of 0 does nothing, which is `AuditPoll` without `Start`.

`Mirror` is the abstract specification: a log, the rows, and a mark; one step copies
at once what an orchestrator has in the log from the mark on, up to any point of the log,
and moves the mark past the newest. `ImplementsMirror` says that `AuditPoll` is such a
mirror under `mark <- watermark`: `Record` is `Copy`, a restart `Forget`, and everything
in between a stutter. It would not be if a page could skip an event in its middle, if rows
were inserted without the watermark or the other way round, or if two polls overlapped.
It needs a daemon that pages oldest first.

### ChainCache

A load is a record: its key, whether it waits for the load of the key it needs, is
reading the chain, has an answer on its way or is settled, the time of its start
(from which the entry's expiry is computed), the load it took its address from
and when the chain answered. `store` is the `Map`. A request calls
`getOrLoad`: `CallHit` (settled or not), `CallMiss`, and for the keys whose loader
asks the cache first, `CallMissOverHit` and `CallMissOverMiss`; the loader runs
synchronously to its first await, so the needed key's entry is stored before
the entry of the key that needs it. `Return`, `ReturnNull` (the swallowed
`serviceURI` read) and `Throw` settle a load and everything that waits for it:
between the settling of a promise and the continuations that await it no other
callback runs. `Throw` deletes by key, as line 267 does. `Clock` lets time pass under a
load, up to `LoadTime`. A loader that throws before its first await would be
stored after its deletion; the four loaders cannot.

### AuditTrail

`pc[r]` follows one request through `runRefresh`; `Execute` is the daemon's
part and may come after the call has been given up. `Catch` covers a failed RPC
and a failed first insert; `CatchThrows` a catch block whose own insert throws.
(`reply.send` of a JSON object does not throw, so a reply cannot lead to the
catch after a row.) A row's id is its position. The page's `fetch` is its request under way;
`Serve` answers from the table at that moment, so rows may be
appended before and after. Buttons are disabled while a request is under way
(`?disabled=${this._loading}`).

### Config and Lifecycle

Of a variable's text `Config` keeps whether it is unset, empty, the digit zero, valid or
malformed; `EnvSchema` has a row per variable, `Accepts` is what zod does with it (a default
or `optional()` stands in for a missing variable, never for an empty one; `z.coerce.number()`
reads an empty one as 0), and `Compose` is the `environment:` block of `compose.yaml`
over a `.env` file.

`Boot` is `main()` to the test of `applyBootstrapMigrationIfNeeded`, `Refused` its end
before that when `loadEnv` or `parseListenAddr` throws, `OpenThrows` when `openSqlite` does
(line 34: `mkdirSync`, the opening of the file, or the pragma that makes its WAL).
`EnvSchema` takes any text for `STATE_PATH`, so whether the path can be written, only opened, or
neither is a variable of its own, `disk`, which changes at any moment (`DiskChanges`: a mount, an owner, a
full volume). An empty path is to SQLite a database of the process's own (`Temporary`): it can always be
written, and is gone with the process.
`Migrate` executes one statement of the script, each of which SQLite commits by
itself; `MigrateThrows` meets an object that exists, or cannot write; `Listen`, `ListenFails`, `Signal`,
`Close`, `HardKill` are lines 74-101; `Crash` is a kill at any moment. `Gone`
keeps nothing but the schema, unless it is temporary, the disk and the environment.

### PoolWalk and Roster

`pool` is the linked list on the chain with its stakes; it may change before any RPC of
the walk. `GetFirst`, `GetStake` and `GetNext` are the three reads of
`bondingManagerListPool`, each true of the pool at its own moment; `GoTo` is the loop's
condition and its limit. Two history variables say what a walk was up against: `touched`, who
joined, left or moved, and `torn`, whether that was the member it stood on.

`Roster` has one request at a time, for the roster (`AskList`, `KnownAnswered`) or for one orch
(`AskOne`); `request.waiting` are the sources it still awaits, which answer in any order
(`ResolveAnswered`, `PoolAnswered`, `UrisAnswered`), and `Rejects` is `Promise.all` with the
first that fails. The mirror answers on the spot, by the spelling it is asked with. Of the
cache in front of the walk only `AskPool` is left: the last finished walk, the one under
way, or a new one. `Row`, `Listed`, `NotFound` are what the handlers make of it.

### Wire, Registry, Payments, Rpc, Api

The generated codecs repeat one piece of code per message. `Wire` has that
code once, over a message's list of fields (number, name, type, label), and `Registry` and
`Payments` have the lists. The codec of a message calls those of the messages in it; the
deepest of the protocols has three levels below it, and `Wire` writes these calls out as four levels
of one operator (`Over`) rather than as a recursive one, over which nothing could be proved.
`Encode` leaves out defaults and sends each element of a repeated field (`Sent`); `Decode` reads entry
after entry (`Assemble`), sets or extends the field an entry is of (`FieldOf`, `Put`) if its number and wire type are
known and skips it if not (`Known`), nested messages and timestamps included. The console sends and receives only some of the messages; those of the publisher and of the payee daemon
are generated along with them, and their codecs are checked like the others.

A *dialect* is how a daemon built from other `.proto` files differs: it has fields the console
has not, lacks the last one, has another type for the first, or sends them in reverse order.
`Meaning` says, without any bytes, what a message of one side is to the other.

`Rpc` has the clients: what each call sends (`ListKnownAsks` ... `GetDepositInfoAsks`), how it ends
(`Arrives`, `Broken`, `Expires`: the answer, UNAVAILABLE, DEADLINE_EXCEEDED) and the mappers. A
daemon goes down, hangs or comes back at any moment (`Changes`), and `Serve`s a call in the
dialect it has by then. `Api` has the hook (`Verdict`: 401 before 400), which leaves alone every URL that
does not begin with `/api/` as it came (`Public`, line 179; `request.url`). The router matches the path it decodes from
the URL, so `Receive` lets such a URL reach every route; which ones do is Fastify's. Then
the parse every handler begins with (`Invalid`), the calls it makes one after the other (`Calls`,
`Settles`) and what it answers; `/api/health` makes two whatever becomes of the first.
What `/api/orchs` and `/api/orchs/:address` answer is not the client's value but the routing service's rows:
`KnownRow` and `ResolvedRow` narrow the labels (`NarrowFreshness`, `NarrowSignature`), take the first node's signature
and what any node offers, once each, and the chain's `serviceURI` before the resolver's; `Filtered` is the handler's
filter, and an orch the resolver does not know is a 404 or a `null` beside its observations (`ShowsAbsence`).
Beside its call `getOrch` reads the chain, and fails with whichever fails first (`ChainFails`).
`Encodable` is the one way a call fails before it is sent, a date no `Date` can hold.

### Session and Dashboard

`Session` holds what `sessionStorage`, `admin-app` and `admin-login` hold, and `pending`,
the requests under way in the order they were sent; any of them may be answered next.
A request remembers what its answer is for and whether it carried a token
(`getAuthHeaders` runs when it is sent). `Session` gives the steps of the session as
operators; `Dashboard` EXTENDS it, adds what is mounted, and has `Init` and `Next`.

| Action | Code |
|---|---|
| `SignIn`, `Entered` | `_submit` of `admin-login.js` up to and after its await; anything but a 401 signs in |
| `Rejected` | `onUnauthorized` for any request: storage cleared, login form shown |
| `SignsOut`, `Reopen`, `Navigate` | `_signOut`; a browser reload; the hash changes (a new element, or a new address under the same one) |
| `Reload`, `Select`, `RefreshOne`, `RefreshAll` | the handlers of `admin-routing.js` up to their first await |
| `RefreshOrch` | `_refresh` of `admin-orch-detail.js` |
| `ReloadSender`, `SenderAnswered` | `_reload` of `admin-sender.js`: two requests side by side; the first answer waits for the second (`Promise.allSettled`) |
| `Search`, `SearchAnswered` | `_submit` of `admin-capabilities.js` |
| `ListAnswered`, `OrchAnswered`, `OneRefreshed`, `OrchAfterAnswered`, `AllRefreshed`, `LoadAnswered`, `OrchRefreshed` | each continuation of those handlers to its next await or its end |
| `GoneAnswered` | a continuation of an element that is unmounted: what it writes is seen no more, what it sends next still goes out |

`view` is the state of the mounted element: `subject` is `_selected` or `address`, `detail`
is `_detail` or `_data`. `overtaken` is a history variable: an answer about an orch came
before the answer to an older question. The console's verdict on a token is free, as its
`ADMIN_TOKEN` may be another one after a restart; a request without a token is never answered 200.

## 3. Runs

| Run | Asks | Bounds | Result |
|---|---|---|---|
| `AuditPoll` | what the mirror keeps, what must reach it, and that it implements `Mirror` | 4 events of one orchestrator or none, at most 1 of them skipped, clock steps 0 and 1, pages of 2, 2 ticks, 2 process lives | holds |
| `AuditPollTwice` | does a life ever copy an event twice? | 2 events, 1 tick | violated: see 6.1 |
| `AuditPollStuck` | does every event of an orchestrator reach the mirror? | 3 events, 2 of them skipped, pages of 2 | violated: see 6.2 |
| `ChainCache` | freshness, lifetime, failures and answers of nested loads that may outlive the TTL | the 4 keys, 2 requests, TTL 2, loads up to 3, clock to 3, 3 loads, failed serviceURI reads swallowed | holds |
| `AuditTrail` | what rows say, and what the page shows while they grow | 4 refreshes, pages of 2 | holds |
| `Lifecycle` | boot under every setting, disk and kill, shutdown with open requests | every variable with every kind of text, one at a time; the disk good, full or gone at any moment; 2 requests, 2 kills | holds |
| `LifecycleCompose` | does the quick start serve? | the environment compose makes of `.env.example` | violated: see 6.3 |
| `Roster` | what a torn walk reports, what the roster and an orch's view show | 2 transcoders, 2 stakes, walks of up to 3, one orch spelled with capitals, 0 or 2 rows, 1 shown | holds |
| `RosterCase` | does 404 mean that the mirror has nothing? | the same, 1 stake | violated: see 6.4 |
| `Api` | the gate, the handlers, the rows, the clients, the codecs | every route, URLs under `/api/` and others, 5 dialects, 3 statuses, daemons that come and go at will, deadline 1; every message with every field set, left out, and with each enum value | holds |
| `AdminUI` | session and views with answers in any order | 2 orchs, 4 requests under way | holds |
| `AdminUIStale` | does the orch page end up with its own orch? | 2 orchs, 3 requests under way | violated: see 6.5 |

Why the bounds are enough. *AuditPoll*: four events with steps 0 and 1 give a
page that is cut, ties inside a page, across a cut and across a poll, and the
event dated exactly at the watermark; `MaxNoise = 1 < Limit` leaves a page that
is not full of skipped events (`AuditPollStuck` has one that is); two lives are enough for
every row to be written again, two ticks for an overlap. `MaxCopies = 3` is one more than
the lives, so `OncePerLife` can fail below the saturation. *ChainCache*: a load that starts, expires,
is replaced and then settles needs TTL 2 and a clock of 3; three loads are a pair of nested
ones and a second generation of either. The run stops when the clock or the loads are
used up, hence no deadlock check there. *AuditTrail*: four rows make a
full second page, and every smaller table on the way there an incomplete one. *Lifecycle*: two kills hit
the migration twice, or the migration and a later life. *AdminUI*: a new orch page sends two
requests, so four leave room for a refresh and a selection, or an old session's request, beside them; two
orchs are the one shown and the one before. *Roster*: two transcoders are one the walk stands
on and one that stays, joins or moves past it; a limit of 3 is above every calm pool and below a
walk that meets a member again and again; two rows and a limit of one make the newest a choice.
*Api*: requests share nothing but the daemons, so one at a time is enough; an answer has no node,
one or two, of every signature and freshness, and no, one or two capabilities each; what a
codec does to a field depends on its own type and label only, and every combination of
them occurs in some message.

Properties, in short (each is stated and commented in its module):

- `SingleFlight` (AuditPoll): one tick at a time, and its question was asked with the
  watermark its answer is compared to. `OncePerLife`, `RepeatsOnlyAtWatermark`:
  what can be copied again. `LostOnlyToTies`: what can be missing below the
  watermark. `WatermarkFollowsRows`: it moves only past rows inserted in
  the same step. `MirroredUnlessBlocked`: an event reaches the table unless it shares its
  millisecond with another or a page is full of events that cannot move the watermark.
- `ImplementsMirror`: the poll as one atomic step.
- `FreshAnswers`: the chain was read less than one TTL before
  the request, at an address that was itself less than one TTL old when its load began; a `null` that stands for a failed
  `serviceURI` read is no older either.
  `NoFailureStored`, `EveryCallAnswered`: failures. `SingleFlight`,
  `KeptForTTL` (ChainCache): one load per key and values kept, but for loads that outlive the TTL,
  and then only as the property says.
- `OneRowPerAttempt`, `OkMeansExecuted`: the audit trail. `NoGapNoDuplicate`,
  `OldestReached`: the audit page.
- `SteadyReported`: a calm walk is the pool; a torn one is right about everyone who stayed
  put unless the very member it stood on left or moved. `ShownAsStaked`, `HistoryShown`,
  `RequestEnds`: what the requests show of it, and that they end.
- `OnlyAdmittedCalls`: no daemon hears of a request with arguments its route does not accept, nor of one whose URL
  begins with `/api/` without its token and actor. `ClaimsWereSaid`, `EveryRequestAnswered`: the HTTP interface over
  failing daemons, with the 404, the `null` and the labels of a row. `MeaningKept`: from the request a daemon hears
  through the client's mapper and the routing service's row to the body the browser gets;
  `EveryMessageSurvives`: every message of both protocols, between every two versions, every answer
  a daemon may give and every request the clients make.
- `LoggedOutIsClean`, `DataNeedsToken`: the session under late 401s. `SettlesOnSubject`:
  answers in the order of the questions leave the right orch on the screen.
  `SpinnersEnd`: whatever spins waits for a request.
- `ServesWithTables`, `ComesBack`, `OrderlyExitAnswers`, `ShutdownEnds`: the process. `ComesBack` has as many
  exceptions as a boot has ways to fail for good: the environment, the database's path, one table of two.

## 4. Fairness

- `AuditPoll`: weak fairness of `Start` (every life reaches it) and of `Tick`
  (`setInterval` keeps firing, also after a failure: the rejection is
  swallowed); strong fairness of `Serve` and `Record`, which says that the calls
  do not fail for ever. That is an assumption on the daemon, without which nothing
  is mirrored. Nothing is assumed of the daemon's log, of `Stop` or of `Restart`.
- `ChainCache`: a read is answered or fails (viem's HTTP transport times out).
- `AuditTrail`: an operator who keeps pressing Older, a console that
  answers now and then (strong fairness of `Serve` and of showing the answer,
  because a request may fail in between).
- `Session`, `Dashboard`: safety only, no fairness: that an answer comes is not
  assumed, `SpinnersEnd` says what is waited for.
- `Lifecycle`: the container restarts the process, the migration proceeds or throws, `listen`
  proceeds, the 30 s timer fires; strong fairness of `Listen` says that the address does
  not stay taken for ever. That the disk ever gets better, or that a request is ever answered, is not assumed.
- `Roster`: a walk and the sources it is asked beside are answered or fail (deadlines of gRPC
  and of viem's transport); nothing of the chain.
- `Api`: handlers run and gRPC's timer fires at the deadline. That an answer ever arrives
  is not assumed: `EveryRequestAnswered` holds by the deadline alone.

## 5. Proofs

TLAPS proves the theorems below for every value of the constants: any number of events, loads,
rows, requests, transcoders and orchs, any limits, TTLs and page sizes, any of the bounds TLC
needs. Of the constants they assume what the modules' named `ASSUME`s say and no more: numbers
are numbers, `NoOrch`, `NoKey` and `Zero` are none of what they stand beside, an orch's address
is not the name of a page (`PagesAssumption`), `Needs` is one level deep (`KeyAssumption`). Five
theorems have a hypothesis of their own, named with them; `RoundTrip` and `VersionsAgree` are about any lists of fields
of a given form, `ComposeStarts` and `BlankRegistryIsRefused` about any `.env` file. Of the environment they assume what
the actions say. Each rests on an inductive invariant, `IInv` (in `DashboardProofs`
`BInv` and `SInv`, in `RosterProofs` `RInv`), with one lemma for each action or
group of actions that share their effect, and a theorem `Invariance`. TLC checked every one of these
invariants on an instance before it was proved.

| Module | Theorem | Property |
|---|---|---|
| `AuditPollProofs` | `TypeCorrect` | `TypeOK` |
| | `TicksAreSingleFlight` | `SingleFlight` |
| | `RecordedOncePerLife` | `OncePerLife` |
| | `CompleteUpToTies` | `LostOnlyToTies` |
| | `OnlyTheWatermarkRepeats` | `RepeatsOnlyAtWatermark` |
| | `WatermarkMovesWithRows` | `WatermarkFollowsRows` |
| | `RefinesMirror`, if `OldestFirst` | `ImplementsMirror` |
| | `JamsLast`, if `OldestFirst` | `JamLasts` (stated there; no run checks it) |
| `ChainCacheProofs` | `TypeCorrect` | `TypeOK` |
| | `AnswersAreFresh` | `FreshAnswers` |
| | `NoPoisonedEntry` | `NoFailureStored` |
| | `LoadsAreSingleFlight` | `SingleFlight` |
| | `EntriesAreKept` | `KeptForTTL` |
| | `OneLoadPerKey`, if `LoadTime < TTL` | `OnePerKey` (stated there; no run checks it) |
| | `EntriesOutliveLoads`, if `LoadTime < TTL` | `Kept(k)` of every key (the same) |
| `AuditTrailProofs` | `TypeCorrect` | `TypeOK` |
| | `OneRowEach` | `OneRowPerAttempt` |
| | `OkIsTrue` | `OkMeansExecuted` |
| | `PagesAreConsecutive` | `NoGapNoDuplicate` |
| `LifecycleProofs` | `TypeCorrect` | `TypeOK` |
| | `ListensWithTables` | `ServesWithTables` |
| | `OrderlyExitDropsNothing` | `OrderlyExitAnswers` |
| | `MigrationIsNeverResumed`, `HalfASchemaStaysDown` | `NeverResumed`, `HalfMadeForGood` (stated there; no run checks them) |
| | `RefusedNeverRuns`, `ExampleNeverRuns` | a refused environment never runs; the quick start's is one (no run checks them) |
| | `ComposeStarts`, `BlankRegistryIsRefused` | which `.env` files start the container (no run checks them) |
| `DashboardProofs` | `TypeCorrect` | `TypeOK` |
| | `LogoutLeavesNothing` | `LoggedOutIsClean` |
| | `DataIsEntitled` | `DataNeedsToken` |
| | `SpinnersAreAwaited` | `SpinnersEnd` |
| | `ViewsSettle` | `SettlesOnSubject` |
| `RosterProofs` | `TypeCorrect` | `TypeOK` |
| | `WalkReportsTheSteady` | `SteadyReported` |
| | `AnswersShowTheSteady` | `ShownAsStaked` |
| | `NewestRowsShown` | `HistoryShown` |
| | `CapitalsHideHistory` | `NotFoundExactly` (stated there; no run checks it) |
| `WireProofs` | `RoundTrip`, for lists of fields that agree (`Comp4`) | what one side encodes is to the other what `Meaning` says |
| | `VersionsAgree`, for a message of the protocols' form (`Good4`) | the same between it and each of its dialects, both ways |
| `ApiProofs` | `TypeCorrect` | `TypeOK` |
| | `CallsAreAdmitted` | `OnlyAdmittedCalls` |
| | `EveryMessageKept` | `EveryMessageSurvives` |
| | `MeaningIsKept` | `MeaningKept` |
| | `NothingIsMadeUp`, if `None` is no row | `ClaimsWereSaid` |

*AuditPoll.* The invariant adds to the properties what a step needs to know of its
past. `LogOrdered`: dated events are in the order of the log and not after the clock
(`Log` dates with the clock, which never goes back), so an event logged later than
a served page is not below what that page holds. `PageSound`: a page on its way
back holds only logged events dated at or after its `since`.
`PageCut`: with oldest-first pages, what a page leaves out of the events dated from its `since` on
comes after everything it holds in the log; this carries the daemon's choice from `Serve` to
`Record`, when the log may have grown. `MineSound`: what this life has copied is
orchestrators' events not after the watermark, and the watermark is one past one of them.
`CopiesCounted`: an event that follows no other by a millisecond has at most `boots`
rows, and at most `boots - 1` before this life copies it; the bound alone is not
inductive, the difference is. With `SingleFlight` the watermark at `Record` is
the one the page was asked with, so rows are at or above it: a row this life has
copied before is exactly at it, which by `MineSound` makes it a follower, and an
event that falls below the new watermark was in the page, tied with its
newest row, or cut off behind it. `RecordFacts`, `CopiesFacts` and `AdvanceFacts` state what
`Record` does.

*Mirror.* Under the same invariant every step maps to `Mirror`'s under `mark <- watermark`. The one
hard step is `Record`: a page is everything from the watermark up to some point of
the log, the one before the first event it leaves out (`LeastNatural` gives it, `PageCut` says that
nothing of the page comes after it), and the new watermark is one past the newest of the
rows. `OldestFirst` is needed: a daemon that kept the newest of a page would leave a hole.
`JamsLast` is finding 6.2 for any page size and any log: once the oldest page of what is asked for is full of
events that are skipped or dated at the watermark (`Jam`), every page on its way back is a part of that one
(`PageCut`, and `ShorterIsPart` for its size), so no `Record` moves the watermark, and the same page is asked for until a restart.

*ChainCache.* `StartsOrdered` and `ReadsInTime` place the loads and their reads in time; `ViaSound` and
`CallersSound` say that whoever waits for a load joined it before its TTL ran out, or when it began,
which with a read after the start is what freshness comes from. `StoredLast` (the entry of a key is of its last
load; a key without an entry has no load under way, or one that outlived its TTL or lost its entry) is
what `OneAtATime` (`SingleFlight`, for settled later loads too) needs and keeps: `DroppedUnder` names the one
other way two loads meet, the failure of a third, older one. `OneLoadPerKey` is the "single-flight" of line
231 without exception: a load under way is the entry of its key and within its time (`InTime`), if loads take
less than `CHAIN_READ_TTL_SEC`; with `LoadTime = TTL` TLC finds two loads of a key. From `InTime` also `EntriesOutliveLoads`: no
load is ever `Overtaken` then, and `KeptForTTL` holds without its exception.

*AuditTrail.* `RowsOfEnded`: rows are of handlers that have ended, one each. `CursorSound`: one page
request at a time, asked with the cursor that is still the cursor when it is answered, and answered with a
`Run`, consecutive ids; `RunJoined` puts two together.

*Lifecycle.* `SchemaGrows`: the schema is always a prefix of the script, and a migration under way
begins at its first statement or stands at the end of the prefix. A process
listens after finding both tables or after the last statement; either way
three of the four objects are there. A schema that has begun to grow in a file is `Settled`: a later migration's first
statement finds its table and throws (`SettledThrows`), so nothing is ever added, which leaves a schema of one table, or one
without its last index, as it is for good (`NeverResumed`), and with one table nothing ever listens
(`HalfMadeForGood`). `ComposeStarts` says of every `.env` file whether the container
starts from it, variable by variable (`AcceptedTexts`); with `RefusedNeverRuns` it makes finding 6.3 one about every boot
(`ExampleNeverRuns`). That requests open at an orderly exit do not exist is `Close`'s own
condition; the theorem is about every other way to that exit.

*Dashboard.* `AllOwned`: a request under way is the mounted element's, an unmounted one's, or the sign-in
being checked; `OneSignIn`: of these there is one; `AllEntitled`: a request of the mounted element that carries a
token was sent with the token there still is. So data comes only to an app that has its credential, and
spinners have their request. `SInv` is a second invariant on top, for `SettlesOnSubject`: what a view will show
once everything has been answered in order is already decided by the requests under way (`Due`): the last one sure to write
its detail asks for the subject, or the detail is there; what may write after it is about the
subject too.

*PoolWalk and Roster.* A change of one transcoder keeps all others, their stakes and their order
(`Same`, with `RemoveAtFacts` and `InsertAtFacts` under it). `WInv`: unless the walk is torn, the member it stands on is in the pool
(`Stands`), and of the members that did not change it has collected just those it has passed, each once (`Steady`); if nothing
changed at all, it has collected the pool up to there (`SoFar`). `RInv` carries that through a request:
`Given` ties the stakes it was told to the walk, `HistoryGiven` the rows to the spelling it asked with, and
`GreatestNatural` gives the last entry that `poolEntriesToStakeMap` keeps of a member and the newest rows.
`NotFoundExactly` says when an address is answered 404, capitals included (finding 6.4).

*Wire.* What a codec does is a fold over the entries of a message, and a message's length is any: this is
induction over data. The library's induction theorems take an operator as a parameter, which the provers cannot instantiate;
`Induction` states it for a *set* of naturals instead, from `LeastNatural` and the library's `NatLessThanWellFounded`
and `WFMin`, and each use gives the set of lengths for which its claim holds. So `JoinsExists` and
`AssemblesExists` show that the two recursive functions (`FlattenSeq`'s and the reader's loop) are what their
equations say, `FlattenLays` that the entries of a message are those of its fields one after the
other, each at its offset, and `LoopStep` is the reader's loop over one field: after the entries of the fields so far, the
record holds what they mean, up to the field under way (`Upto`), and defaults elsewhere. `AssembleReads` is the loop's
invariant at the end of the message. A message holds messages four deep, so each of the codec's
functions is written out per level (`E1` to `E4`, `D1` to `D4`, `M1` to `M4`: `EncodeIs`, `DecodeIs`,
`MeaningIs` say they are the model's), and `Level4` follows from `Level3` and so on down. The hypotheses of `RoundTrip`
are that reader and writer agree on the fields they share (`Comp4`: a number and wire type name the same field, with the
same label, its date perhaps kept as a Timestamp), and that the value has the shape the writer's fields
allow (`Typed4`: a sequence where a field is repeated, a date that is an integer or missing). `Versions4` proves the first of every message of the
protocols' form and each dialect; `SamplesFit` and `AnswersFit` the second of the samples and of the answers.

*Api.* `Admitted`: a request has made no more calls than its route asks, none before the gate, and passed
the gate if a handler runs. `Faithful`: the call under way is the last one made, its bytes are the encoding of what was
asked, and the bytes of its answer are the encoding, in the dialect the daemon spoke, of something that daemon may
answer. `Accounted`: every call that is settled has its daemon among those that answered or those that
failed, which is what makes `/api/health` wait for both (of the other routes nothing of the kind is
needed: `getOrch` may have answered before its call settles); the count of settled calls lags the calls made by the one under way. `Quoted`: a
page shows what the handler makes of the decoding of the bytes its only call brought, or what "not found" stands for;
`RowFacts` says what a row of it claims. None of this says what
decoding yields: `VersionsAgree` does, applied to the 61 messages one by one (`Messages1` to `Messages4`: each is of the
protocols' form) and to what the clients ask (`AsksAre`, `AskingFits`). The hypothesis of `NothingIsMadeUp` says that
`null` is no row: nothing else tells "not found" from an orch.

Model-checked only:

- the liveness properties, `MirroredUnlessBlocked`, `EveryCallAnswered`, `OldestReached`, `ComesBack`,
  `ShutdownEnds`, `RequestEnds` and `EveryRequestAnswered`: the prover does not reason about fairness or ENABLED;
- that the five properties of section 6 are violated: the counterexamples are TLC's. Of 6.2, 6.3 and 6.4 what
  is proved says when they occur.

Every invariant and every action property that a passing run checks is a theorem.

## 6. Where code and text disagree

1. `auditPoll.ts:66`. An event dated exactly at the watermark, one millisecond
   after the newest one copied, is inserted but does not raise `maxAt`: every poll
   copies it again until a later event appears. `env.ts:43` promises "deduped rows".
2. `auditPoll.ts:63`. Skipped events do not move the watermark. With
   `fetchLimit` of them after it, and a daemon that pages oldest first,
   the same page is fetched for ever (`JamsLast` in 5).
3. `env.ts:24`. `optional()` accepts a missing variable, not an empty one; `compose.yaml:35` passes
   `SERVICE_REGISTRY_ADDRESS` as an empty string unless `.env` sets it, and `.env.example`, which the
   quick start copies, does not. Every boot throws and exits 1 (`BlankRegistryIsRefused`, `ExampleNeverRuns`).
4. `routing/index.ts:114`. The mirror holds lower-case addresses and is asked with the
   address as the URL spells it: an orch asked for with its checksum's capitals has no history, and is
   answered 404 if the resolver does not know it. `handleGetOrch.ts:4-5` says that is for
   orchs without observations (`CapitalsHideHistory`).
5. `admin-orch-detail.js:47`. `_load` does not look whether the address is still the one
   it asked about: a late answer about the orch before stays under the present address.
   (The dashboard's panel has the same race, `admin-routing.js:73`; `SettlesOnSubject` says
   that an answer overtaken by a newer one is the only way to it.)

Behaviours of the models that have no run of their own, because the properties that
hold name them as their exceptions:

- `routing/index.ts:267`: a load that outlives its TTL and then throws deletes the entry of a
  newer load (`KeptForTTL`; `env.ts:37-39` says values are memoized for the TTL). The cache is
  "single-flight" (line 231) only for loads shorter than the TTL (`SingleFlight`).
- `routing/index.ts:79`: the loader of a `serviceURI` catches every failure, a timeout as well as the revert its
  comment speaks of, and returns `null`, which the cache keeps like a value (`ReturnNull`). Plan 0001, lines 193-195,
  says that failed reads are not cached; `FreshAnswers` says that such a `null` answers for no longer than a value would.
- `server.ts:179`: the hook decides by the URL as it came, the router by the path it decodes from it. "Bearer auth
  on every route" (line 160) is what the hook does for URLs that begin with `/api/` as they came; `OnlyAdmittedCalls`
  says no more, and `CallsAreAdmitted` proves no more.
- `main.ts:34`: any text is a `STATE_PATH` (`env.ts:26`), also one that cannot be opened, and the process
  then exits at every boot (`ComesBack`, `OpenThrows`).
- `routing/index.ts:154-162`: an orch of several nodes is shown with the first one's signature beside what any of them
  offers (`ResolvedRow`).
- `main.ts:119`: a kill between the migration's statements leaves one table; every later boot runs the
  script over it and exits (`ComesBack`, `HalfASchemaStaysDown`; the comment at `main.ts:105` says it runs "iff the schema
  has no tables yet"). A kill before the last statement leaves the schema without its second index for
  good (`ServesWithTables`).
- `handleListOrchs.ts:26`: a roster row has no capabilities or offerings (`routing/index.ts:99-100`), so
  a `capability` or `offering` in the query empties the roster (`Listed`).
- `compose.yaml` does not pass `CHAIN_READ_TTL_SEC`, `RESOLVER_AUDIT_POLL_INTERVAL_SEC`,
  `SENDER_ADDRESS` or `MIN_BALANCE_WEI`, which `.env.example` offers (`Compose`).
- `viem.ts:226`: a member that leaves while the walk stands on it ends the walk, and the stake map
  without the rest of the pool is cached for the TTL (`SteadyReported`, `torn`).
- `handleListResolverAuditLog.ts:9`: a `since` beyond the last `Date` is valid input, and the request is
  answered 500 (`Encodable`).

Known and stated by the repository itself: a restart forgets the watermark and
copies again what the daemon still has (`docs/exec-plans/tech-debt-tracker.md`), which is why
`OncePerLife` counts lives; a kill between the refresh RPC and its row
leaves no trace of the attempt. A sign-in whose token a late 401 of the session before has
cleared completes without a token (`admin-login.js:94`): the app then shows the console's
pages, but no data, until the next answer sends it back to the login form.

## 7. What is not modelled

- The daemons and the chain beyond what the code asks of them; the HTTP framing and the headers
  Fastify handles before the hook; how its router decodes a URL; the static files of the admin page.
- Formatting, logging, layout, the wording of errors; the hash router, the event helper and the
  formatting of amounts and dates in the admin page, which are pure conversions without state.
- Of the generated stubs the JSON and partial constructors, which nothing calls; bytes that are not
  a message at all, or one cut short; varints beyond 32 bits (`Decimal` and the wire keep whole numbers).
- `getReserveInfo` and `resolveTicketBroker` of the chain reader, `listObservations` and
  `listRecentForOrchAndCapability`: nothing calls them.
- Thin wrappers: the Fastify, SQLite and pino providers (that opening the database throws is a step of `Lifecycle`),
  the socket check (`/api/health` reports it
  beside its verdict, which does not depend on it); the lint plugin, a build-time tool.
- That an interval above 2147483 s makes `setInterval` fire at once: `AuditPoll` lets a tick come at any
  moment, so what it says holds of that process too.

## 8. What is left

Every component that keeps state or decides something is modelled, and every invariant and action property
of the runs is a theorem. Left:

- The reads of `getOrch` and `listOrchs` run side by side and are `Roster`'s; of the chain's `Api` has what they gave
  and that they failed, and otherwise a request's calls one after the other. A module that composes `Roster` with `Rpc` would say what a timeout of one does to
  the others.
- The hypothesis `Comp4` of `RoundTrip` is met by the dialects of `Speak`; which changes of a `.proto` file
  meet it in general is not characterised.

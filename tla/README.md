# Bill Tracker plugin: TLA+ specification

Bill Tracker is a plugin of a household display (hhq). It keeps recurring bills
in PostgreSQL, works out when they fall due, lets a parent edit and pay them,
fetches amounts from vendor portals and balances through SimpleFIN, and serves
all of it to hhq over HTTP. One process runs at a time (`replicas: 1`, strategy
`Recreate`), but inside it goroutines and request handlers share the tables,
every SQL statement is its own transaction (but for one), and the process may
stop between any two of them. That is what these modules are about.

## The system

| Component | State | Operations | Interacts with |
|---|---|---|---|
| Bill tables (`internal/models`, schema) | definitions, instances, vendor connections | one SQL statement each | everything below |
| Due dates (`models.NextDueDates`) | none | occurrences of a schedule in a window | scheduler, bootstrap, settings |
| Money and days (`parseBillForm`, `parseMoneyToCents`, `parseDollarsToCents`, DATE columns) | none | text to cents and back, day to instant and back | settings, kiosk, SimpleFIN, connectors |
| Bootstrap (`handlers/bootstrap.go`, `main.go`) | names seen | reconcile with `bills.json`, remove what is not listed | tables, vendor refresh |
| Scheduler (`internal/scheduler`) | copies of the rows it listed | generate instances; refresh vendors, SimpleFIN, version | tables, portals, bridge, GitHub |
| Settings page (`handlers/settings.go`) | none between statements | add, edit, delete, pay, connect, disconnect, label | tables, starts refresh goroutines |
| Kiosk endpoints (`handlers/events.go`, `view.go`) | none | list instances, mark paid by id | tables |
| SimpleFIN (`models/simplefin_connection.go`, `account.go`, `simplefin`) | connection row, accounts | connect (a transaction), disconnect, sync | bridge |
| Registration (`handlers/register.go`, `auth_middleware.go`) | one encrypted token | issue, check | hhq |
| Version check (`internal/release`, `handlers/version.go`) | an in-memory cache | read tags or the latest release, compare | GitHub |
| Connectors (`internal/connectors`) | none | log in, scrape a bill | portals, vendor refresh |

What is hard: generators work from copies while bills are edited and deleted;
handlers check with one statement and write with another; four kinds of process
insert the same instances; a bootstrap pass may stop or fail half way and still
runs its removal pass; refresh goroutines outlive the request that started them;
Connect relies on a transaction whose isolation is weaker than its comment
assumes; calls of hhq arrive late, twice or never; pages of tags shift while
they are read; a portal is read on a ticker whose period is also the age a sync
must have, fails in many ways and shows values and titles under the same names;
a due date is a DATE to the database, midnight UTC to Go and a local day to the
household; money is text, floating point, 64-bit and 32-bit integers in turn.

What makes it correct, in short: an occurrence exists once and is paid once;
nothing belongs to a bill that is gone; the file owns its bills and the settings
page the others; a payment reaches what was shown; every occurrence appears in
time; a pass that succeeds has reconciled; what the vendor, the bank and the
parent said last is what is stored; a portal is logged in to neither at every
restart nor too seldom; a bill shows on its day in every time zone and with the
amount that was entered; hhq recovers its token by itself.

## Modules

| Module | Models | Correspondence |
|---|---|---|
| `BillTables` | three tables and their constraints | a function from ids to rows per table, a counter per SERIAL; one operator per writing statement |
| `Bills` | bootstrap, generation, vendor refresh, settings requests, kiosk | `job[a]` is where actor `a` is and what it holds; an action is one statement, with its error path |
| `BillLedger` | what the tables promise | abstract: bills open and close, occurrences go none, due, paid |
| `DueDates` | `NextDueDates` | a step is a turn of its loop; the calendar is a parameter |
| `Money` | conversions between text and cents | operators on sequences of characters; 64-bit arithmetic wraps at a parameter |
| `Screens` | one bill from the form or the file to the view, the events, the settings page and the edit form | extends `DueDates`, which runs inside `Submit` ... `Store`; read-only handlers are operators of the state they read |
| `Portal` | both connectors: login tokens, landing page, search by class, date and amount | a page is the sequence of its elements with depth, classes and text |
| `VendorRefresh` | `runVendorRefresh`, its ticker, `RefreshVendorConnectionIfStale`/`Now`, `attachVendorConnection` over a clock | extends `Portal`; `pc` is where the refresh is, `todo` the copies `ListAll` returned |
| `SimpleFin` | connection, accounts, refreshes, the parent's choices | DELETE of `Connect` in two steps (snapshot, then wait for locks), INSERT and COMMIT in one |
| `Registration` | tokens and hhq's calls | hhq is external; `stored` is the row and the key it was encrypted with |
| `Release` | version check | a step is one page; GitHub's tags and latest release are external |
| `BillsProofs`, `BootProofs` | theorems about `Bills`; the second is about bootstrap passes | see Proofs |
| `MoneyProofs` | lemmas about `Money`: what the recursive definitions compute, for texts and amounts of any length | see Proofs |
| `ScreensProofs` | lemmas about the loop of `NextDueDates`; theorems about `Screens` | extends `MoneyProofs` |
| `SimpleFinProofs`, `RegistrationProofs`, `ReleaseProofs`, `VendorRefreshProofs` | theorems about the module of the name | see Proofs |
| `MC*` | instances for TLC | model values, files, calendars |

`Bills` extends `BillTables` and instantiates `BillLedger` under the refinement
mapping `bill`, `occurrence`. It takes schedules as opaque values with a fixed
set of days `Occ[s]`; `DueDates` shows that this is what `NextDueDates` computes.
`VendorRefresh` and `Screens` look at parts of the same tables more closely: the
first at when a connection is refreshed and from what page, the second at what
one bill's row becomes on the screens. Who else writes to the tables meanwhile
is the subject of `Bills`, where a refresh yields any amount and day at any
time. `SimpleFin`, `Registration` and `Release` share no state with `Bills`.

Wrong versions of an operator (`EnsureInstanceReset`, `RegisterOnce`, ...) stand
before the right one. They are no part of the specification; putting one in the
place of the original shows that the properties notice.

### How the model treats the code

* A failing statement is a choice of every action that issues one. Reads that
  fail and only end a tick are left out, as they change nothing.
* `Bills` treats an entry of `bills.json` as a name, a schedule, an amount and
  two flags: whether it validates and whether its login is usable.
* In a bootstrap pass a lookup and the write after it are one step: nothing else
  runs then (`main` starts the scheduler and the server afterwards). A process
  that is stopped is gone before the next one starts.
* `GetByName` and `SimpleFinConnectionStore.Get` have no ORDER BY: any row.
* UPDATE and DELETE of a row that is gone are not errors, as in SQL; an INSERT
  for a definition that is gone is, through the foreign key.
* In `Bills`, `last_synced_at` is "never", "fresh" or "stale" and time passes at
  any point. In `VendorRefresh` it is an age in units of time, which stops
  counting at `Old`, past everything the code or a property tells apart. A fetch
  takes 0 to `Timeout` units and everything else none; a tick that finds one
  waiting in the ticker's channel is dropped, as `time.Ticker` does.
* `Portal` keeps the order of the document and the classes, as the search
  depends on them. A label or a date is one token, a date with the layout it is
  written in; an amount is spelled out, as its parser looks at characters.
* An instant of `Screens` is a number of hours, and a zone a fixed number of
  hours ahead of UTC; daylight saving is left out. A time bound to a DATE column
  becomes the day it has in its own zone, a DATE scanned becomes midnight UTC.
* `int(x*100 + 0.5)` is computed in float64, which rounds three times: the text
  read, the product, the sum. `Slack` bounds what that can come to, more the more
  digits the text has, and `FormCents` is the set of whole numbers the sum may
  then be cut off to; for a text of few digits this is one number, or two where
  the exact sum is whole. Beyond the int64 the conversion depends on the machine;
  no such amount fits the column. Exponents, hexadecimal, infinities and NaN,
  which `ParseFloat` also reads, are left out.
* A request to GitHub may succeed, fail, or never be answered (`Stall`): the
  client has no timeout, and the goroutine that checks waits with it until the
  process is deployed again.
* `failed`, `had`, `fetched`, `known`, `excused`, `newest`, `since`, `missed`,
  `truth` are history variables that only properties read.

## Runs

| Run | Question | Result |
|---|---|---|
| `bills_race` | two requests on the same bills (symmetric), generator, vendor refresh, kiosk: orphans, duplicates, ownership, payments; the inductive invariant | holds |
| `bills_boot` | changing files, portals attached and dropped, two stops, failing statements: reconciliation, listed bills kept, other bills and the vendor's amount untouched | holds |
| `bills_live` | restart, midnight, rescheduling: every occurrence gets its instance, no other appears, refinement of the ledger | holds under `FairSpec` |
| `simplefin_sync` | one request at a time, two refreshers, a restart: one connection at most, syncs marked on the right one, shown ids and the parent's choices kept | holds |
| `simplefin_settle` | balances heal after out-of-order writes | holds under `FairSpec` |
| `release` | no tag missed, only upgrades offered, offered in the end unless a request is never answered | holds under `FairSpec` |
| `registration` | retries, overlapping registrations, no call served with a token that was replaced, recovery | holds under `FairSpec` |
| `vendor` | a connection, its ticker, stops, two portals that change, break and refuse: how often it is tried, what is stored, that the shown bill is stored in the end | holds under `FairSpec` |
| `screens` | forms and file entries against the table, due dates against a day by day definition, money, time zones, the edit form | holds |
| `bills_named` | "deletes any bootstrap-managed definition whose name is no longer present in the file" | refuted: an entry that became invalid loses its bill and history |
| `simplefin_twice` | "the app enforces at most one exists at a time" | refuted: two overlapping Connects leave two rows |
| `vendor_period` | the interval "controls how often bills ... are re-fetched" | refuted: every second tick is skipped |

Read in the models and worth knowing, without a run of their own:

* A refresh stamps `last_synced_at` after its fetch, so at the next tick the
  connection is a little too young. `RefetchedWithinTwo` says that this costs one
  tick and never two.
* A failed refresh counts as one. A login corrected in `bills.json` is tried when
  the connection is stale, not at the restart; `AmountSettles` says that it is.
* `LoginsSpaced` counts from the last refresh that was marked. A process that stops
  between a login and `MarkSynced`, or whose `MarkSynced` fails, logs in again at
  its next start or tick, however little time has passed.
* The version check uses `http.DefaultClient` without a deadline (`release.go:95`,
  `140`, `197`). One answer that never comes ends all later checks of the process;
  `UpgradeOffered` holds up to that.
* A bill that loses its connector keeps its vendor connection, whose refresh goes
  on writing the amount (`VendorConnectionStore.Delete` has no caller).
* A SimpleFIN refresh under way when the parent disconnects stores its accounts
  afterwards.
* West of UTC the view marks a bill due today as overdue (`view.go:97`), which is
  why `OverdueWithinADay` asks for more only from UTC eastward.
* A negative amount is rounded up by the form, so an untouched edit of -1.50 stores
  -1.49; `PrefillKeeps` and `MoneyExact` therefore exempt negative amounts.
* Past the int64, `parseMoneyToCents` wraps (`wholeCents*100` is not checked) and
  returns another amount without an error, so `MoneyExact` speaks of what fits.
* A text that ends in its point (`12.`) is an amount to the form and an error to the
  other two parsers.
* A bill more than 30 days late is on the view and in the events, not on the
  settings page; nor is one more than about 90 days ahead, should
  `BILL_INSTANCE_LOOKAHEAD_DAYS` be larger. `PayableOnPage` is stated in between.
* An interval of 0 minutes passes `config.Load` and makes `time.NewTicker` panic;
  `VendorAssumption` excludes it.

Names are not unique. Once the settings page has a bill with the name of a
managed one, `GetByName` may find either; if it finds the other, the pass skips
the entry as a collision and the managed bill keeps its old schedule.
`BootReconciles` therefore speaks of the bills that do not share their name, and
`OwnershipRespected` says that the other bill is not taken over.

### Bounds

* `MaxDefs`, `MaxInsts` cap the ids ever handed out, `MaxDay` and `LastDay` the
  clock and the due dates, `MaxStops` the stops. Two definitions are what a name
  twin, a bill deleted and made again, or a bill removed beside one kept need;
  two instances what a reused id or a duplicate needs; a window of two days what
  a partly done generation needs. `bills_race` has one schedule with one day in
  the window and one past it, and a portal bill; `bills_live` has one definition,
  whose schedule changes, three instances, and passes midnight once, with a
  schedule whose day enters the window only then. `bills_boot` stops twice, so
  that a pass starts on what an interrupted one left, and the file may change
  both times; its schedules have no day in the window and it stores no instance,
  which the pass does not read.
* `MaxConns`, `MaxAccts`, `Goroutines`: a connection and its replacement, one
  goroutine beside the scheduler. Where an id runs out, the action is disabled.
  `simplefin_sync` has one request and checks `SingleConnection`; requests that
  overlap multiply its states past what a run can take. What holds of them, at
  most as many rows as requests (`ConnectionsBounded`), is stated in
  `SimpleFinProofs` and proved for any number (`BoundedCorrect`); TLC confirmed it
  for two requests on an instance without accounts and with four connections, so
  that each comes back to a table the other has written to (1.6 million states up
  to symmetry), before it was proved.
* `vendor`: an interval of three units and a timeout of one, so that a fetch may
  or may not outlast the tick it belongs to, and two stops, so that a start finds
  what an interrupted refresh left. One connection, which the file may move from
  one portal to the other or to an unknown one, with a good or a bad login; two
  connections are beyond TLC here in a run of all five properties. A refresh of
  one delays the other by its fetch, which the bound `Len(Conns) * Timeout` of the
  properties allows for; that it is enough for any number is proved.
  The pages are those of the connectors' tests: titles above the values, no list
  around them, a banner with an amount, a credit, a refused login, a page without
  tokens, an amount past the column.
* `screens`: windows of 1, 31 and 61 days from around the ends of months, a
  February 28th, a turn of the year and a February 29th; days 1 and 28 to 31; all
  three rotations. Fields empty, in and out of range, for the form and the file.
  Amounts of up to five characters of `-`, `.`, 0, 5, 9. Zones -10, -5, 0, 10 and
  14, looked at before and after midnight here and in UTC, for two days and a
  month later. `MaxEdits` is two: saving again what an edit stored. `LongMax`,
  `IntMax` and `FloatMax` (for 2^63 - 1, 2^31 - 1 and 2^53) are scaled down so that
  five digits are more cents than an int64 holds and wrap, one amount is just past
  the column, and one text has more digits than the floats tell apart.
* `release`: pages of two, at most two of them, and up to four tags, so that
  full, short and empty pages and a list cut off at the limit all occur; a
  lower, an equal and a higher dev tag, a release and malformed names.
* `registration`: two calls, three tokens and two keys, deployed again twice. A
  token nobody holds may be issued again, so three are enough for a call whose
  token was overtaken while the newer one is on its way.

### Fairness

The liveness runs assume weak fairness of the goroutines (Go schedules them, the
tickers tick, Kubernetes restarts the process) and strong fairness of single
statements or requests: they may fail any number of times but not for ever.
Nothing is assumed of the parent, the file, the vendor or the clock, except that
time passes in `vendor`: there the deadline of a request ends it, so a portal
need not answer, and `AmountSettles` has as its premise that the portal stays as
it is and nothing fails any more. In `screens` only a request under way goes on.
The requests to the bank and to the portals end, as their clients have timeouts.
Those to GitHub have none: fairness of `Check` in `release` covers requests that
are answered, `Stall` is possible at every one of them and leads out of
`UpgradeOffered`.
`Recovers` assumes that the two connection secrets agree in the end and that one
call is left alone in the end: two that both meet a 403 can overtake each
other's registration for ever, which is for hhq to prevent.

## Proofs

Each theorem holds for every value of the constants that satisfies the named
assumption of its module, so for any number of processes, bills, connections,
tags or tokens and for any bound. The assumptions say that the bounds are
numbers, that "no row" is not a row, and what is listed here; TLC evaluates them
in every run.

| Module | Theorems | From |
|---|---|---|
| `BillsProofs` | `Invariance`, `TypeCorrect`, `OrphanFree`, `OccurrencesUnique`, `InstancesExplained`; the action properties `Ownership`, `PaidForGood`, `PaysShown`; `Refinement`: `Spec => ImplementsLedger` | `TablesAssumption`, `BillsAssumption` |
| `BootProofs` | `BootCorrect`, `ListedCorrect`, `AmountCorrect` | the same |
| `SimpleFinProofs` | `TypeCorrect`, `SyncedCorrect`, `ShownIdsCorrect`, `ChoicesCorrect`, `BoundedCorrect`; `SingleConnectionCorrect` | `SimpleFinAssumption`, `RequestsAssumption`: finitely many requests in flight; the last one also from `OneRequest` |
| `RegistrationProofs` | `TypeCorrect`, `RetryServedCorrect`, `OvertakenCorrect` | `RegistrationAssumption` |
| `ReleaseProofs` | `OffersCorrect`, `NoTagMissedCorrect`, `KnowledgeCorrect` | `ReleaseAssumption` |
| `VendorRefreshProofs` | `TypeCorrect`, `LoginsCorrect`, `RefetchedCorrect`; `StoredCorrect` | `VendorAssumption`: the fetches of all connections fit into one interval; the last one also from `ReadsRight` |
| `ScreensProofs` (with `MoneyProofs`) | `TypeCorrect`, `OccurrencesCorrect`, `EventsCorrect`, `OverdueCorrect`, `PayableCorrect`, `MoneyCorrect`; the action property `PrefillCorrect` | `DueDatesAssumption`: months follow each other and have days; `MoneyAssumption`: the int64 holds two digits and every value of the column, and a float64 tells apart 1/800 of a cent within the column; `ScreensAssumption`: zones of -12 to 14 hours, a lookahead of up to 89 days, a calendar that reaches as far as the windows |

Two hypotheses are not about constants' types. `OneRequest` says that there is
one settings request at a time; the run `simplefin_twice` shows that
`SingleConnection` needs it. `ReadsRight` says that the connectors
make of the page after an accepted login the bill the portal shows, or nothing,
and nothing of a refused login. It is a condition on the portals' pages, which the
code does not control; the run `vendor`, whose pages satisfy it, checks the search
and the parsers together with the refresh.

### The inductive invariants

**Bills (`IndInv`)** adds to the invariants what a process may rely on between two
statements. `Phases`: who can be at what, and when; bootstrap and the rest never
overlap. `JobSound` and `ListsSound`: an id a process holds was handed out, a
definition a request checked is still not managed (or gone), a connection under
refresh is still there, the dates a generator carries belong to a schedule the
bill had. `FreshIds`: an id not yet handed out has no row. `HeldSound`: an id hhq
was shown stands for the same occurrence or for nothing. Without `FreshIds` a
late `mark_paid` or a stale copy could meet a new row under an old id; without
`JobSound` the check and the write of a settings request have nothing to do with
each other. The file has three layers: what each SQL statement does to the
tables; one lemma per action of `Next`; the theorems. For the action properties
and the refinement, `StepIsStatement` says that a step changes the tables by at
most one statement, which leaves one case per statement instead of one per action.

**Bootstrap (`BootInv`)** says what holds of the entries a pass has been through
(`Past`), so that the induction over the entries of the file is the one over
steps. `SeenInv`: `seen` has the names of exactly these entries. `DoneInv`: unless
a statement failed, a managed bill whose name is its own agrees with the *last*
of its entries so far, as a name may be listed twice and the later entry wins.
`RemoveInv`: what is to be removed was not seen, and what was not seen is to be
removed.

**SimpleFIN (`SyncInv`, `OwnerInv`)**. `RefreshInv`: a refresh that writes fetched
for the connection it marks, which is what `SyncedMeansFetched` needs of a
goroutine whose connection is being replaced. `IdsInv`: account ids are handed out
once, without which a shown id could come to stand for another account.
`OwnerInv` says what is left of "at most one connection" when requests overlap:
there is an owner for every row, no request owns two, and a request that connects
or disconnects again has its own row in the snapshot its DELETE works on. Rows are
then at most as many as requests (`ConnectionsBounded`, which has no run of its
own, see Bounds), and one if there is one request (`SingleConnection`).

**Registration (`TokenInv`)**. Until something excuses a call, the token it was
issued is the one stored, and readable (`IssuedIsStored`). The token stored is the
one issued last, or there is none (`NewestIsStored`), and a call to a protected
route carries a token (`SentWithToken`), which an empty table never matches.
`OvertakenNotServed` therefore covers every call, a first try with
the token hhq had as well as a retry, at any time after the registration.

**Release (`ReleaseInv`)**. A version that was tagged when the check began has been
read, or stands on a page still to come: a push moves tags back, never forward
(`Ahead`). What a dev build has in its cache is still tagged, so the check under
way has to find it again; this is why `KnowledgeGrows` holds. The order lemmas
(`compareVersions` is reflexive, transitive, antisymmetric and total, and `IsNewer`
its strict part) are proved for all versions.

**Vendor refresh (`VendorInv`, `ShownInv`)**. `RefetchedWithinTwo` is a matter of
timing, and the bound on a row's age depends on its place in the list: with
`At(i) = i * Timeout`, a row the pass has handled has aged by the fetches after it,
and waits in the next pass for the fetches before it only. `FirstInv`, `LoopInv`
and `DueInv` state this for the pass before the ticker, for one in the loop and for
the time in between; `TodoInv` that the copies `ListAll` returned come in that order
and still agree with their rows. A bound that is the same for all rows is not
inductive. TLC checked `VendorInv` with two connections before it was proved.

**Screens (`ScreensInv`)**. `CallInv` is the invariant of the loop of `NextDueDates`:
`out` has the days of the window that are due in the months before `cursor`, in
order. `QuarterRule` shows that Go's remainder of a possibly negative difference
selects the months whole quarters away from the start month; `DueInMonth` that
clamping to the last day gives the one day of a month the schedule means.
`DayRoundTrip` and `PageDay` are the facts about DATE columns and time zones: a day
survives the way to the database and back, and the settings page counts from today
or yesterday. `FormInv` is what `PrefillKeeps` needs: an edit form stays as it was
filled until it is sent, and only an entry of the file leaves its schedule to a
connector, so a bill the form shows has a schedule the form can state. TLC checked
`FormInv` before it was proved.

**Money (`MoneyProofs`)** has no state; `MoneyCorrect` and `PrefillCorrect` rest on
what its operators compute for every text. `Unsigned`, `Kept`, `Power10` and `Itoa`
are recursive functions; `RecursionExists` shows that such a definition has a
solution, and a fact about all lengths is proved by showing that the set of lengths
for which it fails has no least element, from the well-foundedness of `<`. On this
stand, in order: digits read one after the other give the number of the front part,
moved up by a power of ten, plus that of the rest (`UnsignedConcat`), and what
`Itoa` writes is read back (`ItoaReads`); a text is what is before its point, the
point and what is after (`SplitAtPoint`), its value the two parts together
(`DecimalParts`), and cutting off digits is division by a power of ten (`Parts`);
int64 arithmetic wraps to the same value if the result fits, also for the least
int64, whose magnitude does not (`WrapSigned`). `ParseCentsExact`, `BalanceExact`,
`DollarsLikeBalance` and `FormNearest` put this together into the conjuncts of
`MoneyExact`. For the form, `FormRounded` bounds every element of `FormCents`, and
`NoSlack` says that the roundings of float64 come to less than a part of a text
with two decimals whose amount the column holds. So what the form stores is the
cent nearest to the text up to these roundings, for a text of any length, and the
exact amount for two decimals or fewer; `PlainRoundTrip` says that the form reads
back every amount from 0 to the column's largest as `formatCentsPlain` writes it,
although floating point may fall on either side. `MoneyExact` without its proviso on the int64 was refuted by the
attempt to prove it: TLC's texts were too short to reach the wrap.

### Only model-checked

* Liveness under fairness, out of this prover's reach: `OccurrencesAppear`,
  `BalancesSettle`, `UpgradeOffered`, `Recovers`, `AmountSettles`, `Terminates`.
* That the pages of `Portal` are read right (see `ReadsRight`): that the search by
  class finds the value and not its title depends on the page.
* The three refuted properties, for which the counterexample is the result.

## Not modelled

Rendering, logging, JSON and HTML syntax, the text of the changelog, the account
number a portal shows; configuration, which is read once and gives the constants
their values; database set-up and the migrator, whose schema is in `BillTables`
and `SimpleFin`; the manifest, a constant. `vendor_bootstrap.go` and
`vendor_connections_bootstrap.go` have no caller in the program. No operation
that changes state is left out.

## Plan

Done, in this order: `BillTables`, `Bills`, `BillLedger` with the proofs;
`DueDates`; `SimpleFin`; `Release`; `Registration`; `Money`; `Screens`; `Portal`;
`VendorRefresh`; then the proofs about the modules other than `Bills`, those about
bootstrap passes, those about money, and what holds of SimpleFIN connections when
requests overlap. Every invariant and action property of a run that holds has its
theorem. What could follow:

1. The search of `Portal` for a class of pages instead of a list of them: from what
   layouts the connectors read the right bill, which would replace `ReadsRight` by a
   condition on the layout.
2. `Screens` with daylight saving, where a local day has 23 or 25 hours.

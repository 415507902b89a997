# Verification of open-shield

This directory holds TLA+ models of open-shield, the TLC configurations that
check them on small instances, and proofs that TLAPS checks for every value of
the constants. `PROJECT.json` maps each definition to the lines it models.

## 1. Inventory

open-shield filters HTTP traffic in front of a backend and keeps a tamper-evident
record of what it decided.

| Part | State | Operations | Meets |
|---|---|---|---|
| Proxy (`proxy/lua/openshield.lua`) | fail mode | ask, wait, time out, act on the verdict | engine |
| Decision endpoint and chain (`engine/internal/httpapi`, `rules`) | enabled set, access list | decide, record, reconfigure | proxy, audit writer, reload |
| Rate limiter (`engine/internal/ratelimit`) | sorted set and expiry in Redis | script, fail open | chain, Redis |
| Audit writer (`internal/audit/writer.go`) | queue, head, counters, lock | Record, RecordSync, append, Close, resume | store, publisher |
| Audit store (`internal/audit/{postgres,memory}.go`) | rows, head | append, verify, list, count, statistics | writer, dashboard |
| Payload encoding (`internal/model/canonical.go`) | – | normalise, encode, decode | writer, store, walker |
| Chain walker (`internal/audit/verify.go`) | previous hash, position | step, result | store |
| Rule configuration (`rulestore`, dashboard handlers, `applyConfig`, `watchConfig`) | two tables, what is in force | change, record, notify, reload | audit, Redis, chain |
| Event bus (`internal/events`) | channels | publish, subscribe, notify | writer, hub, reload |
| Live hub (`dashboard/api/internal/ws`) | clients, buffers | broadcast, add, remove, close all | bus, browser |
| Configuration and startup (`internal/config`, both `cmd/*/main.go`) | environment, phase of `run`, constructed settings | load, construct, connect, serve, fail, restart | migrations, store |
| Migrations (`internal/migrate`) | advisory lock, version table | apply | store |
| Sign-in (`support.go`, `handleLogin`) | throttle records | allow, fail, reset, attribute | sessions, audit |
| Sessions (`auth.go`, `App.tsx`, `api.ts`) | tokens, cookie, what each tab shows | sign in, sign out, verify, poll, reload | every guarded endpoint |
| Web client (`dashboard/web`) | live list, pages, filters | connect, load, page, abort | API, hub |

What makes it hard: callers, a closing process and one goroutine share a queue
and a lock; an INSERT may commit after its client gave up; entries are stamped
before they are queued; a change crosses three systems that fail separately;
notifications get lost; answers come after their time-out, or after the session
they belong to; clients break while they are written to; several engines start
on one database, in environments that may be wrong; a log grows under those who
page through it and count it. `PROJECT.json` lists each such hazard at its line.

## 2. Modules

| Module | Models | Notes |
|---|---|---|
| `AuditChain` | entries, digests, rows, head query | SHA-256 idealised: a digest *is* the history it is computed from |
| `AuditLog` | the abstract promise of the writer | no queue, lock, goroutine or process |
| `AuditWriter` | `writer.go` with the process around it | implements `AuditLog` |
| `Payload` | `canonical.go`, `encoding/json`, the `jsonb` column | recursive; checked over a set of payload shapes |
| `AuditVerify` | walker and both `VerifyChain` | extends `AuditLog` with a verifier and alterations |
| `AuditStats` | `Stats` and `List` of both stores | extends `AuditVerify`; four statements against appends |
| `RuleConfig` | a configuration change end to end | handlers, audit record, tables, notification, reload |
| `RateLimit` | the sliding-window script | stamps at the engine, expiry at Redis |
| `Gateway` | proxy access phase and `handleDecide` | under reconfiguration, time-outs, restarts |
| `LiveFeed` | `Subscribe`, hub, handlers, browser | bounded buffers, reconnection |
| `Migrate` | `Apply` in several engines | different releases |
| `Startup` | configuration and `run` of both processes | extends `Migrate`; failures anywhere, restarts |
| `SignIn` | `handleLogin`, `loginLimiter`, `clientIP` | overlapping attempts, restarts |
| `Session` | tokens, `Require`, cookie, the shell of the web client | tabs that share a cookie, late and lost answers |
| `EventView` | audit view, `handleEvents`, `List`, `Count` | loads, aborts, a growing log |
| `AuditWriterProofs`, `RuleConfigProofs`, `LiveFeedProofs`, `SignInProofs`, `StartupProofs` | theorems about the module of that name | TLAPS |
| `AuditVerifyProofs` | theorems about `AuditVerify` and `AuditStats` | TLAPS |
| `RequestPathProofs` | theorems about `Gateway` and `RateLimit` | TLAPS |
| `WebClientProofs` | theorems about `Session` and `EventView` | TLAPS |

`MCAuditWriter`, `MCAuditVerify`, `MCRuleConfig`, `MCRateLimit`, `MCGateway`,
`MCMigrate` (an instance of `Startup`), `MCSession` and `MCSignIn` hold the
constants of the instances. Definitions named in comments as mutants are
plausible mistakes in the code; they are used nowhere in the specifications, and
each property is known to fail when the definition it guards is replaced by one
of them.

### How the models correspond to the code

*Audit.* A call of `Record` or `RecordSync` is its own entry id. It passes
through the read lock (`Refuse`, `Build`), the select (`Send`, `Drop`,
`GiveUp`) and, for `RecordSync`, the answer (`Collect`). `Worker` is the
goroutine `run`: take, append, publish, stop. `CloseCalled`, `CloseQueue` and
`CloseReturns` are `Close`; a pending `Lock` keeps new readers out, as
`sync.RWMutex` does. `ProcessEnds` may happen anywhere and `NewWriter` resumes
from the store. With `AmbiguousAppend` an INSERT whose client gave up stays in
`limbo` and may be finished by the server later.

*Payload.* A Go value is a record tagged with its dynamic type, JSON text one
tagged with its syntax. A payload is sealed (`SealPayload`: normalise, encode
canonically), inserted (`InsertPayload`: what `jsonb` does to key order, numbers
and NULs) and read back for rehashing (`ReadPayload`). Strings and literals are
model values with what the code and the column do to them.

*Verification and statistics.* `ReadAnchor` and `WalkRows` are the two statements
of a range verification; appends may come in between, and `Tamper` alters a row.
A call of `Stats` is four statements (`ReadTotals`, `ReadTopIPs`, `ReadTopRules`,
`ReadSeries`), each of which sees the log of its own moment. The in-memory store
is a set of operators, compared with the SQL store in every state. The walker is
the function `Walk` from the number of rows read to the state of the walker, and
every `ORDER BY` and `sort` is `InOrder`: the element at position *i* is the one
with *i* − 1 elements before it, in the order given as a set of pairs. Neither
needs recursion over sequences, which is what makes them provable.

*Configuration changes.* A request is recorded (`Record`; `RecordLate` when the
caller was refused but the entry was already queued), stored (`Store`, whose
failure may hide that it took effect) and announced (`Notify`). The engine's
reload reads and installs the two tables in four steps, each of which may fail or
be cut off by `Crash`. A control channel that closes is a channel that loses
every notification; the ticker remains. The tables are kept with their history so
that "older" can be said.

*Gateway.* `matches` is the free choice of what a request's contents trip, so
signatures and the rate limit's verdict are arbitrary. `handler` becomes `sent`
only if the request really reached a running engine. `Evaluate` is one turn of
the loop of `Decide`; `active` is the enabled set it took at the start, while
the access list is read when its rule is reached, as in the code.

*Rate limit.* A request is a member of the sorted set; its score is the time at
the engine. The script may run up to `MaxDelay` ticks later, in another order.

*Live feed.* The removal of a client is guarded by membership, as `remove` is.
Back-off delays become a timer that fires eventually.

*Startup.* `phase` is how far `run` has come: configured, store opened, (engine)
migrated, connected to Redis, (engine) writer resumed, serving. `Refuse` is what
the environment makes fail, `Fail` everything else: a server that is not reached,
a statement that fails, a kill. Either ends the process with whatever it held
(`Leave`), and `Restart` starts it again in the same environment, which is the
restart policy of `docker-compose.yml`; `Depend` is its `service_healthy`. Within
`MigrateStep` an engine takes the lock, reads the versions and runs one
transaction per migration. A commit whose answer is lost is `Commit` followed by
`Fail`. Variables that are passed on unread are left out. `seconds` multiplies
in a wrapping integer, as `time.Duration` does.

*Sign-in.* `Allow` is the limiter's first critical section; `Fail` and `Succeed`
are the comparison with the second one. What the client wrote into the forwarded
list and the proxies on the way are inputs. `Restart` empties the records, which
are kept in memory.

*Sessions.* A call carries the cookie of the moment it is sent; it is answered by
the dashboard, its headers are taken by the browser (`Receive`), and only then
does the page go on (`Continue`), each at its own time, or it is lost. The
dashboard keeps no sessions: a token is good until it expires (`Expire`), also
after a sign-out. A view that goes away aborts its poll; a call of the Rules view
is not aborted, as in `Rules.tsx`.

*Audit view.* A change of filter or page aborts the load before it and starts
one. The typed address applies later than the reset of the page, as
`useDebounced` makes it.

## 3. Runs

| Run | Shows | Distinct states |
|---|---|---|
| `audit_writer` | chain, answers, counters, order and live events stay right under two `Record`, one `RecordSync`, two `Close`, failing INSERTs, crashes; the writer implements `AuditLog` | 404,273 |
| `audit_writer_liveness` | with ambiguous INSERTs no link dangles; calls return; a closed queue drains | 494,296 |
| `audit_writer_fork` | *violation:* an INSERT that commits late forks the chain | – |
| `audit_verify` | encodings survive the column, alterations are found, an unaltered log is reported broken only for the causes named, the figures of one answer fit, the stores agree | 90,252 |
| `rule_config` | nothing is enforced without a trail, the log tells what the tables hold unless changes of a row overlap, reloads never step back, changes land | 818,651 |
| `rate_limit` | the cap holds for punctual requests, twice the cap for late ones, refusals have a cause | 1,016,125 |
| `gateway` | verdicts belong to one configuration, mode closed forwards only what was allowed, every request is served | 233,040 |
| `live_feed` | no double close, order without repeats, no ghost clients, the feed recovers | 149,345 |
| `migrate` | migrations once, in order, with their record; who serves runs with what was asked for; exactly the usable environments come to serve | 91,973 |
| `session` | a good session is lost only to a sign-in, a sign-out or an answer to a call of an ended one; without a session every tab ends at the form | 145,325 |
| `event_view` | shown is selected, an empty page means no match, paging skips nothing, loads end | 356,270 |
| `sign_in` | failures are charged to their author, refusals have a cause, the cap is passed only by as many attempts as overlap | 340,552 |

Each takes at most a few minutes.

### Bounds, and why they are enough

- Audit: three entries give a first, a middle and a last row, and two that can
  overtake each other. A queue of two lets order matter; a queue of one makes it
  full. Two closers meet each other. Two clock values order or swap stamps.
- `Payload`: the payloads that the handlers build, and for each clause of the
  encoder one that reaches it (nested values, keys that the two orders sort
  differently, HTML, NUL, text that is not UTF-8, numbers `numeric` renders
  otherwise).
- `RuleConfig`: one rule change and two changes of one prefix, which conflict.
  The prefix may already be listed at the start.
- `RateLimit`: five requests exceed twice a limit of two by one; six ticks hold
  two windows of three. A request travels for one tick, half a window at most: the
  proxy gives up on a decision after 150 ms (`openshield.lua:28`), while windows
  are whole seconds.
- `Gateway`: one request, since requests meet only in the configuration, and
  three reconfigurations: the enabled set and the list can both change under
  one evaluation, with a change left for before or after.
- `LiveFeed`: two connections, buffers of one, one break. `FeedRecovers` needs
  finitely many breaks.
- `Startup`: an engine with three migrations, one with two, and a dashboard; one
  variable of one process is not plain; two failures. A second is 10 and the
  greatest duration 127, so that 13 seconds wrap to −126 and 26 seconds to 4:
  one wrapped value that is refused and one that is not.
- `Session`: two tabs and two tokens, so that an old token meets a new session.
  `MaxCalls` = 1: the operator begins something while at most one call is under
  way; probes, polls and calls that began before still overlap. `SessionIsKept`
  is proved for every value of it.
- `SignIn`: five attempts with a limit of two leave three to overlap; three clock
  values let a record expire; two clients and two proxies give direct,
  single-hop and two-hop paths.
- `EventView`: pages of one entry, three entries, four loads. The invariants are
  proved for every size.

Deadlock checking is off where the instance runs out of calls, requests, clock
ticks or loads, which ends behaviours the program would continue, and in
`migrate`, where behaviours end with all processes serving. It is on in `session`,
`gateway`, `live_feed` and `rule_config`.

`TypeOK` is proved for `AuditWriter`, `Gateway`, `RateLimit` (there
`LimitTypeOK`), `Session` and `EventView` (there `ViewTypeOK`), whose inductive
invariants contain it. In the other modules it documents the variables.

### Fairness

- `AuditWriter`: the goroutine and calls already inside the writer go on; their
  contexts carry deadlines. No call, restart or tick is forced.
- `RuleConfig`: the reload goroutine and the ticker run; a query that is issued
  again and again succeeds in the end (strong fairness on the two reads).
- `Gateway`: nginx runs its timers. The engine need not answer.
- `LiveFeed`: goroutines and the browser's event loop run.
- `Startup`: every process goes on and is started again. PostgreSQL grants the
  advisory lock in the order it was asked for, so an engine that asks again and
  again gets it although others come and go (strong fairness on the lock).
- `Session`: the interval of the poll fires while the views are there, and of
  infinitely many polls some are answered in time (strong fairness on the steps
  of their answers). No other call need be answered.
- `EventView`: the timer of `request` fires and settled promises are handled.
  The server need not answer.

## 4. Proofs

Each theorem is proved from an inductive invariant: initial states satisfy it,
every action preserves it (one lemma or step per action), and it implies the
property. The assumptions are those named `...Assumption` in the modules, which
TLC evaluates in the runs. Bounds that exist for TLC (`MaxTime`, `MaxChanges`,
`MaxBreaks`, `MaxTokens`, `MaxCalls`, `MaxFailures`, `LastEntry`, `MaxLog`,
`MaxLoads`) are arbitrary numbers here.

| Theorem | Property | Strengthening |
|---|---|---|
| `AuditWriterProofs!TypeCorrect` | `TypeOK` | a nonempty log has a last row, which `HeadHash` chooses |
| `AuditWriterProofs!NeverPanics` | `NoPanic` | a caller between its check of `closed` and its send holds the read lock, which `CloseQueue` needs |
| `AuditWriterProofs!ChainStaysIntact` | `ChainIntact`, if `~AmbiguousAppend` | `head` is the hash of the last row, rows precede `nextSeq`, nothing is in limbo |
| `AuditWriterProofs!NoLinkDangles` | `NoDanglingLink`, ambiguous INSERTs included | `head` is the hash of some stored row or genesis, and rows in limbo were sealed against such a hash |
| `AuditWriterProofs!AnswersAreTrue` | `SyncAnswerTruthful`, if `~AmbiguousAppend` | where an entry is (below); a result says what became of the row |
| `AuditWriterProofs!FeedFollowsLog` | `PublishedFollowsLog`, ambiguous INSERTs included | what was published precedes, in the log, the row about to be published |
| `AuditWriterProofs!CountersAddUp` | `Accounting`, if `~AmbiguousAppend` | where an entry is; the counters split the sent entries that have left the queue |
| `AuditWriterProofs!WriterKeepsPromise` | `ImplementsAuditLog`, if `~AmbiguousAppend` | every step is a step of `AuditLog` or a stutter, under the invariants above |
| `AuditVerifyProofs!TamperingDetected` | `TamperingIsDetected` | `LogInv`, `AlterationInv`: an unaltered log is intact and its column is what was stored; each alteration leaves the fault it makes |
| `AuditVerifyProofs!AlarmsHaveCauses` | `AlarmHasCause` | `VerifierInv`: the anchor a call holds is the one it would read from the rows that were there when it began |
| `AuditVerifyProofs!FiguresAlwaysFit` | `FiguresFit` | `StatsInv`: what the statements so far have counted is at most what the log of now holds |
| `AuditVerifyProofs!StoresAlwaysAgree` | `StoresAgree` | the log is a finite table without equal `seq` (`LogInv`) |
| `RuleConfigProofs!EnforcedHasTrail` | `EnforcedIsRecorded` | a handler about to store has its entry in the log; every version the tables ever had is accounted for |
| `RuleConfigProofs!ReloadsNeverStepBack` | `NeverOlder` | what `applyConfig` has read is a version no older than the one in force |
| `RuleConfigProofs!LogTellsTheTables` | `LogTellsTables` | a request enters the log once; unless changes of a row overlapped at most one is under way, and its entry is the last of the row |
| `RequestPathProofs!VerdictsAreConsistent` | `VerdictOfOneConfig` | half way through the chain, the rules looked at pass under one list in force since `Decide` began |
| `RequestPathProofs!FailClosedIsClosed` | `ForwardedWasAllowed` | an answer on its way is the verdict or an error |
| `RequestPathProofs!CapIsKept` | `CapHolds` | while nothing was late, the set holds, and the key outlives, every admitted request younger than a window |
| `RequestPathProofs!RefusalsHaveCause` | `RefusedHasCause` | the set holds only admitted requests |
| `RequestPathProofs!TwiceTheCap` | `AtMostTwice` | the requests admitted in a window fall into two parts, each of which the set held at one moment (below) |
| `LiveFeedProofs!DoneIsClosedOnce` | `ClosedOnce` | a client in the hub, or about to be added, has not been closed |
| `LiveFeedProofs!ViewIsInOrder` | `NewestFirst` | stream, queue, wire and view are each in order and each behind what feeds it |
| `SignInProofs!NobodyPaysForOthers` | `ChargedToTheirAuthor` | every attempt is attributed to its client |
| `SignInProofs!CapPlusConcurrency` | `OvershootIsConcurrency` | the same |
| `SignInProofs!RefusedForCause` | `RefusalHasCause` | a record counts no more failures than its author has had since it was begun and since the last sign-in |
| `WebClientProofs!SessionsAreKept` | `SessionIsKept` | an answer to a guarded call that clears the cookie was made for a token that is not good again |
| `WebClientProofs!ShowsSelection` | `ShownIsCurrent` | only the last load is under way, and it is for what is selected |
| `WebClientProofs!EmptyIsNone` | `EmptyMeansNone` | unless turned in haste the page is in reach of the log, and no address is about to settle under it |
| `WebClientProofs!NothingSkipped` | `NoEntrySkipped` | what a sweep has not read is behind the page it has reached (below) |
| `StartupProofs!MigratedOnce` | `SchemaIsRecorded` | who is past the lock holds it, and knows the versions that are committed |
| `StartupProofs!ServedAsConfigured` | `ServesAsConfigured` | what was constructed comes from an environment without errors; an engine past its migrations has them all |

Some of the arguments deserve a word.

What is proved of `AuditWriter` beyond its chain rests on `PlaceInv`: an entry is
in one place at a time (with its caller, in the queue, in the hands of the
goroutine, in the store or in limbo) and never comes to a place twice. From it
follow that an error was returned for an entry that is not stored and will not
be, that the counters split what the queue took, and the refinement: an entry
that is built, stored or lost makes one step of `AuditLog`, everything else
none. `~AmbiguousAppend` says that every INSERT is answered by what it did; with
an ambiguous one these three fail in the code too, as `audit_writer_fork` shows
for the chain, so the hypothesis is part of what they say. `FeedFollowsLog` and
`NoLinkDangles` need no such hypothesis.

What is proved of `AuditVerify` and `AuditStats` is for logs of any length, and
rests on four facts about what their operators compute.

- *Sorting.* `Sorted`: for a strict total order on a finite set, `InOrder` is an
  increasing enumeration of it; `SortedUnique`: every increasing enumeration is
  `InOrder`. The first is the pigeonhole principle on ranks. The second is how
  the segment the in-memory store walks is found to be the rows PostgreSQL
  selects (`SameVerification`), and newest first to be last first (`SamePages`,
  for any limit and offset).
- *The walker.* `WalkIsLinked`: the walk says ok exactly when every row carries
  the hash before it and its own digest. A least broken row takes the place of an
  induction. With it `VerifyOk` says the same of a set of rows without their order.
- *Alterations.* A rewritten row does not have its digest (`RewriteBreaks`); a
  rehashed or removed one does not fit the row after it (`RehashBreaks`,
  `RemovalBreaks`), which exists unless it was the last.
- *Sums.* `SumUnique`: adding up the sizes of disjoint parts counts what they
  join. So a ranking counts no request twice, and all of them when it is not cut
  off (`RankingCounts`), and the chart draws every request of the window once
  (`SeriesDraws`).

`FiguresFit` then needs only that the log grows between the statements
(`WindowGrows`). The theorems are about `StatsSpec`, in which the log is that of
`AuditLog`; `WriterKeepsPromise` is what connects it to the writer. They assume:
`EncodingAssumption`, a column gives back the bytes that were hashed exactly when
it holds what was stored, which is what `EncodingIsFaithful` checks of the
encoder; `TrafficAssumption`, a recorded request has a verdict, and a blocked one
an address and the name of a rule (`trafficPayload`, and `openshield.lua:141` for
the address); and that different labels have different places in the order of
labels (`StatsAssumption`).

`AtMostTwice` is about requests that reach the script late. A window that is over
holds what was let through before its end, which the set held together at that
moment, and what came late. While more may come late the set still holds the
second part, if requests travel for half a window at most; with longer delays the
set may have forgotten them, and TLC finds a window with more than twice the
limit. The property therefore has that hypothesis.

`NoEntrySkipped` looks fragile, since appends shift the pages under the operator.
They shift them in one direction: `Covered` says that what a sweep has not read
has, in the log of now, a rank behind the page it has reached. The rank of a row
only grows, so the next page begins no later than what is missing. That a rank
below the number of rows belongs to a row (`RankTaken`) is the pigeonhole
principle. The theorem assumes that the page size is within the limit of
`Normalized`, 50 and 500 in the code.

`VerdictOfOneConfig` looks false at first: `Decide` takes the enabled set once
but reads the access list when it comes to `ipblock`. It holds because only one
rule of the chain reads the list, so the list of that moment does for the whole
evaluation (lemma `OneList`). Hence the assumption that the chain has no
duplicates.

`ChargedToTheirAuthor` rests on lemma `FindsClient`: whatever the client wrote is
before its own address in the list, and what is behind it are trusted proxies, so
the walk from the end stops at the client. It assumes that the addresses of
clients and trusted proxies differ and that requests pass through the trusted
proxies only.

`ServesAsConfigured` needs that int64 multiplication is exact where the product
fits (`SecondsKeep`); where it does not fit, the theorem still gives a positive
setting, but not the one asked for.

The step of `fail` is written with an operator of its own (`Counted`) rather than
with nested `EXCEPT`: this version of TLAPS expands `@` in a nested `EXCEPT`
differently from TLC.

Left to TLC: liveness and fairness, anything about ENABLED, and
`EncodingIsFaithful`. The encoder of `Payload` recurses through nested values, so
what it computes for values of every depth needs an induction over data that this
prover cannot do; TLC checks it over the shapes the handlers build. Every other
invariant and action property that a run checks is proved.

## 5. Disagreements between code and text

One is kept as a run, with a finding in `PROJECT.json`: `audit_writer_fork`
(`writer.go:219`, "so the chain stays continuous").

Others were met while modelling. They are not kept as runs; where a property is
named, it states the exact condition under which the text holds.

- `writer.go:118`, "It never blocks": `Record` waits for the read lock behind a
  `Close` that waits for a `RecordSync` blocked on a full queue (`AuditWriter`).
- `engine/cmd/engine/main.go:182`, losing entries "would leave the chain with a
  gap": they were never sealed, so the next process links over them and the
  chain verifies (`AuditWriter`).
- `repository.go:31`: a range of an unaltered log is reported broken when its
  timestamps do not follow the log, or when its two statements straddle an
  append. `AlarmHasCause` says that there is no other cause.
- `memory.go:45`, "exactly as the SQL store does", and `memory.go:85`, "matching
  the SQL store's ordering": not when timestamps are out of order, or equal.
  Its statistics count everything that is not a block as allowed and have no
  series (`StoresAgree`).
- `canonical.go`: a number that `numeric` renders otherwise (exponent notation)
  does not survive the round trip; `test/integration/audit_test.go:157-174` pins
  this limit (`EncodingIsFaithful`).
- `001_audit_log.sql:37`, "verification will name the entry they touched": after
  an edit that rewrote the hash too, the successor is named (`AuditVerify`).
- `dashboard/api/internal/httpapi/httpapi.go:313`, "no window in which the
  enforced configuration and the record of it disagree": two handlers may be
  recorded in one order and stored in the other (`LogTellsTables`).
- `docs/operations-manual.md:94`, "cannot send twice the limit": the key expires
  by Redis's clock while requests stamped earlier are on their way; twice the
  limit, and not more while requests travel for half a window at most, is
  admitted (`AtMostTwice`).
- `config.go`, "A missing or malformed value fails at startup": a buffer or a
  session lifetime that is zero or negative becomes the default, and a number of
  seconds that overflows int64 (`config.go:180`) may wrap to a positive duration
  (`ServesAsConfigured`).
- `App.tsx:40`, "Any signed-in call that answers 401 means the session is gone":
  a call of the Rules view, which is not aborted, may be answered 401 for the
  session before and put a tab of a good session back to the form (`Session`).
- A sign-out without an answer (`App.tsx:112`) shows the form while cookie and
  token are still good (`Session`).
- `dashboard/web/src/views/Events.tsx:67`, "Any filter change invalidates the
  current page number": the pager keeps the total of the filter before, so a page
  turned while a filter is being applied is empty although entries match
  (`EmptyMeansNone`).
- `docs/technical-document.md:124`, 'If "block," Nginx terminates the
  connection': after a time-out in mode open the request is forwarded, and the
  engine may then block and record it (`Gateway`).

## 6. Abstractions and what is not modelled

- Digests are injective; SHA-256 and bcrypt are not modelled.
- What a signature matches, headers and bodies are free choices: regular
  expressions are out of reach of a useful model.
- Redis and PostgreSQL are modelled from how the code uses them. Loss of data in
  Redis, clocks that step back, and the fallback for member ids are not modelled.
- Two engines that write to one log are not modelled: the deployment runs one,
  and the writer caches the head on that assumption.
- The Rules view with its set of busy rows, and Forensics: rendering, and one
  call per button. What the calls do is in `RuleConfig`, `AuditVerify` and
  `Session`.
- Static assets, logging, deployment files other than the start order and the
  restart policy, and the rendering of the web client are pure I/O.
- `RuleConfig` takes "recorded" as one step. What that step promises is
  `SyncAnswerTruthful` of `AuditWriter`; the two are not composed in one module.

## 7. What would come next

The composition of `RuleConfig` with `AuditWriter`, and of `AuditVerify` with
`AuditWriter` in place of `AuditLog`; both promises they would rest on are proved.

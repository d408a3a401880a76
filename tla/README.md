# cmdcode2api: a TLA+ development

cmdcode2api is a Go gateway that offers an OpenAI-compatible API in front of a
pool of Command Code accounts. This directory holds TLA+ models of it, TLC
configurations that check them on small instances, and TLAPS proofs of what
matters most for every instance. Source paths are relative to
`src/internal/app/` unless they say otherwise.

Run `tlc -workers 2 -config X.cfg M` for the runs below and `tlapm M.tla` for
the modules whose name ends in `Proofs`, and `SharedFacts.tla`.

## Inventory

| Component | State | Operations | What is hard |
|---|---|---|---|
| Account pool (`accounts.go`) | ordered accounts, enabled flag and 429 cooldown of each, an atomic cursor | Acquire, RecordFailure, Add, Remove, SetEnabled, SetKey, Config | requests and the console share it; Acquire reads flags that are written under other locks |
| Upstream client (`cc.go`) | the locals of each `Send` | the failover loop, error normalisation | the set of eligible accounts changes between two attempts |
| Event normalizer (`events.go`) | open tool inputs, kept calls, usage, finished | Consume | events in any order, repeated ids, late events |
| Chat handlers (`handler.go`) | chunks written, done, collected text and calls | one callback per event, the end of the answer | one protocol, two implementations; failure after the commit |
| SSE framing, conversion (`cc.go`) | none beyond a buffer | line and frame parser, OpenAI to upstream messages | limits, bare JSON lines, malformed history |
| Configuration (`config.go`), client keys (`clientkeys.go`), console (`admin.go`) | pools in memory, `config.yaml` on disk | add, patch, delete, settings, load, save | handlers run concurrently, every save marshals and writes in two steps, crashes |
| Usage ledger (`usage.go`) | counters per account and key, `usage.json` | Record, MoveAccount, Drop, Snapshot, save, load | recorders outlive their account; snapshots are not atomic |
| Quota service (`quota.go`) | snapshots, workers | RefreshAccount, RefreshAll, Run | answers out of order, accounts edited under a fetch |
| OAuth flow (`oauth.go`) | result, error, done, channels | deliver, Wait, Cancel, finish | a callback, a timeout and a cancel race |
| Login limiter (`ratelimit.go`) | failures per address | Allow, Fail, Reset | a window that does not slide, failures that arrive late, concurrent logins |
| Model exposure (`models.go`) | catalog, excluded prefixes | isModelExcluded, the checkbox list | prefixes against single models |
| Log ring (`logbuf.go`) | slots, next, filled, seq | Write, After | wrap, restarts, overlapping polls |
| Server (`server.go`, `app.go`) | listeners, background loops | start, shutdown | last save, draining |

How they interact: `handleChatCompletions` calls `Send`, which acquires accounts
from the pool and blames them for failures; the response body goes to one of
the two handlers, which drive a normalizer and record usage for the account and
the client key. The console's handlers edit the same pools and counters and
write `config.yaml`. The quota service fetches with the accounts' keys. Every
goroutine logs into the ring, which the console polls.

What makes each correct, and which property says so where it is modelled:

* pool and client: fair rotation (`RotationBound`), no eligible account is
  overlooked by a scan that others write into (`NobodyOverlooked`), a result is
  charged to an account that saw the request (`BlameIsReal`), an undisturbed
  request visits everybody before it fails (`LoneFailoverVisitsAll`), every
  request is answered (`EveryRequestAnswered`), a cooldown ends (`CooldownEnds`);
* normalizer and handlers: `StreamKeepsPromise`, `WholeKeepsPromise`,
  `ClosedOnce`, `RoleOnce`, `ChargedAsTold`, `ModesAgree`;
* log ring: `RingIsTail`, `AfterIsSuffix`, `NoLineSkipped`, `CursorRecovers`;
* configuration and client keys: `RestartKeepsPromise`; `DeletedStaysDeleted`
  is what the code says of itself and does not keep;
* usage: `SavedTurnsAreOnDisk`, `ChargedOnce`, `HistoryFollowsKey`,
  `ExitKeepsAll` (the shutdown included);
* quota: `QuotasOnlyForPool`, `ForeignHeals`;
* between the socket and the core: `FlowSettles` (and `AnswerReachesFlow`,
  which fails) for the login flow, `LockoutHolds` (and `FailuresLockOut`, which
  fails) for the limiter, `FramingIsBlockwise` for the framing,
  `ResultsNameTheirCall` for the conversion, `SaveKeepsExposure` for the list of
  models.

## Modules

| Module | Models | Depends on |
|---|---|---|
| `AccountPool` | the pool: rotation, cooldown, edits | |
| `Failover` | `CCClient.Send` by concurrent requests, the clock, the console | `AccountPool` |
| `FailoverHistory` | history variables and the properties that need them | `Failover` |
| `FailoverProofs` | theorems about the three | `FailoverHistory`, `SharedFacts` |
| `Subsequence` | the loop that appends some elements of a list to another, with the meaning of `SelectSeq` in a form the provers can unfold | |
| `EventNormalizer` | `ccEventNormalizer.Consume` as an operator | `Subsequence` |
| `StreamTurn`, `WholeTurn` | the streaming and the collecting handler | `EventNormalizer` |
| `Completion` | abstract: what a chat completion promises | |
| `ChatTurn` | both handlers in lockstep over one answer, refinements, properties | the four above |
| `ChatTurnProofs` | theorems about a turn, the two refinements included | `ChatTurn`, `SharedFacts` |
| `LogRing` | the ring, restarts, the console's polls | `Subsequence` |
| `LogRingProofs` | theorems about the ring | `LogRing`, `SharedFacts` |
| `SharedFacts` | lemmas on div and mod, least and greatest elements, loops along an interval and loops that select elements | `Subsequence` |
| `ConfigStore` | console handlers, the Config in memory, `config.yaml`, crash and restart | |
| `UsageLedger` | usage counters, `usage.json`, key changes, shutdown, crash and restart | |
| `QuotaRefresh` | refreshes of quotas under edits of the pool | |
| `ConfigStoreProofs`, `UsageLedgerProofs`, `QuotaRefreshProofs` | theorems about the three | the module; the first also `SharedFacts` |
| `OAuthFlow` | the login flows of the console | |
| `LoginLimiter` | the limiter before the admin password | |
| `SSEFraming` | the upstream's body cut into events, with its reference definition | `Subsequence` |
| `RequestConversion` | OpenAI messages to the upstream's, with its reference definition | |
| `ModelExposure` | catalog, excluded models, the list of checkboxes | |
| `MCFrontDoor` | the five last modules in one run, and their values | the five |
| `FrontDoorProofs` | theorems about the five | `MCFrontDoor`, `SharedFacts` |
| `MCBackground` | the log ring and the quota service in one run, their fairness and values | `LogRing`, `QuotaRefresh` |
| `MCFailoverLive` | failover with the console kept to some accounts, for the liveness run | `Failover` |
| `MCFailover`, `MCChatTurn`, `MCUsageLedger` | symmetry and values for TLC | |

### Failover

`Account` is the set of account objects, because a request keeps the object it
acquired although the pool has dropped it. The instant `rateLimitedUntil` is
modelled by what is left of it in ticks (`cool`), which needs no clock bound.
The cursor wraps at `CursorModulus` (2^64 in the code); an assumption makes the
wrap unobservable, as it is in any feasible run of the code. Per request, `pc`
is the point between two lock releases of `Send`:

| Action | Code |
|---|---|
| `Begin` | `Send` up to the loop: conversion error, `no_accounts`, count of attempts |
| `StartScan`, `ScanNothing` | `Acquire` at the head of the loop: the read lock, the clock, the cursor; an empty pool |
| `SkipAccount`, `PickAccount`, `PickNone` | one look of the scan: `!a.Enabled \|\| a.RateLimited(now)`, the account returned, or nil and the break |
| `AnswerFinal`, `AnswerFailed`, `AnswerRateLimited` | `doSend`, `RecordSuccess` or `RecordFailure`, `shouldFailover` |
| `Refuse` | `EarliestRateLimitWait` and the gateway's own 429 |
| `Time`, `Admin` | the clock; `SetEnabled`, `Add`, `Remove` |

`Acquire` goes account by account, because its read lock covers only the list:
`SetEnabled` writes a flag without it (`accounts.go:284`), and the answer of
another request starts a cooldown under the account's own lock. `EditPool` waits
for the scans that are under way, `SetEnabled`, `AnswerRateLimited` and the clock
do not. A cooldown is judged at the instant `now` read before the scan; `ended`
is the accounts, among those the scan has yet to see, whose cooldown has ended
since and counts all the same. Three stretches are one step each: from the read
of the clock to `cursor.Add`, one look (with `now` fixed, `RateLimited` can only
turn from false to true, and that it does so between the two reads of a look is
seen as if it did after them), and the two other loops over the pool,
`EnabledCount` and `EarliestRateLimitWait`.

`FailoverHistory` adds `tried` (accounts the request was sent to), `lone`
(nothing has interfered with it), `missed` (scans in a row that began at other
accounts while this one was eligible and nobody was given it), `from` and
`steady` (where the cursor stood when the request's scan began, and the accounts
eligible ever since). They read the modelled variables and constrain none.
`NobodyOverlooked` compares what a scan returns with the last two: it is not
its guard, which knows one account at one instant, but what the looks of a whole
scan amount to while others write.

### Chat turn

The upstream is the environment: it sends any sequence of events and ends it
with `[DONE]`, by closing the connection (`End`) or by breaking it, sending a
frame that is no event, or running into the client's timeout (`Break`).
The history variable `ending` is how the upstream ended its answer in its own
words: whole, cut off at a limit, filtered. It is read off the event
(`Ending`), not off what `NormalizeFinishReason` and `ResolveFinishReason` make of
it.
`Consume` maps a normalizer and an event to the next normalizer and what is
passed on; a finish is passed on together with the calls it releases, which the
code passes one by one just before it. Argument strings are abstracted to those
`toolCallFromEvent` accepts (`Args`) and those it rejects (`BadArgs`); provisional
tool inputs to the ids that are open, since their buffers are discarded. A usage
report is one number and optional cache details, replaced as a whole.

`Completion` is the abstract specification: content only while the turn is
open, then one commit with exactly the first call heard with each id, in that
order, or one failure with no call. The finish reason of the commit must be
`Honest`: `length` exactly when the answer was cut off and `content_filter` exactly
when it was filtered, whatever calls there are; `tool_calls` only with calls, `stop`
only for a whole answer without any. `ChatTurn` refines it twice: `StreamKeepsPromise` reads the outcome off the chunks on the
wire, `WholeKeepsPromise` off the response.

### Log ring

The slots, `next`, `filled` and `seq` are the code's; `log` is the history of
lines of the running process. `Oldest(i)` is the index expression of `After`.
The console (`loadLogs` in `src/internal/web/index.html`) is modelled with two
polls that may overlap, be lost or overtake each other.

### Configuration store

A request of the console is a handler with a program counter; its steps are the
stretches between the locks of the pool (or the key store) and of the Config:

| Action | Code (`admin.go` unless named) |
|---|---|
| `AddAccount`, `AppendAccount` | POST: the search for a duplicate, then the append |
| `PatchAccount`, `RekeyAccount` | PATCH: `SetEnabled`, then `SetKey`, which may refuse |
| `DeleteAccount`, `EditKeys` | `Remove`; the POST and DELETE of client keys |
| `PutModels`, `PutSettings` | PUT: fields that live in the Config alone |
| `Project`, `Assign` | `SyncToConfig` |
| `Marshal`, `Truncate`, `Write`, `SaveFails` | `saveConfig`, `os.WriteFile` and its errors |
| `Crash`, `Boot` | the process ends; `main`, `loadConfig` |

`disk` is whole, torn or empty. `promised` is what the last request of each kind
that ran alone has acknowledged; `trusted` are the kinds no overlapping or failed
save has touched since. `RestartKeepsPromise` compares the next process with it.

### Usage ledger

A counter is the set of turns counted in it, so that charging twice, losing a
turn and merging counters can be told apart. `accounts` maps ids to cells as the
code maps them to pointers: `Record` finds the cell under the lock, and
`AddToCounter` adds to it later, when the console may have moved or dropped it
(`ChangeKey` and `MoveAccount`, `Delete` and `DropAccount`). `ReadTotal` and
`Save` are the two halves of a snapshot. `Shutdown` is the return of
`runServer`, after the requests have drained or 15 s have passed; main's own save
follows.

### Quota service

One credential stands for the key and the id derived from it. A refresh waits
(`Begin` takes the slot and reads the key), asks (`Fetch`), clones the stored
snapshot if it failed (`Clone`), reads the id again (`Address`) and stores
(`Store`). `Sweep` is `RefreshAll`, `Ask` the console. The history field `of`
says whose data a snapshot holds; `overtaken` are the refreshes that were under
way when their account was deleted, or about to store when its key changed, and a
snapshot one of them stores carries the mark `late`. `QuotasOnlyForPool` excepts
the marked snapshots and nothing else: the mark ends when the snapshot is
overwritten or dropped, so the next one under that id is bound again.

### Between the socket and the core

Five small machines: `LoginLimiter` (the address's `failRecord`; `Allow` and
`Fail` or `Reset` are separate calls), `OAuthFlow` (the flow's mutexed fields,
its two channels, the goroutine in `Wait`, handlers that run beside it),
`SSEFraming` (one action per kind of line, one for the end of the body and one for
a read error in the middle of a line), `RequestConversion` (one action per
message), `ModelExposure` (sets of ids). They share no variable with one another,
so `MCFrontDoor` lets each behaviour run one of them, chosen by `side`: the run
has the sum of their states and not the product. The framing and the conversion
carry the reference definition they are compared with: the payloads of a whole
text read off its lines, and the call a result answers found in the request.
When the body ends, fails or goes on with an overlong line, `readSSELine` returns
an empty line with the error, and `parseStreamEvents` dispatches what is pending
before it looks at the error (`BodyOver`). The reference says so from the text
and from the history variable `body` (what reading came to), and reads none of
the parser's own variables to find the events.

## Runs

| Run | Instance | States | Shows |
|---|---|---|---|
| `failover` | 2 accounts, 2 requests, Retry-After absent or 1 s, default 2 s | 628 322 | all safety properties of failover |
| `failover_live` | 2 accounts of which the console switches, removes and adds one, 2 requests, default cooldown of two ticks | 173 898 | every request is answered; a cooldown that requests in flight start again ends |
| `failover_moves_on` | 3 accounts, 1 request | violation | see Disagreements |
| `earliest_recovery` | 2 accounts, 1 request | violation | see Disagreements |
| `chat_turn` | 2 call ids, 2 arguments, 2 usage reports, 5 events | 98 472 | the properties and refinements of a turn |
| `background` | the log: capacity 3, 5 lines, 1 restart, 2 polls; or the quotas: 2 accounts, 3 credentials, 1 slot, 2 answers, 1 edit | 139 296 | the properties of the ring and the console's cursor; snapshots stay with the accounts of the pool, and another credential's data goes |
| `usage_ledger` | 2 turns, 2 accounts, 2 ids, 1 refresh that saves, 1 edit, 1 restart | 899 231 | nothing saved is lost, nothing is charged twice |
| `config_store` | 2 credentials, 1 client key, 2 handlers, 3 requests, 1 restart | 1 184 128 | what was acknowledged is what the next process starts with |
| `deleted_stays_deleted` | the same | violation | see Disagreements |
| `front_door` | the five machines: 3 clients and limit 3; 2 flows, 2 callers; 4 lines; 3 messages of 15 shapes; 3 models, 2 prefixes | 422 610 | one property each |
| `oauth_local` | 2 flows, 2 callers | violation | see Disagreements |
| `limiter_window` | 1 client, limit 3, window 2, lockout 3, 6 ticks | violation | see Disagreements |

Why the bounds are enough. Two requests and two accounts already meet every
interaction of failover: each can move the cursor, start or extend the cooldown
and be refused between two steps of the other, while the console adds, removes
and switches; a request that finished stands for the next one, so behaviours are
unbounded. A scan of two accounts has one account behind it and one before it, and
the rest of the system can act between the looks. The liveness run has neither
symmetry nor three accounts, so one account is kept enabled at the front of the
pool and the console works on the other. Cooldowns of one and two ticks let one account recover before the
other. Five events allow two calls, a repeated id with other arguments, a finish
and something after it; all finish reasons have a representative, and so has a
word the code does not know. Five lines wrap a ring of three slots, and the
numbers after a restart are smaller than the cursor.

Two turns are enough for a save that misses what the other has added and for two
cells of one account; one edit moves or drops a counter under them, and the ids of
two accounts collide when one takes the id the other had. One slot for two
accounts makes every refresh wait for another. Three requests, two at a time, let
a refused or failed one leave something behind that the next one saves. A limit of
three, a window of two ticks and a lockout of three let a window end inside a
lockout and the other way round; six ticks see two windows that
meet and the lockout of the first, and with three clients failures that arrive
after the window they were let in. Two
callers and the goroutine are all that can meet in one flow, and a second flow
takes its place. Four lines hold a payload broken over two, what comes before
and what ends it. Three messages hold a call, the same id with another tool, and a
result.

The bounds in guards are `MaxEvents` (`ChatTurn`), `MaxLines` (`LogRing`,
`SSEFraming`), `MaxBoots`, `MaxEdits` and `MaxNow`; `MaxMessages` bounds the
requests of the initial states.

`chat_turn`, `usage_ledger`, `config_store`, `deleted_stays_deleted`,
`front_door`, `oauth_local` and `limiter_window` do not check deadlock: a turn, an answer, a
conversion and a flow end, a process that refuses a torn file stays down, and
turns, requests, restarts and ticks are used up.

Symmetry: accounts and requests, call ids and arguments, turns and ids of
accounts are only compared for equality; the runs with symmetry check no liveness.

Fairness. `Failover!Fairness`: each `Send` is a goroutine the scheduler runs and
its upstream call ends with the client's 600 s timeout at the latest
(`NewCCClientWithPool`), so its steps are weakly fair, and so is the clock.
Arrivals and the console are not. `MCBackground!LogFairness`: the page's timer
asks again and again (weak), and not every poll is lost (strong fairness of some
poll being served and some being received). `MCBackground!QuotaFairness`:
goroutines run and every query ends after `quotaRequestTimeout` (weak fairness of
some refresh proceeding, and of `Drop`); the ticker fires (`Sweep`); a sender that
waits for the semaphore is served in turn (channels are first come, first
served), which is strong fairness of each `Begin` of the sweep; and a credential is
not refused forever (strong fairness of a usable `Fetch`), without which no
snapshot could replace another: with a key that is always rejected the console
keeps showing the old credential's data.
`OAuthFlow!OAuthSpec`: the waiting goroutine is scheduled and its timer fires.

## Disagreements between documentation and code

* `FailoverMovesOn`: the README says a failed request is retried with the next
  account. The start of the scan counts disabled accounts, so an undisturbed
  request can be sent to one account twice and to another never.
* `EarliestRecoveryReported`: the README promises the earliest recovery time
  when all accounts cool down. A request whose own last attempt caused that is
  told the cooldown of that last account.
* `DeletedStaysDeleted`: `SyncToConfig` says the legacy key is cleared so that a
  deleted account cannot resurrect; it is cleared only while accounts are left, so
  the last one comes back with the next start (`accounts.go:403`, `config.go:167`).
* `AnswerReachesFlow`: a flow that listens on 127.0.0.1 gives its handlers other
  channels than the ones it reads (`oauth.go:103-104`, `199-200`). The browser is
  told of success, and the login ends with its timeout.
* `FailuresLockOut`: the README and the limiter's comment promise a lockout after
  5 failures in 10 minutes (`README.md:423-424`, `ratelimit.go:16-18`). The window
  does not slide: it begins with a failure and is forgotten as a whole
  (`ratelimit.go:65-67`), so as many failures as the limit on both sides of its end
  lock nothing. A failure of a request let in before a lockout, that arrives after
  the window, replaces the locked record and loses the lockout. `LockoutHolds` is
  what does hold: it counts from a failure after a quiet spell and excepts the
  late one.

Three more are listed under the hazards in `PROJECT.json` without a run: an
unchecked model whose id is a prefix of a checked one hides both, and is itself
still called by its bare name (`README.md:358`); a failed refresh can
overwrite a newer snapshot with the older one it has cloned (`README.md:383`); a
refresh that is running while its account is deleted stores its snapshot after
the delete (`quota.go:533`), and it persists, though `DropAccount` says of the
removed account's data that it is forgotten so that it stops persisting
(`usage.go:192-193`).

## Proofs

Every safety invariant of the runs that pass, the action properties
`NobodyOverlooked`, `LockoutHolds` and `RestartKeepsPromise`, and both refinements
of `Completion` are theorems, for every value of the constants that the named
assumptions allow. Each proof has the same shape: an inductive invariant that
implies the property, one lemma per action, and a temporal step at the end.

### Failover

`FailoverProofs`, for any finite set of accounts, any number of requests, any clock
resolution and Retry-After values, from `AccountAssumption`, `ClockAssumption`,
`CursorAssumption` and `NoAccountAssumption`; `RotationIsFair` counts scans and
needs `RequestAssumption` (finitely many requests) too:

* `TypeCorrect`, `HistoryTypeCorrect`: type correctness, one step per action.
* `NobodyOverlookedHolds`. What a scan has passed is not what is eligible now: an
  account it skipped may have been enabled since. `ScanInv` says that none of the
  accounts looked at so far has been eligible ever since the scan began, and that
  an account that has been is in no `ended` (`StepScanInv`, one step for each way
  a step of another meets the scan); at the last look that is the property.
* `RotationIsFair`. `RotationBound` alone is not inductive: that an account was
  passed over twice says nothing about the next scan. `RotationInv` adds how
  far the cursor is from it: the scans it has been passed over plus the scans
  until one starts at it stay below the size of the pool, once for each scan that
  has started at it and not looked yet (`HeadedFor`). A scan that starts moves
  the cursor one closer (`AheadStep`); one that starts at the account joins those
  headed for it and can leave them only by being given it (`HeadedForStays`), or
  the account is not eligible at the look.
* `BlameIsRealHolds`. `BlameInv` adds what is known inside the loop: the account
  in use has been tried, and before the first failure none has.
* `LoneFailoverVisitsAllHolds`. That the tried accounts are the pool when the
  request gives up is known only at the end. `LoneInv` says where the request
  stands on the way: the untried accounts are the stretch of the pool at which
  the scan starts next, there is one attempt left for each of them, and all of
  them are still eligible, because a 429 only cools down the account that
  `BlameInv` says has been tried.

### Log ring

`LogRingProofs`, for any capacity and number of lines, from `RingAssumption`:

* `RingIsTailHolds`. `RingInv` says line k is in slot k - 1 modulo the capacity;
  a write hits the slot of the line that falls out (`ModDistinct`), and the index
  expression of `After` denotes these slots (`RingInvIsTail`).
* `AfterIsSuffixHolds`: along the loop of `After`, what it has collected from
  the first slots is the stretch of the log they hold beyond the cursor.
* `NoLineSkippedHolds`, `TypeCorrect`. A cursor is right only if every cursor it
  may be replaced by is. `CursorInv` says that up to the console's cursor, and up
  to the cursor each poll was asked with, every line is accounted for, and that
  an answer on its way brings what is missing up to the cursor it carries.

### Chat turn

`ChatTurnProofs`, for answers of any length and any sets of calls, arguments,
texts and usage reports, from `NormalizerAssumption`, `ReplyAssumption` and
`OutcomeAssumption`. The invariant `IInv` has these parts:

* `Together`: while the stream is read, both handlers have the same normalizer.
* `Decision`: until the finish event the normalizer keeps what a commit would
  send, afterwards the turn does, with a reason that agrees with how the upstream
  ended its answer (`EndedAs`, `FinishEndsAs`). `FirstCalls` relates both to what was heard:
  the calls, in order of the least index at which their id was heard.
* `Metered`: the usage held is the last one reported.
* `Speaking`, `Spoken`: before its `[DONE]` the stream consists of content, and
  afterwards it is a commit that says what `Decision` holds, or a failure.
* `Alone`, `Answered`: the collecting handler reads on without the other only
  after a finish that asks for calls there are none of, where both must fail.

`ClosedOnceHolds`, `RoleOnceHolds`, `ChargedAsToldHolds` and `ModesAgreeHolds`
follow from it, and so do the refinements. For `StreamKeepsPromiseHolds` and
`WholeKeepsPromiseHolds` the initial state maps to the initial state of
`Completion`, and each action to one of its steps or to a stutter.

### Configuration store

`ConfigStoreProofs`, for any credentials, client keys, settings, handlers and
restarts, from `StoreAssumption`: `TypeCorrect` and `RestartKeepsPromiseHolds`.
The property looks at the next process only. The invariant follows what a request
that is alone has acknowledged along the way there: `Alone` (while a kind of data
is trusted nothing overlaps), `InHand` (what the request holds is what the pool
and the keys hold), `InMemory` (the Config agrees with the promise or is about to
renew it) and `OnDisk` (a whole file keeps it; `Migrated` is `loadConfig`).

### Usage ledger

`UsageLedgerProofs`, for any turns, accounts, ids, refreshes, edits and restarts,
from `LedgerAssumption`:

* `SavedTurnsAreOnDiskHolds`, by `DiskInv`: the holder of the lock around save
  has read every turn that is saved so far, so the file it replaces has nothing
  it lacks.
* `ChargedOnceHolds`, by `OnceInv`: no two ids share a cell, no turn is in two
  counters, and a turn that has not added itself is in none; a cell is not in
  use before the turn that creates it (`NotYetCreated`).
* `HistoryFollowsKeyHolds`, by `HistoryInv`: the history of an account is under
  its id or, between the two halves of a key change, under the id before.
* `ExitKeepsAllHolds`, by `DrainedInv`: once the requests are drained nothing
  changes between the read of main's save and its end.
* `TypeCorrect`.

### Quota service

`QuotaRefreshProofs`, for any finite set of accounts, any number of slots and any
answers, from `QuotaAssumption`: `TypeCorrect`, by which no more refreshes run
than there are slots, and `QuotasOnlyForPoolHolds`. `OwnerInv` adds what is about
to be stored and for whom refreshes run: an account of the pool, a credential that
is being dropped, or a refresh that its edit has overtaken, whose snapshot will be
marked `late`.

### Between the socket and the core

`FrontDoorProofs`:

* `LockoutHoldsAlways`, for any number of clients, limit, window and lockout longer
  than the window, from `LimiterConstants`. A failure after a quiet spell finds no
  record or one whose window is over, so it begins one (`FailKeepsInv`), and as
  long as none comes late, `Recorded` says that the record counts exactly the
  failures since, locked when they reach the limit. An `Allow` may forget it, but
  only when its window and its lockout are over: that is `GivenUp`.
* `SaveKeepsExposureHolds`, for any catalog, from `ExposureConstants` and
  `ExposureNames`. The second says that prefixes are transitive and that the ids
  have at most one slash; with two, the name after the last slash would no longer
  compare like the id, and the theorem would not apply.
* `ResultsNameTheirCallHolds`, for requests of any length, from
  `ConversionConstants`. `NamesKnown` says the map holds, for each id seen, the
  name of its latest call; `OutputSoFar` that the output stands for the messages
  before the current one.
* `FramingIsBlockwiseHolds`, for bodies of any length, from `FramingConstants`.
  `FramingInv` says that `dataLines` is what the text gathers since its last
  break while the body is read, and that the caller has been given what the text
  closes; a bare line makes two dispatches in one step, and the end of the body
  makes the last one. The reason the call returns for is part of the theorem.
* `FrontDoorTypeCorrect`: the types of the five machines, with `OAuthConstants`;
  `OAuthInv` adds which flow and key a handler has in hand at each of its steps.

### What is only model-checked

Liveness and fairness: `EveryRequestAnswered`, `CooldownEnds`, `CursorRecovers`,
`FlowSettles` and `ForeignHeals`. They need reasoning about `ENABLED`, which the provers installed here do not support. The proofs about
loops use induction along an interval (`BoundedInduction` and the lemmas after it in
`SharedFacts`), stated for sets, since a theorem over an operator cannot be
instantiated; what a loop of the code computes is modelled by a function on an
interval for the same reason, and no module with a theorem uses `RECURSIVE`.

## Plan

In this order:

1. Overlapping edits of the console in `UsageLedger`; the end of the process
   during a sweep in `QuotaRefresh`; `resolveModelName` in `ModelExposure`.
2. The steps that the liveness properties rest on, as theorems: from which
   states an action decreases what a request, a cooldown, a poll or a refresh
   still has before it.

## Not modelled

Wording, colours, translations, the web page apart from its log cursor, random
ids and deployment: they keep no state the other parts depend on. The display
fields of an account (last error, last used, failure counts) decide nothing.

What the modelled components leave out: names of accounts and keys, and enabling
a client key, which are saved like everything else (`ConfigStore`); the counters
of client keys, which `Record` charges as it charges accounts but which never
move; the JSON of quotas and models; the choice of a port, scratch files and the
command line's wait of a login; schemas of tools and data URLs of images; the
listener, and the order of the middleware.

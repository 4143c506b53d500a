# Verification of nano-llm-proxy

nano-llm-proxy is a gateway in front of several LLM providers. Clients call
it with one API key of their own; it holds a pool of upstream keys per
provider, walks the pool until an upstream answers, and translates between
three protocols. An admin GUI edits users, providers, keys and settings in a
SQLite database while requests are being served.

This directory holds TLA+ models of the parts whose correctness depends on the
order in which things happen, configurations that check them with TLC, and
proofs for TLAPS. Every definition follows the Go source; the mapping from
definitions to source lines is in `PROJECT.json` (`map`).

    tlc -config KeyPool.cfg MCKeyPool        # one of the runs below
    tlapm KeyPoolProofs.tla                  # all proofs

## 1. The system

| Component | State | Operations | Interacts with |
| --- | --- | --- | --- |
| Key pool (`gateway/pool.go`) | per key: disabled, key-wide cooldown and its cause, per-model cooldowns, last use, the day's count | pick, cooldown (three scopes), disable, setEnabled, rateLimitedFor | called by every rotation loop; replaced by rebuilds |
| Rate-limit breaker (`gateway/ratelimit.go`) | per (provider, model): recent 429s by key, trip, backoff | record429, success, tripped, prune | read once at the start of a walk, fed by its 429s |
| Rotation loops (`zen.go`, `generic.go`, `anthropic_*.go`, `responses_endpoint.go`) | one request's walk: excluded keys, attempts, single-attempt mode, surface | next, rejected, succeeded, exhausted; surface flip | pool, breaker, learned surfaces, upstream |
| Rebuilds and admin mutations (`gateway.go`, `api_*.go`) | registry of pools; a mutation's locals | write a row, then refresh every copy | database, pools, caches, catalog |
| Client-key and user-access caches (`clientkeys.go`, `useraccess.go`) | copies of two tables behind atomic pointers | reload, lookup | rebuilt by mutations, read by every request |
| Merged catalog (`routes.go`) | cached model list under `catMu` | fetch, invalidate | asks every provider; invalidated by mutations |
| Runtime settings (`settings.go`, `api_settings.go`, `modelmeta_sync.go`) | one JSON document and an in-memory copy | PUT, responses-api switch, catalog sync | read everywhere |
| Accounts and sessions (`api_users.go`, `api_useraccess.go`, `api_clientkeys.go`, `roles.go`) | users, sessions, client keys, revocations | create, role change, disable, delete, password, revoke | client-key cache, access cache |
| Sign-in (`auth.go`, `googleid.go`) | failed-login counters, Google's signing keys | allow, fail, reset; verify, fetch | sessions, Google |
| Usage log (`usage.go`, `clientkeys.go`, `routes.go`) | event buffer, counters, activity ring | add, drain, flush, prune | maintenance loop, store |
| Usage reports (`usage_report.go`) | none: two or three queries per report | overview, series, log | the table the maintenance loop writes |
| Key verification and import (`keycheck.go`, `api_keyimport.go`) | a report per import | probe, insert | upstreams, store |
| Protocol translators (`sse.go`, `zen.go`, `anthropic*.go`, `responses*.go`) | one stream's partial message | per conversation; per event of an answer | rotation loops |
| Store (`store.go`) | SQLite, one connection | queries, transactions, migrations | everything |
| Enrichment, web tools, local mode, start-up, web GUI | - | - | see section 8 |

Nothing serialises admin mutations: every signed-in user runs them (each may
create client keys), and a mutation is a write followed by a dozen reads and
installs. Requests keep the pool they resolved, so several generations of pools
are in use at once. Upstream answers arrive in another order than the picks,
clients hang up, and the process may stop at any instruction. What survives is
the database.

What makes each component right:

* pool: no late failure lets a key serve more than its daily cap; a 429 for one model does
  not take the key from the others; a rate limit is reported to the client only
  when there is one, with the instant at which a key is really free;
* breaker: two distinct keys within the window put a model in single-attempt
  mode, between a floor and a cap, and no order of concurrent 429s compounds or
  shortens it;
* rotation: bounded work per request, no key twice, a good key is found if
  there is one, every request ends unless both surfaces refuse its model for ever;
* rebuilds: an answered change is live, what the upstream taught about a key
  is not forgotten, a key switched on is on;
* settings: what is stored is always valid, and no writer undoes another's part
  of the document;
* accounts: some superadmin remains, an account cut off stays cut off, old
  revocations do not come back;
* sign-in: guesses are bounded, a signing key Google withdrew expires;
* usage: every request is accounted once, reports agree with themselves;
* key import: a key the upstream rejects is never saved, the file's order is
  the rotation's;
* translators: every turn and every piece of an answer arrives once, in order,
  and a stream is valid wherever it is cut.

The full list of what can go wrong, with source lines and the properties that
cover it, is `hazards` in `PROJECT.json`.

## 2. Modules

| Module | Models | Role |
| --- | --- | --- |
| `KeyPool` | `pool.go` | component: one pool and a clock |
| `KeyPoolAudit` | - | its history variables and properties |
| `KeyPoolProofs` | - | theorems about the pool |
| `RateBreaker` | `ratelimit.go` 42-141 | component: the breaker |
| `RateLimitPolicy` | the breaker's promise | abstract specification |
| `RateBreakerAudit` | - | refinement mapping, history, properties |
| `RateBreakerProofs` | - | theorems about the breaker and its policy |
| `Rotation` | `ratelimit.go` 143-292, `zen.go`, `gateway.go` classify | composes `KeyPool` and `RateBreaker` (INSTANCE) with concurrent requests |
| `RotationAudit` | - | properties of walks |
| `RotationProofs` | - | theorems about walks over a shared pool and about the stream a client gets |
| `Rebuild` | `gateway.go`, `pool.go` 102-149, caches, `api_providers.go`, `api_helpers.go`, `routes.go` 374-396 | mutations, rebuilds, restarts against requests |
| `RebuildAudit` | - | history and properties |
| `RebuildProofs` | - | theorems about mutations and rebuilds |
| `SettingsDoc` | `api_settings.go`, `modelmeta_sync.go`, `store.go` 792-851 | component: the settings row, its copy and their writers |
| `SettingsAudit` | - | history and properties |
| `SettingsProofs` | - | theorems about the stored document and its copy |
| `Accounts` | `api_users.go`, `api_useraccess.go`, `api_clientkeys.go`, `roles.go`, parts of `auth.go` and `store.go` | component: the account tables and the handlers over them |
| `AccountsAudit` | - | history and properties |
| `AccountsProofs` | - | theorems about the account rules |
| `SignIn` | `auth.go` 104-200, 300-420, `googleid.go` | component: login back-off and Google's key cache |
| `SignInAudit` | - | history and properties |
| `UsageLog` | `usage.go`, `clientkeys.go`, `routes.go`, `store.go` (usage) | component: counters, buffer, ring, maintenance loop |
| `UsageReport` | `usage_report.go` | extends `UsageLog` with a report being computed |
| `UsageAudit` | - | history and properties of both |
| `UsageProofs` | - | theorems about the log, the ring and the reports |
| `KeyImport` | `api_keyimport.go`, `keycheck.go`, `api_providers.go` | component: the ways a key reaches a provider |
| `KeyImportAudit` | - | history and properties |
| `KeyImportProofs` | - | theorems about the keys that are saved |
| `Dialogue` | `anthropic.go`, `anthropic_outbound.go`, `zen.go`: requests | functions: a conversation restated for another protocol |
| `StreamWriters` | `sse.go`, `anthropic*.go`, `responses*.go`: answers | functions: an answer restated event by event |
| `Exchange` | the handlers' choice of translators | composes both with a client and an upstream |
| `ExchangeAudit` | - | properties |
| `MCKeyPool`, `MCRateBreaker`, `MCRotation`, `MCRebuild`, `MCSettings`, `MCAccounts`, `MCSignIn`, `MCUsage`, `MCKeyImport`, `MCExchange` | - | instances for TLC |

Components never mention properties, and the `Audit` modules add only
variables no action reads. Definitions whose comment begins with "Mutant of"
are deliberately wrong forms of the definition that follows; no specification
uses them. They show that a property can fail: with the mutant in place of the
definition TLC refutes it (`mutants` in `PROJECT.json`).

### KeyPool

`keys[i]` is `KeyState`; `now` is the wall clock, in units of the model, with
calendar days of `DayLen` units. `Pick` is `pickAt` under the lock; which keys
it may return is `Choice`: the walk of the priority modes (`priority-daily`
starts at today's offset) or the least recently used. Reaching the cap sends
the key to sleep until midnight in the same step. `Cooldown`,
`CooldownAccount`, `CooldownModel`, `Disable` and `SetEnabled` are the
functions of the same names; a late failure for any key that was ever picked
may arrive at any time. Functions that read the clock before taking the
lock (`pick`, `cooldownModel`, the breaker's callers) use a `Reading`, up to
`ClockLag` old; those that read it inside (`cooldown`) use `now`.
Left out: the request counters shown in the GUI. Day numbers stand for the
date strings, `0` for "no stamp".

### RateBreaker and RateLimitPolicy

`breaker[m]` is `modelBreaker`, with `live` telling whether the map has the
entry. `Record429` is the whole function: it prunes every model's idle entry,
starts afresh if the trip ran out, prolongs a running trip, or counts the hit
and trips. `Success` deletes the entry.

`RateLimitPolicy` says the same without the bookkeeping: 429s count while they
are inside the window and were not used up by a trip or a 200; two keys that
count start a single-attempt period within the bounds; a 429 during it can
only prolong it. `RateBreakerAudit!Policy` instantiates it with the hits still
in the window and with `openUntil` while the trip is running, and the run
`breaker` checks that every step of the breaker is a step of the policy.
The point: windows, pruning and trips that ran out are handled lazily in the
code, at the next 429, and yet nobody can tell.

### Rotation

A request is a record with the fields of `keyRotation` and the loop's locals.
It takes one step per lock it acquires, so other requests run between its
pick, the upstream's answer, the two halves of filing a 429, and the final
`rateLimitedFor`. The provider's type is `typ`; `HandleChat`, `HandleMessages`
and `HandleResponses` choose among the seven loops of the code, each a record:
`flip` says what a `flipsurface` verdict does (`"retry"` flips and retries the
same key, `"fail"` ends the request, `"next"` tries the next key) and `decodes`
whether a 200 may still fail to parse. `Verdicts` are the branches of
`classify`, `ReliableKeys` the keys whose upstream always answers 200,
`ServedSurfaces` the surfaces on which zen serves the model: the others refuse
every key, these still may refuse an unreliable one. `Disconnect`
cancels the request's context; the call under way, or the next one, then fails.

### Rebuild

The tables are `status`, `keyRow`, `clientRow`, `accessRow`; the copies are
`registry` with `pools`, `clients`, `denied`, `catalog`. A mutation is one
`Write` by a handler and then `rebuildPools` in the steps between which others
can run: two queries for providers and keys, the copies of the old pools'
states, the swap, query and install of the two caches, the invalidation (which
waits for `catMu`), and for a key switched on `clearRuntimeDisable`. A failing
store read ends it half done. Pools live in generations: a request or a
handler that holds an old one keeps it alive, and generation numbers are reused
once nobody does. Of a key's runtime state only the disable is modelled; the
other fields are copied by the same lines.

A request authenticates, resolves its provider and checks the access cache in
one step (`Arrive`): the three reads change nothing, and no property depends on
their order. After that it picks keys from the pool it holds and may have them
rejected. `Restart` is a crash at any point and a start from the database.

### SettingsDoc

`doc` is the row `runtime_settings`, `copy` is `rsPtr`, `mode` what the live
pools were built with, `learned` the surfaces requests found out. A PUT is
`Put` (validate, load the sync status), `PutSave`, `PutSwap`, then a rebuild
(`Build`, `Install`) and `Forget`; a switch of the responses-api flag is one
transaction and the same rebuild. A catalog sync is `SyncMerge` (fetch, load,
merge), `SyncPersist` or `SyncReport`, `SyncReload`, `SyncSwap`. An error of the
store or of a fetch ends a handler or diverts a sync at each of these points,
and the installer, another process, writes the row at any time.

All tuned sections are one value, because writers copy them together or not at
all. Of a model's entry the model keeps what `Validate` and the routing ask:
present, positive limits, the flag. The catalogs a sync fetches are chosen
freely: which models are live, which models.dev documents, and how well. When a
background sync is due is left open, so it may start whenever none is running.
The rebuild is `Rebuild`'s, reduced to the one thing it takes from the copy.

### Accounts

The tables are `users`, `sessions`, `keyRow` and `access`; `clients` is the
client-key cache built from them. A handler `h[a]` authenticates its
caller in the step that starts it, and then goes through the statements of the
code: `read` (the account it is about), `count` (the superadmins, when the
change could take the last one), `write`, `clear` (a promotion's revocations) or
`kill` (the sessions, after a deactivation or a new password), `refresh` and
`install`: the key list is queried into the handler's `copy` and stored in the
cache later, without a lock. Any
statement may fail, which ends the handler where it stands, and a crash ends
them all; on the way up `Bootstrap` refuses a table without a superadmin.
Deleting a user takes its sessions and keys along in the same statement; its
revocations stay behind, hidden by a join. A user has at most one session, one
client key and one revocable provider; an id is never used twice
(AUTOINCREMENT).

### SignIn

`fails[p]` is the back-off's entry for a pair of address and email. A sign-in by
password asks `allow` before it checks the password and calls `fail` or `reset`
after, so several may be past the door when the lock-out starts. One by Google
token looks its key up under the verifier's lock, which it holds over a fetch:
others wait. A fetch takes up to `FetchTimeout` instants, may fail, and brings
what Google publishes when it is answered. Instants are distances from now, cut
off where the code stops telling them apart, so time is unbounded and the state
space finite. What else a token claims is one verdict.

### UsageLog and UsageReport

A request counts in `deltas` when it is let in and is filed when it ends, in
`buf` and then in the `ring`, under two locks. `loop` is the maintenance loop
with what it has taken out of memory: the counters are added in one statement
per owner, the batch inserted in one transaction, old rows pruned. The two
writes may fail, and a crash loses what is in memory; a shutdown does, too.

A report `rep` asks its queries one after the other, and the loop may insert and
prune in between. Kept are the overview (totals, percentile by OFFSET, buckets),
the series by group with "other", and the request log's pages. An ORDER BY with
LIMIT and OFFSET is modelled by how many rows come before one (`Shorter`,
`Larger`, `Newer`): the row at an offset has that many before it, and a page
those whose number divides to the page's. Buckets are aligned to the client's
zone with Go's and SQLite's division.

### KeyImport

A request reads the provider and its keys, verifies, and writes. An import
verifies `Parallel` keys of its file at a time and inserts what passed in one
transaction; `Add` and `Create` insert one key or all, `Patch` changes the
surfaces. `Verdict` is `verifyUpstreamKey`: each surface is asked for a model
list and then for a model call, one of which may not look at the key; a rejection
decides, an unanswered probe leaves the key unverified. Clients may go away in the middle,
keys and the provider may be deleted, and a provider created again has a new id.

### Dialogue, StreamWriters and Exchange

A conversation is a sequence of messages of blocks: text, images, calls and
results, each piece a number of its own. `Dialogue` has the three translations
of requests as functions of sequences. `StreamWriters` has the answers: a
writer is the translator's local variables and what it wrote so far, and each
event of the upstream maps it to the next. `Exchange` lets a client speak, the
gateway restate, the upstream answer event by event and hang up anywhere, and
the client read and go on with the results of its tools. `Translating` is the
set of routes on which anything is translated: the client's protocol, the
upstream's, streamed or whole, zen (which always streams) or not.

## 3. Runs

| Run | Shows | Bounds |
| --- | --- | --- |
| `pool` | cap, exact Retry-After, honest 429 reports, 429s stay with their model | 2 keys, 2 models and the catalog's model-less picks, cap 2, 2 days, a midnight in the clock, lag 1, one backdated pick, cooldowns of 1 unit |
| `breaker` | the breaker implements the policy; bursts do not compound; idle entries are dropped | 2 models, 2 keys, lag 1, window 2, idle time 4, clock to 7, cooldowns 0 and 5, cap 4 |
| `rotation` | no key twice, failover reaches the good key, every request ends unless both surfaces refuse it for ever | 2 requests, 2 keys (one good), budget 2, provider types zen, openai and anthropic, all ten verdicts, clock to 2, disconnects |
| `rebuild` | changes are live, disables survive, re-enables stick | 2 handlers, 1 request, 2 providers, 1 key, 2 writes, 1 fetch, 1 failure, any number of restarts |
| `rebuild_race` | violation: overlapping mutations install a stale copy | 2 handlers, 2 writes |
| `settings` | the document stays valid, nothing is clobbered, PUTs are live | 1 handler, 2 syncs, 1 model, 2 tunings, 2 edits, 1 failure, any number of restarts |
| `accounts` | a superadmin remains, cut-off accounts stay out unless an older copy of the keys replaces a newer one, promotions clear revocations | 2 superadmins and one account to create (with Google sign-in), 2 handlers, 3 requests, 1 failure, any number of restarts |
| `sign_in` | guesses are bounded, withdrawn keys expire | 2 pairs, 2 sign-ins at a time, lock-out after 3 failures for 2 instants, window 2, 2 signing keys, max-ages 1 and 3, a fetch every 2 and for at most 2 instants; time and the number of sign-ins unbounded |
| `usage` | events and counters are accounted once, the ring and the reports are right | 2 owners, 2 requests, buffer and ring of 2, retention 1 day, 1 failure or crash; either 3 calls on an empty table, or 1 call, 1 day and 1 report on a table of 3 rows |
| `key_import` | bad keys stay out, the file's order is kept, checks hold unless raced | 2 good keys and a bad one, 3 files (a duplicate and a blank, a bad key in the middle, good keys only), 2 requests, 2 probes at a time, 3 requests made |
| `exchange` | turns and answers survive translation, Anthropic streams are valid | every translating route, 7 pieces said, 1 image or instruction, 2 calls per answer, calls in up to two fragments |
| `exchange_calls` | violation: two streamed calls get one index | zen's Responses surface streamed to a chat client, 6 pieces |

Why the bounds are enough to be of interest:

* `pool`: 3 clock units of a calendar day of 2 cover both sides of a midnight,
  and a failure that replaces the until-midnight cooldown by one that ends
  earlier. A lag of 1 lets a pick read the clock before that midnight and get the
  lock after another pick of the new day; with cap 2 the key is not yet cooling
  then, so the count really starts again (with cap 1 it cannot). `MaxBackdated`
  bounds such picks. Two keys make "the first to be free" a choice, two models
  let one model's 429 show on another. Models are permuted, and keys too:
  whatever the order, a free key is picked when the others are excluded. The
  view `Live` leaves out cooldowns and days that are over for every reading.
* `breaker`: two keys are what a trip needs, two models let one model's 429
  prune the other's entry; a cap of four times the floor and seven units let
  a trip start, grow to the cap and idle out. The idle time is the least that
  `BreakerAssumption` allows, the window plus twice the lag, so that an entry is
  pruned as soon as it may be.
* `rotation`: the walk order of `priority-daily` on this day makes key 1, the
  good one, the last, so failover needs the whole budget. Two requests are what a
  race needs, and two clock units let a cooldown run out under a trip that has
  not. The model is served on one surface only and its flag names the other, so
  zen's loops have to flip; the key that is tried first may be refused on both.
* `rebuild`: two mutations can overlap or follow each other with a third
  party (request, fetch, failure) anywhere; the key can move between the builtin
  provider, whose pool is retained while switched off, and the other one.
* `settings`: two syncs overlap each other and the edits of an admin and the
  installer; a second handler adds overlapping PUTs, which the properties
  exclude, and makes the run four times as long. One model is enough, since
  every step treats models independently.
* `accounts`: two superadmins are the least with which two handlers can each take
  one, or hold a copy of the keys while the other queries and installs a newer
  one; three requests are a race and a third that builds on its outcome.
* `sign_in`: the one bound on behaviours is two sign-ins at a time; the third
  failure is the lock-out, and a max-age of 3 outlasts the throttle and a fetch.
* `usage`: three events overflow a buffer and wrap a ring of two. The rows of
  the filled table lie on both sides of a bucket's edge and of the retention.
* `key_import`: two writers can each take the other's check away; a file of three
  lets the second of two probes end first and a refused key leave a gap.
* `exchange`: seven pieces are a question, an answer of text and two calls (one
  in two fragments), and two results, or two shorter rounds with an instruction.

Deadlock is not checked in any run: clocks stop at `MaxNow`, requests are
served once and writes, edits and pieces are counted, so a run may end anywhere
(in `sign_in`, where nothing is counted, the clock can always tick).
Symmetry is used for the pool's models, breaker keys, requests, handlers, sign-ins, signing keys
and the two first superadmins, which are never compared or ordered; not in runs
with a liveness property.

## 4. Properties worth explaining

* `CapRespected`: two things protect the cap, the cooldown until midnight and
  the day's count. A late failure may replace the first, a pick dated before the
  midnight may restart the second. The history `backdated` counts such picks: each
  may cost one more cap, and without one the cap is exact.
* `RetryAfterHonest`: the code computes the wait from the later of several
  ends per key and the minimum over keys. The property asks the pool itself:
  if nothing else happens, `pick` finds nothing at any instant before the
  announced one and finds a key at that instant.
* `RateLimitReportIsReal`: a key-wide cooldown may come from an account-wide
  429 or from a fault. The flag that tells them apart is overwritten by each; the
  history `told` remembers what upstream really said.
* `BurstDoesNotCompound`: ten concurrent 429s must not multiply the backoff by
  a thousand. Between two doublings lies at least a window.
* `FailoverReachesGoodKey`: whatever other requests do to the other keys, a
  walk that was not stopped by a rate limit, with a budget as large as the
  pool, is served if some key is good. A client that gave up is excepted: its
  walk cools the keys it touches (section 7).
* `ChangesAreLive`: after a mutation that overlapped with no other and did
  not fail, all five copies agree with the database - even if earlier mutations
  overlapped, failed half-way, or a catalog fetch was under way.
* `DisableSurvivesRebuilds`: a key rejected on the live pool, while no rebuild
  was between copying and swapping, stays out of rotation through any number of
  concurrent rebuilds until its row or provider is touched or it is switched on.
* `ReenableSticks`: the rebuild inside a switch-on carries the disable over and
  the last step lifts it; afterwards no later rebuild brings it back.
* `SyncKeepsTuning`, `FlagsSurvive`, `StatusSurvives`: three parts of one
  document with three owners. The sections an admin tunes survive every sync,
  wherever it reads; a model's flag survives unless it was edited (or pruned by
  another sync) while a sync worked on its copy; a sync's outcome survives a PUT
  unless it was recorded between the PUT's load and its save. The last two are as
  strong as the code allows: without the exceptions TLC refutes them.
* `SettingsAreLive`: an answered PUT that overlapped with no other writer has
  reached the copy, the pools and the routing, even if requests learned another
  surface half-way.
* `SuperadminRemains`, `PromotionClears`: the count and the write are separate
  statements. The history `raced` is set when a handler writes on a check another
  has invalidated, `partial` when a promotion stops before it cleared the
  revocations; without these two both hold through failures and restarts.
* `CutOffStaysOut`: the key list joins the owner's switch, so whatever is queried
  after the deactivation leaves the key out, also a key switched on meanwhile.
  But a refresh may query before the deactivation and install after it was
  answered. The history knows which copies were queried before which
  (`before`); one is `overtaken` when a later one is installed first, and the
  property excepts the time for which an overtaken copy is in use (`regressed`),
  nothing else: a refresh that overlaps and keeps its turn must leave the key out.
* `GuessesBounded`: a lock-out that starts while others are past the door. The
  bound is one more per concurrent attempt, and no more, although the entry is
  reset, expires and is pruned meanwhile.
* `WithdrawnKeysExpire`: the cache is refreshed by time and by unknown keys, a
  fetch in progress may bring an answer that is old when it arrives, and a
  failed one keeps what there was.
* `AccountedOnce`: an event is in the buffer, in the batch, in the table or
  lost for a reason the code names. `lost` grows only by the oldest of a full
  buffer, a failed insert's batch, a crash's memory and expired rows. That no
  event outlives a drain bounds what a crash costs.
* `ReportsAddUp`, `WalkMissesNothing`: what one report's queries say of each
  other. The first excepts a table that changed under the report, the second
  only one that was pruned under it; the percentile is compared with its
  definition and not with the OFFSET that computes it.
* `BadKeysStayOut`: two probes per surface, of which either (not both) may let
  any key pass - a public list, zen's call that looks at the model first - and any
  may stay unanswered, over two requests that change the surfaces. A key
  saved while the provider had no endpoint is excepted (`bare`).
* `EveryRequestEnds`: a flip is not counted, so nothing in the loop bounds the
  flips; that they end is up to the upstream. The property excepts exactly the
  behaviours in which a request is called on both surfaces without end, and says
  that nothing else, in any interleaving, keeps a request from its answer.
* `FileOrderKept`: verification ends in any order, and single adds take order
  numbers while it runs.
* `ChecksHold`: duplicates and the last endpoint are checked on what was read
  before slow probes; it holds until a request writes on a check another has
  invalidated.
* `TurnsKept`: results must be heard after their calls and before the next
  question, though one translator holds them back and another lets them go
  first. Only a system prompt may move.
* `AnswerKept`: the client's protocol reads back what the upstream said: text,
  calls with their fragments joined to the right one, the reason it stopped.
  `LosesCalls` and `LosesLength` name the routes on which the code loses the one
  or the other; each disjunct of them is a divergence of section 7.
* `StreamWellFormed`: a strict reader of Anthropic streams accepts every prefix
  and, however the upstream hangs up, a complete message at the end.

## 5. Fairness

Only `EveryRequestEnds` needs any. `FairSpec` assumes weak fairness of what a
request does by itself, `Run(r)`. The code justifies it: a request is a
goroutine the Go scheduler runs, mutexes are held for bounded computations
only, and the upstream call ends because the HTTP client bounds dialling, the
TLS handshake and the wait for response headers (`gateway.go` 136-145). The
clock is not assumed to advance and clients are not assumed to give up.

## 6. Proofs

Eight modules hold theorems; `theorems` in `PROJECT.json` lists those a reader
should know. All are about the specifications the runs check and hold for every
value of the constants under the named assumption of the component. TLC
evaluates the assumptions in the component's runs and found each inductive
invariant (or the property it replaces) true on the runs' instances first.

The modules are laid out alike: the parts of the invariant, lemmas about the
operators, one lemma per action or group of actions, the step lemma that
splits on the next-state relation, the theorems. What a step of one request or
handler leaves alone in the others is a lemma of its own (`Moves`,
`RequestMoves`, `AdminMoves`), used by every action. Facts about data that would need
induction (powers of two, a fold over a file, the least of a set) are proved by
a least counterexample: a set of naturals that is not empty has a least member
(`NatHasLeast`, from the library's well-founded order of the naturals).

### The pool: `KeyPoolProofs`, from `PoolAssumption`

Any number of keys, any models, mode, cap, day length, cooldowns and clock.

* `TypesHold`: the type invariant is inductive; that the day's count stays within
  the cap is part of it, because a key at its cap is blocked whatever happened to
  its cooldown.
* `RateLimitReportsAreReal`: `RateLimitReportIsReal` alone is not inductive,
  since the pool's state does not say where a cooldown came from. `LimitInv`
  adds, for each key, that a model cooldown and an account-wide cooldown are never
  later than what was told. Every step that shortens a cooldown or clears the
  flag keeps it; only 429s raise it and they raise `told` as well.
* `DailyCapHolds`: for any lag of the clock, no key serves more than the cap on
  a day, and one more cap for each of its backdated picks: those dated before the
  day its count is for. `CapInv` relates the count to the history by what is paid
  for: with one cap paid per backdated pick, the stamped day is covered
  up to its count, a day gone by up to one cap more, a day to come by nothing
  more. A pick of the stamped day adds to the count, one of a later day finds
  that day fully paid, and a backdated one pays the cap of the count it starts.
* `RetryAfterIsHonest`: needs `StampInv` (no stamp from tomorrow), and two facts
  about the operators: a key at its cap is blocked exactly until midnight
  (`UntilMidnight`), and a key in rotation is blocked for a model exactly
  until the time `rateLimitedFor` computes for it (`BlockedUntilFree`).
* `LimitsStayWithTheirModel`: an action property; a step that extends the
  cooldown of one model does not change whether any other model is blocked.

### The breaker: `RateBreakerProofs`, from `BreakerAssumption`

* `BreakerTypeCorrect`: `BreakerInv` adds to the types that a trip holds no hits,
  that no time is in the future, and that an entry was touched at most `ClockLag`
  before its latest hit: two callers may bring their readings out of order.
* `IdleEntriesAreDropped`: an action property of every 429.
* `BurstsDoNotCompound`: `BurstInv` says that a running trip has doubled `n`
  times for an `n` whose windows fit between the trip and the last growth.
  `Doubled` is a recursive function; `DoubledGrows` is what is needed of it.
* `BreakerImplementsPolicy`: the initial states and every step of the breaker map
  to the initial states and a step or a stutter of `RateLimitPolicy`. The core is
  that lazy bookkeeping is silent: pruning an idle entry (`PruningIsSilent`) or
  filing a 429 over old hits (`HitsAreCounted`) changes nothing the mapping shows.

`Window + 2 * ClockLag =< Idle` came out of the attempt: a 429 filed with the
oldest reading may be touched a lag before a hit that still counts for a lag
after its window, and if the entry idles out before, the hit is forgotten while
the policy counts it. TLC shows it with three keys needed, a window of 2, a lag
of 1 and an idle time of 3. In the code the idle time is ten minutes and
the window fifteen seconds (`ratelimit.go` 32 and 42), so it would take a reading
almost five minutes old.

### The walks: `RotationProofs`, from `RotationAssumption`

Any number of requests, keys and models, any budget and any answers.

* `RotationTypeCorrect`: `TablesInv` repeats the types of pool and breaker, which
  are instances here: their steps are taken by requests, so each is shown to keep
  them once more, under Rotation's constants.
* `KeysAreTriedOnce`: `Walk` relates the walk's locals: a key was contacted once
  if it is excluded and never otherwise, the excluded keys are counted by
  `picked`, and the key in hand is one of them. `LoopFits` is needed for the one
  exception, the retry of a key on the other surface.
* `FailoverWorks`: `FailoverInv` supposes what the property supposes and says
  that nothing was ever filed against a good key (`Unblemished`), so it is always
  free to be picked, and that no walk passes one over (`Fair`): it excludes none
  but the one it is calling and spends its budget on keys it excludes. A walk
  whose budget covers the pool therefore cannot be exhausted before it met every
  good key (`GoodKeysAreFound`).

### The rebuilds: `RebuildProofs`, from `RebuildAssumption`

Any number of providers, keys, clients, handlers and requests (both finite: a
new generation of pools needs a number nobody holds).

* `RebuildTypeCorrect`: `PoolsInv` is the part that needs an argument: every
  generation someone holds is there (`CollectedPools`), and there is always a
  fresh one (`FreshGeneration`).
* `DisablesSurvive`: `Disabled` says where a rejected key's disable is while
  rebuilds are under way: in the live pool, and in the copy of every rebuild past
  its copying, whose row and provider the rebuild has read as enabled. It
  needs `Routed`: a request holding the live generation has a routable provider.
* `RevivalsStick`: `AloneInv` (a mutation that met no other is the only one, and
  revives in the live pools) and `LiftInv` (no rebuild holds a copy of a disable
  that was lifted).
* `AnswersAreLive`: `FollowInv` follows a lone mutation through its steps and
  says which copies agree with the database after each; a fetch of the catalog
  under way may only hold providers that are still routable.

### The settings: `SettingsProofs`, from `SettingsAssumption`

Any number of handlers, syncs, models and tunings.

* `DocumentStaysValid`: what is stored and what is in memory always pass
  `Validate`. `SettingsInv` adds that what every handler and sync holds on to,
  and will write later, is as valid; `MergedValid` is the lemma about the merge.
* `SavedTuningSurvives`: no step but a save changes the tuned sections.
* `ToggledFlagsSurvive`: `FlagInv` adds that what a sync will write of a model
  nobody touched since its load is the flag its last editor meant, or nothing.
* `SyncStatusSurvives`: `StatusInv` adds that a PUT which was not late holds the
  status recorded last.
* `AnsweredSettingsAreLive`: an action property. `SoloInv` follows a writer that
  overlaps with no other: after its save the document is what it will put into
  memory, then the copy agrees, then the tuning of the pools it builds.

### The accounts: `AccountsProofs`, from `AccountsAssumption`

* `AccountTablesStayWellFormed`: with the types, that only existing accounts have
  sessions and keys, and that a request under way is about an account.
* `ASuperadminRemains`: `RulesInv` says that until a handler has written on a
  check another invalidated, what every other handler found out still holds
  (`Fits`): the role it read, that a superadmin remains without its target.
* `CutOffAccountsStayOut`: the property says nothing of the copies handlers hold, so
  `CutOffInv` does. Of two copies held one was queried first (`QueriesOrdered`); a
  copy leaves out whom its holder, or a holder that queried earlier, is cutting
  off (`CopiesLeaveOut`), and everyone cut off already until it is overtaken
  (`CopiesCurrent`). An install makes the first of these the second: all that is
  left after it, and is not overtaken by it, was queried later.
* `PromotionsClear`: `PromotionInv` adds who is about to clear an admin's
  revocations.

### The way to a session: `AccountsProofs`, from `SignInAssumption`

Any pairs, keys, max-ages, throttle and limits, any finite number of sign-ins at
a time. `Window =< LockoutFor` is assumed (both are fifteen minutes in the code,
`auth.go` 131-135): a lock-out that ended before its failures left the window
would let more in on top of them.

* `SignInTypeCorrect`: of the types, only the lock needs an argument. Whoever is
  at `fetch` is the one `fetching` names, so a release leaves nobody behind.
* `GuessesAreBounded`: the property speaks of the history, the code keeps one
  counter and two instants. `Tallied` relates them: below the limit the counter is
  no less than the failures in the window; at the limit these and the attempts in
  progress together stay under the bound, and the pair is locked or its failures
  are out of the window. An attempt in progress that fails moves one from the one
  summand to the other, and a new one is let in only when the first is zero.
* `WithdrawnKeysDoExpire`: an action property. `KeysInv` says that a cached key was
  withdrawn no longer ago than the cache is old, so what is left of the cache and
  the time since the withdrawal never exceed the longest max-age.

The failures in the window are summed with the library's fold over a function.
`SumOfParts` ties that fold to cardinalities once and for all: the sizes of
disjoint finite parts add up to the size of the whole. It is proved by a smallest
set for which it fails, and what the proofs need of sums (`TotalOne`,
`TotalOlder`) follows from facts about finite sets.

### Usage: `UsageProofs`, from `UsageAssumption` and `ReportAssumption`

* `UsageTypeCorrect`; `UsageAccountedOnce`: `Shared` says that table, buffer, batch
  and `lost` split the events made between them, and `CountInv` that a
  request let in is in exactly one of the counters; the moves between them are
  instances of one lemma, `Moved`.
* `ActivityIsInOrder`: `RingInv` describes the ring from its newest slot back, for
  any size; `RingTurns` is the step over the wrap.
* `LogWalkIsComplete`: `WalkGood` says that a request which was there when the walk
  began and ranks above its next page has been shown. It is kept because new rows
  only push old ones down (`WalkGrows`), and because a page that is not full is the
  last one (`ShortPageIsLast`): in a finite set with a strict total order the
  ranks are exactly the numbers below its size (`OffsetsAreRows`).
* `ReportsAreConsistent`: `FiguresInv` says of every report which table each figure
  was computed from; that it is the same table is the property's premise. The
  percentile's OFFSET is the rank of a row, and that row's duration is the least
  that 95 of 100 do not exceed (`OffsetIsPercentile`); every time of the range has
  a bucket (`BucketsCover`); without "other" every group is named (`SeriesCover`);
  the classes of a finite set add up to it (`SumOfClasses`). Go's division goes
  towards zero, so two buckets meet at the zone's first second: the proof needs
  times after it (`ZoneInv`, from `Tz =< FirstDay`: the zone is within a day of
  1970's first second, `api_usage_report.go:106-112`, and requests are later).

### Key import: `KeyImportProofs`, from `KeyImportAssumption`

* `OnlyGoodKeysAreSaved`: `Honest` says that a request which probes has a surface
  to ask and passes good keys only, whatever was probed in whatever order.
* `ImportsKeepFileOrder`: what an insert takes from a report is a fold over the
  file; `ToAddSelects` says which entries it holds and in which order. `OrderInv`
  keeps a row's order below its id, so an import's rows come after older ones.
* `ChecksFailOnlyByRace`: `Fresh` is, per request, what it checked and still holds.

### The streams: `RotationProofs`, from `ExchangeAssumption`

Any routes and any number of pieces, asides and calls; of the upstream only that
its events are text, calls and stops, in any order.

* `StreamsAreWellFormed`: `InStep` relates the writer's variables to what a strict
  client made of what was written: it is in a block where the writer has one open,
  and expects the writer's next index. Calls may come between pieces of text since
  they are held back (`ToolUseInStep`); at the end any number of them is written,
  each a block of its own (`EmitsInStep`), after the open block was closed.

The client's parser and the writer's loop over its calls are the library's folds.
`FoldsAre` says that such a fold is a table over the sets of positions, `FoldGrows`
that one more element is one more step, both by a least counterexample.

### Only model-checked

* `EveryRequestEnds`: liveness under fairness is out of the prover's reach.
* `TurnsKept`, `AnswerKept`: they compare two flattenings of sequences of sequences,
  reordered and merged by the translators, and what these nested folds and
  selections compute needs inductions over data that were not attempted.

## 7. Where code and documentation disagree

Checked, each by a run that TLC must refute (`findings`):

* of two overlapping mutations the older copy may be installed last
  (`gateway.go:155` against gateway.go:149 and api_helpers.go:60);
* two tool calls of one answer, streamed from zen's Responses surface to a chat
  client, carry the same index, so the client joins them (`responses.go:72`
  against README.md:329, "translates between the two shapes - including tool
  calls").

Seen in the models, not kept as runs. In the request path:

* a client that hangs up cools every key its walk touches (`zen.go:317`
  against README.md:69);
* a model both surfaces refuse makes the loop flip without end, since a flip
  gives the key and the attempt back (`zen.go:336` against settings.go:113; the
  behaviours `EveryRequestEnds` excepts by `RefusedForEver`);
* a pick that waited for the lock over midnight acts on yesterday's date and
  resets the day's count, which may cost one more cap (`pool.go:180`; the term
  `backdated` of `CapRespected`);
* a late 5xx shortens the account-wide cooldown another request was told
  (`pool.go:239` against README.md:286).

In the settings:

* a catalog sync overwrites a flag switched between its load and its write
  (`modelmeta_sync.go:255` against modelmeta_sync.go:38 and 235);
* the status of a sync that is recorded between a PUT's load and its save is lost
  (`api_settings.go:53` and `:66` against api_settings.go:51-52, "so a concurrent
  sync ... can't lose it"; the exception of `StatusSurvives`);
* the switched flag is not used until some other settings write, a sync or a
  restart (`api_settings.go:101` against api_settings.go:84).

In the accounts and keys:

* a refresh that queried the keys before a deactivation and installs its copy
  after that was answered admits the key again, until the next refresh or a
  restart (`clientkeys.go:35` and `:43` against api_clientkeys.go:67; the
  behaviours `CutOffStaysOut` excepts by `regressed`);
* two superadmins who demote each other at once leave none, and the next start
  refuses the database (`api_users.go:174`);
* a promotion that fails half way, or is raced by a revocation, leaves
  revocations that resurface on a later demotion (store.go:560-561 says they
  cannot);
* a sign-in under way when the password is changed gets a session afterwards
  (`auth.go:394-396`), and an admin's write reaches an account that was promoted
  meanwhile (against roles.go:7-13);
* "5 failures within 15 minutes" are counted from the last failure, so slow
  ones add up without limit of time (`auth.go:125`, `:167`);
* once the cache of Google's keys has expired and the endpoint fails, every
  token has it asked again (`googleid.go:64-65`);
* two adds of one key, or two patches that each clear an endpoint, pass each
  other's check (`api_providers.go:361`, `:300`); a provider without endpoints
  then saves keys unverified.

In usage:

* clientkeys.go:13-14 says the caches are reloaded "by the periodic usage
  flush"; the maintenance loop reloads nothing;
* a prune between the overview's two queries moves the OFFSET past the last row
  and the report fails (`usage_report.go:169`); a group that first appears
  between the two passes of a series without "other" is dropped.

In the translators:

* a whole answer collected from zen's stream joins tool-call fragments by id,
  though only the first of a call carries one (`anthropic_handler.go:325-341`);
* a system message between two tool results yields two user messages in a row
  (`anthropic_outbound.go:82-83`, `:112` against "strict user/assistant
  alternation"), and an assistant's content given as parts is dropped (`:146`);
* answers of the Responses surface are reported to Anthropic clients as ended
  even when cut at their length; `aggregateChatSSE` and `aggregateResponsesSSE`
  drop tool calls, and the former always says "stop";
* after "response.failed" `translateResponses` writes the end of the stream
  twice; a stream the upstream cut off ends like a complete one;
* in Responses input an assistant's calls come ahead of its text.

Noticed while modelling: README.md:67-68 and docs/configuration.md:303-306 say
that any GUI change clears cooldowns and runtime disables, while the code
preserves them (`newPoolPreserving`) and README.md:284 says so; the models
follow the code.

## 8. Not modelled

* Usage: the breakdown, the facets and the older summaries (single queries, or
  queries no promise relates); token counts and costs.
* The catalog's enrichment and presets (string and JSON functions over
  third-party data); the zai and kilo catalogs of a sync (merged by the same
  steps as the one modelled).
* Web tools and the MCP endpoint: network and subprocess I/O.
* Local mode, autostart, start-up and configuration: files, service managers,
  wiring. Migrations: each is one transaction with its version row.
* The browser GUI, which keeps no state the gateway depends on.
* In the translators: parameters, tool declarations, token counts, malformed
  events and an upstream's own error event.

SQLite is taken at its word: one connection, so each statement is a step, and
transactions are atomic.

## 9. Plan

Done: 1 `KeyPool`, 2 `RateBreaker` with its policy, 3 `Rotation`, 4 `Rebuild`,
5 `SettingsDoc`, 6 `Accounts` and `SignIn`, 7 `UsageLog` and `UsageReport`,
8 the translators, 9 `KeyImport`, and the theorems of section 6.

Possible extensions of the models: the breakdown and the facets, the other
catalogs of a sync, the web tools' semaphore.

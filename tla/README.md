# better-ccflare-rs: TLA+ models, checks and proofs

This directory holds TLA+ specifications of better-ccflare-rs, a proxy that
spreads requests over several Claude accounts. They are translated from the
Rust source. `PROJECT.json` maps every definition to the lines it models and
lists the runs, the mutants that show each property can fail, the hazards and
the proved theorems.

Paths below are relative to the repository. Run the checks in this directory:

    tlc -workers 2 -config MCTokenManager.cfg MCTokenManager.tla
    tlapm Credentials_proofs.tla

Each run of section 3 has its configuration; the proofs are in the modules
`Credentials_proofs` (also for `TokenManager`), `AutoRefresh_proofs`,
`Routing_proofs`, `Analytics_proofs`, `ClientAuth_proofs`, `Capacity_proofs`,
`Accounts_proofs` and `Startup_proofs`.

## 1. The system

| Component | State | Operations | Talks to |
|---|---|---|---|
| Token manager (`crates/proxy/src/token_manager.rs`) | mutex per account, failure records, time of the last clean-up | `get_valid_access_token`, `clear_account_state` | provider, accounts table; called by requests, startup, re-authentication |
| Accounts cache (`proxy.rs`) | the rows of the accounts table, at most 5 s old | `get_accounts_cached` | accounts table |
| Proxy handler (`proxy.rs`, `handler.rs`) | none of its own | selects accounts, gets a token, forwards, fails over, spawns status and counter writes | load balancer, token manager, upstream, accounts table, post-processor |
| Load balancer (`crates/load-balancer`) | round-robin counter | `select` | eligibility rules of `core`, usage cache |
| Usage poller (`usage_polling.rs`, `src/main.rs`) | usage cache, backoff of its interval | polls each account, refreshes and writes tokens on 401, wipes them on `invalid_grant` | provider, accounts table |
| Re-authentication (`oauth.rs`) | pending sessions (a table) | `oauth_init`, `exchange_and_persist` | provider, accounts table, token manager |
| Auto-refresh scheduler (`auto_refresh.rs`) | last recorded reset per account, backoff multiplier | a check a minute, dummy requests | the proxy itself over HTTP, accounts table |
| Process start (`src/main.rs`, `server.rs`, `database/pool.rs`, `migrations.rs`, `schema.rs`) | the files of the database and its backups | copy of a predecessor's file, backup, tables, migrations, five attempts (`main.rs:47`); maintenance beside the first requests | file system; other processes on the same database |
| Streaming and analytics (`streaming.rs`, `post_processor.rs`, `pricing.rs`) | a buffer per stream, a bounded queue | tee, timeouts, usage extraction, request rows | requests table, X-factor |
| Shutdown (`server.rs`, `shutdown.rs`) | the phase of the end | signal, drain of the responses, ordered steps with timeouts | all services, except the post-processor |
| Authentication of clients (`auth.rs`, `core/rate_limit.rs`) | caches of verified keys and of whether keys exist, the instants of each key's requests | `auth_middleware` | api_keys table |
| X-factor estimation (`xfactor/`) | the state of each account: a window of tokens, a posterior, a lower bound | `on_request`, `on_usage_poll`, `initialize_cache`, persistence | usage cache, requests table |
| Account management (`proxy/accounts.rs`, `oauth.rs`, `cli/commands.rs`) | none of their own | look-ups and single statements on accounts, pending flows | accounts and oauth_sessions tables; the CLI is a process of its own |
| Configuration (`core/config.rs`, `config_watcher.rs`, `events.rs`) | the runtime configuration, an event bus | reload on file changes (the watcher is not started by `main`), updates | file system |
| Async writer (`crates/database`) | a bounded channel | batches (no code of the program starts it) | SQLite |
| Retention | none | a periodic deletion of old rows | SQLite |
| API, dashboard | none of their own | queries, statistics, templates | tables above |

The components meet in one place above all: the row of an account. Requests,
the startup maintenance, the usage poller, re-authentication and the commands
of the user all read and write its tokens and markers, with no transaction
around a read and the write that depends on it. Several tasks run at any time;
a client that disconnects drops the future of its request at the await it is
suspended on; status writes are spawned and nobody waits for them; a write that
finds no connection is skipped without an error. The behaviours that are hard
to test, each at its line, are the `hazards` of `PROJECT.json`.

What makes the parts correct:

* Token manager: one refresh at a time per account; a refresh token that the
  provider has consumed does not stay in the row; a token handed out is valid
  when it is used; a failed refresh delays the next one by one period, no more;
  every call returns.
* Credentials as a whole: whoever refreshes, the row's refresh token is good,
  or it is known where its replacement went; nobody destroys tokens that are
  good; a marker says something true about the account.
* Auto-refresh: idle accounts are refreshed when their window ends, and only
  then.
* Load balancer and failover: only accounts that are open to a request by the
  rows it has read are tried, each once, in the order the rules give; turns are
  even; a request gives up only when nothing it may ask is left; a session is
  reset once per window.
* Analytics: a request that was answered leaves one record, which is written or
  lost once and never owed for ever; the copy of a stream has no hole; a row
  says only what happened to its request.
* Authentication: a revoked key stops working when the caches have run out, a
  good one is refused for a recent reason only, a failing database opens
  nothing, and the limit per key holds over any window.
* Capacity: tokens are counted once over a restart that runs beside requests,
  but for the gaps of the code; a fresh usage is not thrown away; each step that
  puts the lower bound above the capacity has a cause that can be named; what
  was learned is not unlearned.
* Account management: the verifier of a pending flow is handed out once; a name
  that was compared with another when it was given stays apart from it, so
  accounts that a command cannot tell apart have a known cause.
* Start: who serves has a predecessor's data in the whole schema, and no data
  are migrated that had no backup, whatever failed or crashed before and whoever
  starts at the same time; what the code leaves open is named file by file.

## 2. The modules

### TokenManager

`TokenManager.tla` models `token_manager.rs`, the accounts cache of `proxy.rs`
and the part of `ClaudeOAuthProvider` that exchanges tokens. A *task* is a call
of `get_valid_access_token` by a request. Each action is the code between two
awaits, or between two holds of a map's guard:

| Action | Code |
|---|---|
| `CloneCached`, `ReadAccounts`, `StoreAccounts` | `get_accounts_cached`: hit; read on a blocking thread; store |
| `AnswerDirectly` | the returns before a refresh (API key, keyed account, token outside the safety window) |
| `CheckBackoff` | `cleanup_expired_failures`, then the backoff check up to the drop of the map's guard |
| `DropExpiredRecord`, `RecoverFromDb`, `RecoveryFails` | the arms of the `match` that follows |
| `TakeLock`, `Acquire` | the `Arc` of the mutex is cloned out of the map; the lock is granted and the clone checked again |
| `ExchangeKey`, `Exchange`, `ExchangeRefused`, `ExchangeLost` | `refresh_token` of the provider: keyed account, grant, refusal, grant with a lost answer |
| `Complete(t, persisted)` | the `Ok` arm; `persisted` is FALSE when the write finds no connection |
| `Cancel`, `CancelDuringGrant` | the client is gone; the future is dropped at an await |
| `ClearAccountState` | `clear_account_state` |

`db` has the credential columns of the rows, `mem[t]` the task's clone, `tnow[t]`
its `now`, `lockGen[a]` counts how often the mutex of `a` was removed from
`refresh_locks` (so `owner[a][g]` is the holder of the g-th mutex). Tokens are
numbered by the grant that made them; NULL and the empty string are 0. `live[a]`
are the refresh tokens the provider accepts: a `rotating` provider consumes the
one that is used, a `fixed` one keeps it. `dropped` is a history variable. The
count of a failure record grows without a limit, as in the code; calls that meet
a back-off are explored until one was past `MaxRetries` (`Explored`, a bound).
The type invariant also dates what it types (`Dated`): no call and no failure
record carries an instant that is yet to come.

### Credentials

`Credentials.tla` extends `TokenManager` with all other writers of the row:

* requests after the token manager: `CloneRoutable` (an account marked as
  auth-failed is not routable), `Respond` (the upstream's answer, also to a
  request that was sent without a token; the status write, with the time of the
  answer, is now pending in `late`), `GiveUp` (no answer), `WriteStatus` and
  `SkipStatus`; `CompleteRefresh` is `Complete` of the token manager;
* the usage poller: `PollAccount` (the first one of a cycle takes the snapshot
  that the whole cycle uses; between accounts the poller pauses), `FetchUsage`,
  `PollRefresh`, `PollRefreshLost`, `PollRevoked`, `PollPersist`, `PollWipe`;
  `poll.rt` is the refresh token of the snapshot, which every round of the
  refresh loop sends again;
* re-authentication: `ReauthExchange`, `ReauthAbandoned`, `ReauthStore`,
  `ReauthUnmark`, `ReauthReset`;
* `Revoke` (the user, at the provider), `Restart` (at any moment, everything in
  memory is lost), `StartupClear` (the maintenance, beside the first requests).

`blocked` has the accounts whose row has the "Auth failed" marker;
`cachedBlocked` and `loadBlocked` are what the cached rows and the rows being
read say of it. Tokens that were granted and are yet to be written are in a
*hand*: a task's, the poller's or the re-authentication's (`Hands`). `overtaken`
is a history variable: the hands whose row got other tokens from somebody else
since they were filled, except by a task under the same mutex, which the mutex
should have kept out. `RegressionExplained` looks at the step that takes a row
back to older tokens: it is the poller's wipe, or the delivery of a hand that
was overtaken. Only pure OAuth accounts are considered (`Regimes`). Revocations
and restarts are explored while the provider still makes grants (`GrantsLeft`, a
bound).

### AutoRefresh

`AutoRefresh.tla` models the scheduler against what the proxy answers. Instants
are kept relative to now (0: passed), so time is unbounded and the state space
finite. `Check(ids, rows)` collects the accounts to refresh (either query may
find no connection); `Succeed`, `Unavailable`, `Refused` and `Fail` are the
outcomes of the request for the `First` account of `todo` in the order of the
rows. The upstream's 401 never reaches the scheduler: with a strictly pinned
account the proxy turns it into 503, so the `AuthFailed` arm of
`check_and_refresh` has no action. What an answer means for the row is spawned
(`late`) and runs at any later time (`WriteRow`) or finds no connection
(`SkipWrite`), also after the user, a client or a re-authentication changed the
row. The reset header comes in milliseconds or RFC 3339, in seconds, or not at
all (`Headers`); the code takes any integer for milliseconds, so seconds are an
instant long past (`Parsed`). `seen` is a history variable: scheduler and row
were told when the window ends and nobody has told them otherwise since.

### Routing

`Routing.tla` models what lies between the arrival of a request and its answer:
the cached rows, the eligibility rules, `SessionStrategy::select`, and
`try_accounts_in_order` with the writes each attempt spawns.

| Action | Code |
|---|---|
| `ArriveCached`, `ArriveUncached`, `ReadRows`, `StoreRows` | `get_accounts_cached`; a hit and a store go straight on to `select` (`Select`), no await between |
| `Skip` | an account whose provider answered 429 to this request; it costs an attempt |
| `Serve`, `BreakOff`, `PassOn400`, `RateLimited`, `AuthFailed`, `AttemptFails` | one attempt, by its outcome: an answer that is passed on, one whose body breaks after its status write was spawned, 400, 429, 401/403, no answer or nothing to send |
| `Disconnect` | the client is gone; writes already spawned go on |
| `RunWrite` | a spawned `UPDATE`, in any order; without a connection it is dropped |
| `TogglePause`, `Add`, `Remove`, `Poll`, `Tick` | the user's handlers, the usage poller, time |

`Rule` is the order of the cases of `select`: a pin, a strict pin that cannot be
met, auto-fallback, the running session, priority with turns. Accounts are
numbered in the order `find_all` returns them, so a stable sort is a comparison
that falls back on the number. Of a usage entry only the answers to the
questions of `select` are kept (`full`, `low`, `resets`, known or not). `turns`
is a history variable that counts turns since the tier last changed, less those
everybody had. The round-robin counter counts modulo `Wrap`, a multiple of every
possible size of a tier, so the wrap of the model disturbs nothing; that of the
code comes after 2^64 requests.

`Open` and `Follows` are not part of the behaviour: they restate the documented
rules over the rows a selection read, and `OrderFollowsRules` compares every
list that `select` makes with them. It says nothing of which account comes first
where an account with auto-fallback has had its window reset: there comments and
code differ (see the observations).

### Analytics and RequestLedger

`Analytics.tla` models what lies between the upstream's answer and the row of
the request, and the end of the process.

| Action | Code |
|---|---|
| `Refused`, `Admit` | `try_acquire` of the concurrency permit in `proxy_handler`; the permit is dropped with the handler's future |
| `EndUnrecorded`, `CancelHandler` | the returns without a record; the client goes away while the handler runs, the permit is dropped with the future |
| `AnswerWhole`, `AnswerStream` | `build_success_response`, and the 400 that is passed on: the record is sent at once, or the body becomes a `TeeStream` and the permit is given back with the stream still running |
| `Chunk`, `HttpTimeout`, `UpstreamEnds`, `Disconnect` | `TeeStream::poll_next` and the drop of `TeeState` |
| `Relay`, `Process`, `SaveRow`, `SaveFails`, `NoConnection` | the task behind the oneshot, the loop of the post-processor, its blocking write |
| `Signal`, `Drained`, `Exit`, `Kill` | graceful shutdown, which waits for responses but not for the post-processor; the drop of the runtime waits for the blocking writes that have begun (`Exit`), a kill for nothing |
| `Tick` | time, for the streams that run |

Helpers: `Send` is `PostProcessorHandle::send` (a full queue loses the record),
`Copied` and `Pushed` the timeouts and the cap of the copy, `Usage` the
extraction: of a body the model knows at which bytes a usage event is complete.
`stage[r]` says where the record of `r` is. `sent`, `age`, `gap` and `stalled`
belong to the stream.

`RequestLedger.tla` is the abstract promise: a record is `open`, then `owed` (or
lost at once), then `kept` or `lost`, for good, and owed for a finite time. A
record is owed from the moment the answer was read, or the stream has ended or
was dropped; while a stream runs, for as long as it likes, nothing is due.
`Analytics` maps `stage` to it by `Entry`; `LedgerKept == Ledger!FairSpec`, with
`Ledger == INSTANCE RequestLedger WITH ...`, is a property of the run.

### ClientAuth

`ClientAuth.tla` models `auth_middleware` with the caches `enabled` (are there
active keys) and `cache` (verified keys, positive and negative entries), the
per-key limit and the management of keys.

| Action | Code |
|---|---|
| `Start` | up to the first await: the flag from its cache, then `Decide` and `Credentials` without an await |
| `CountKeys`, `StoreEnabled` | the query of `is_auth_enabled`; its result is stored and used after the await |
| `VerifyKey`, `StoreKey` | `verify_api_key_sync` on a blocking thread; the entry is stored after the await, whatever happened to the key meanwhile, and a full cache is cleared first |
| `RecordRequest` | `RpmTracker::check_and_record`, with the instant (`stamp`) taken before the lock |
| `EditKey` | generate, enable, disable, delete |
| `Tick` | time; a check takes at most `Slack` |

`answer`, `last` and `admitted` are history variables: the verdict of the last
step, the instant each fact about the table (`Facts`) was last true, and the
instants at which each key was let in, in order. `RpmHolds` says that of any
`Limit + 1` consecutive admissions of a key the first and the last are more than
`Window - Slack` apart; the `Slack` is there because the code takes the instant
before the lock. `MayFail` bounds the outages of the database to one unit of
time.

### Capacity

`Capacity.tla` follows one account through the usage cache, the poller's
back-off, and the X-factor service, over restarts.

| Action | Code |
|---|---|
| `Serve`, `UseElsewhere`, `ResetWindow` | the provider (external): it counts what it serves, to whomever, and empties its window |
| `SeeStale`, `RemoveStale` | `UsageCache::get`: the guard is dropped between the check and the removal |
| `Ask`, `Answered` | one poll: a usage, 429 (the interval doubles up to `MaxFactor`), an error, a revoked token; `cleanup_stale` |
| `Save`, `Count` | `DbSummaryReceiver::on_summary`: the row, then `XFactorCache::on_request`; each on a blocking thread of its own, so any number run at once |
| `StartBuilding`, `Build`, `FailToBuild` | `initialize_cache`, beside the first requests: the rows are read, or the query for them fails and the window is empty (`bare`); the state is put into the map; or there is none |
| `Update` | `update_from_usage_cache` and `on_usage_poll` (`Bound`) |
| `Persist`, `Restart` | `save_all_states`; the process ends at any point |

A request costs the provider `Cost` tokens, and the estimate counts `Weight` of
them, by the weight of its model. Of the estimate only `c_i_hard_lower` is kept.
`built` (how the process came to its state), `late` (rows written after the rows
were read), `told` (requests counted when there was a state), `fetched` and
`raced` are history variables. With them `CountedOnce` says exactly when a
request is in the window twice (its row was read and its summary came to the
state) and when not at all (neither).

### Accounts

`Accounts.tla` models who edits accounts: HTTP handlers, commands (another
process), the browser flow of re-authentication, and the X-factor's rows that
refer to accounts. Each statement commits alone.

| Action | Code |
|---|---|
| `FindById`, `FindByName` | the look-up every handler and command begins with; `find_account_by_name` takes the first namesake by priority |
| `SetColumn`, `UpdatePriority`, `RenameAccount`, `DeleteAccount`, `RemoveFound` | the statement that follows |
| `CheckName`, `CreateAccount` | the duplicate check and the `INSERT` of an account |
| `OpenFlow`, `InsertPending` | `oauth_init`, `db_insert_pending` |
| `ReadPending`, `TakePending` | the `SELECT` and the `DELETE` of `db_take_pending`, one deferred transaction |
| `ExchangeCode`, `PersistTokens` | `exchange_and_persist` |
| `KnowAccounts`, `SaveStates` | the X-factor cache learns accounts; `save_all_states`, all or nothing under the foreign key |
| `Abort`, `Restart`, `Tick` | a statement fails or a future is dropped; a restart; time |

`spoilt` marks a snapshot or a check that a later commit has overtaken: SQLite
in WAL mode refuses to upgrade such a snapshot, while the check of a name is not
protected by anything but the exact `UNIQUE` constraint, and not even that in a
table made by the TypeScript version (`enforced` is FALSE), which the migration
leaves as it is (`migrations.rs:350-351`). The model starts with any accounts,
also with equal names in such a table. `handed` and `against` are history
variables: `against[i]` are the accounts whose names were compared with that of
`i` when it was given, and have not changed since.

### Startup

`Startup.tla` models how a process gets its database, with several processes
(the server and a command) at once.

| Action | Code |
|---|---|
| `Start` | `run`, which tries `create_pool` up to `MaxAttempts` times (`Retry`) |
| `TryLegacy`, `TryNode` | `migrate_from_legacy`, `migrate_from_node_db` |
| `ClearTarget`, `BeginCopy`, `EndCopy` | `copy_db_consistent`: remove the target; open the source and begin `VACUUM INTO`, which refuses a target that is there again; end it |
| `Open`, `Verify` | the pool opens or makes the file; integrity check and `is_initialized`, whose failing query counts as "no tables" |
| `BackupExisting`, `WriteBackup` | `backup_existing_db`: remove the backup of the same second; write and check the new one |
| `CreateTables`, `Migrate`, `CreateIndexes`, `AddColumns` | the rest of `create_pool`, and the schema again in `run`; the check of foreign keys and the indexes come after the commit of the migration |
| `Error`, `Crash`, `Stop` | a step fails; the process ends in the middle of one; a serving process ends |

A file is told apart from the path that names it, since a copy removes what a
process may have open. `shape` says how far a file is: an unfinished copy
(`hollow` or `broken`), a predecessor's (`old`), with tables, migrated,
complete. Slots of `files` are reused, like inodes, once no process and no path
has the file. `flaws` is the history of one file: its copy was cut short, it was
opened before its copy was done, or it was made in place of one that a copy had
removed (`doubtful`); a column could not be added (`short`); the query for tables
failed (`unseen`). Backups are named by the second: `recent` is the one of the
last second that has one, `older` those of seconds before, `second` says to which
a process's own name belongs. `lost` are the data whose old backup was replaced
by another one. The write of a backup is one step, and the backup of the Node
file, which nothing here changes, is left out.

### Not modelled

Listed in `PROJECT.json` with the reason. In short:

* Text and data: headers, bodies, SSE parsing, HTML, prices, translation between
  providers' formats. They change no shared state. `openai_stream` has a state
  machine of its own, but no provider in use calls it.
* Read-only queries, statistics and the templates of the dashboard.
* Floating-point arithmetic: mean, variance and Kalman filter of the X-factor.
* Retention (two `DELETE`s by age), the async writer (no code starts it), the
  configuration watcher (`main` does not start it).
* The refresh of expired tokens at startup: one more caller of
  `get_valid_access_token`, whose calls by requests `Credentials` has; a second
  task there multiplies an instance that is already the largest.
* The order of the coordinator's shutdown steps: the services it stops keep no
  state that a restart would miss.

The map covers about 15 % of the implementation's lines. Most of the rest is
inline tests, templates, handlers that only read, and the translations named
above; widening the map to them would add lines, not behaviour.

## 3. The runs

| Run | What it checks | Bounds |
|---|---|---|
| `token_manager` | `TypeOK`, `RefreshesSerialised`, `RotationReachesRow`, `TokenOutlivesWait`, `BackoffNotExtended`, `RowNeverRegresses` | one account of each kind, two requests, one removal of the mutex, three grants, four instants, calls in back-off up to one past `MaxRetries` |
| `token_liveness` | `EveryCallEnds` | the same with two instants and two grants |
| `credentials` | `CredTypeOK`, `RowTokenAccounted`, `WipeOnlyIfStale`, `RegressionExplained` | one rotating account, one request at a time, three grants, two instants, revocations and restarts while grants are left, one re-authentication per life of the process |
| `routing` | `TypeOK`, `GaveUpOnlyWhenExhausted`, `ProviderRestsAfter429`, `Balanced`, `OrderFollowsRules` | three accounts in three scenes, two tasks, up to three requests, two broken bodies, one change by the user or the poller or one tick where the scene is about it, two attempts |
| `auto_refresh` | `TypeOK`, `QuietWithinWindow`, `DueAreAsked` | two accounts, one of them used by clients and switched by the user, too, windows of two ticks, one status write under way, multiplier up to 2, one restart |
| `analytics` | `TypeOK`, `CopyIsPrefix`, `RowsTruthful`, `LedgerKept` | two requests, one permit, a queue of one, a copy of two of three bytes, usage events at bytes 2 and 3, chunks of one or two bytes, timeouts 0, 2 and 2 |
| `client_auth` | `TypeOK`, `RevocationTakesEffect`, `RefusalsHaveACause`, `OpenOnlyWhenKeyless`, `RpmHolds` | two tasks, two keys, two deployments, lifetimes 2, 1 and 1, one cache entry, one request in a window of two, one edit, four instants |
| `capacity` | `TypeOK`, `CountedOnce`, `FreshUsageKept`, `LowerBoundExplained`, `BoundUnlearned` | two requests, one with a weight above its cost, a capacity of two, one use by others, window and age of zero, a factor up to two, two instants, one restart |
| `accounts` | `TypeOK`, `SessionUsedOnce`, `NamesakesExplained` | two clients, an OAuth account and one with a key, there at the start or not, in a table with or without unique names; two names that differ in case only, two flows, three instants |
| `startup` | `TypeOK`, `ServesTheDatabase`, `MigratedWithBackup`, `StartEnds` | two processes, one start each, side by side, or two of one; no predecessor, the Node file (with or without payloads that lack a request), or both files; three files at a time, two attempts, one fault |

The bounds are small but leave room for what matters. Accounts do not interact
in the token manager: mutexes, records and rows are per account and the only
shared things are the clean-up time and the cache's time, so one account shows
everything about its own row. Two tasks are enough for a holder and a waiter;
three grants allow a refresh by one, a refresh by the other and one by a third
party; `TokenLife` exceeds `SafetyWindow`, so tokens are seen fresh, inside the
window and expired; `Backoff`, `FailureTTL` and `MaxRetries` are reached within
the clock. The instances stop when time and back-off are used up, so deadlock is
not checked there. `credentials` has a single request because the second actor
is the poller or the re-authentication, and the token manager's own races are
the subject of `token_manager`. Two accounts are needed in `auto_refresh`, since
a check serves them one after the other; a write under way, beside the answers
and re-authentications that come before it runs, is enough to apply writes late
and out of order (one more is skipped, as without a connection).

`routing` starts from three scenes of `MCRouting.tla`, each with the situation it
is about already there: a tier of two new pay-as-you-go accounts of different
providers; two Claude accounts, one with a window that is over, the other with a
running session; a rate-limited account beside one that is yet to be added.
Three accounts and `MaxAttempts = 2` make the limit bite; two accounts of one
provider make its rest bite. Instant 0 is the past and the clock starts at 1;
with `Window = Limit = 0` a reset time passes with the next tick. A task takes
another request once its writes have run. The turns need three requests and
neither edits nor time, the sessions a tick, the account yet to be added an
edit; the theorems of section 4 cover the combinations.

In `analytics` two requests share one permit and one place in the queue, so both
limits are met; the copy ends before the byte that completes the second usage
event, so a cut copy counts less than was sent, and with `ChunkTimeout = 0` one
tick without a chunk is a pause. In `client_auth` one edit is enough for a key
to change while a task is between its query and its store; the cache has room
for one key, and only one is in the run at a time, so that the eviction at a
full cache is left to the theorems; `Slack = 1` lets a check straddle a tick.
Both keys may use the proxy; a key of another scope is left to the theorems.
`capacity` needs two requests for one to be recorded while the other is read
back, and a restart to read them at all; `used` reaches the capacity, so the
branch near the limit is taken; the two requests have a weight that is right and
one that is not; with a window and an age of zero an entry is old with the next
tick, and the second of two instants shows both sides. In `accounts` two clients
are a check and the write that overtakes it, or two callbacks with the same
state. In `startup` two processes are a copy and one that removes its target,
opens it early or replaces a backup of its second; the fault falls on any of the
steps, with a second attempt or a second process after it; a file for each
process and one for the path are as many as can be told apart. More starts and
faults are left to the theorems, which bound neither.

Two more runs each state what a comment of the code says, and TLC shows a
behaviour of the code that does otherwise:

| Run | Comment | What happens |
|---|---|---|
| `wipe_only_revoked` | `PermanentlyRevoked`: "has been permanently revoked" | the poller's verdict is about the snapshot, the wipe is about the row: a re-authentication in between loses its tokens |
| `one_reset_per_window` | "Clear rate_limit_reset so it doesn't fire again on the next request" | only the clone loses it; the row keeps it and the next request resets the session again |

### Fairness

`FairSpec` of the token manager: the code of a call runs (weak fairness of
`CallStep`), the exchange ends because the provider's HTTP client has a timeout
of 30 s, and `Acquire` is strongly fair because tokio's mutex is FIFO. Nothing
is assumed of clients, `ClearAccountState` or the clock. In `AutoRefresh` the
scheduler's task runs and time passes (weak fairness), and a check gets its
connections again and again (strong fairness); nothing is assumed of the
upstream, clients or users, so `DueAreAsked` has the premise that checks are
eventually no longer cut short. In `Analytics` tokio runs its tasks and its
blocking threads (`Process`, `Relay`, `WriteStep`); nothing is assumed of
handlers, of clients, of the upstream, of the clock or of the end of the process.
So the ledger owes nothing for a stream that runs, and every record that is owed
is settled. In `Startup` a process that has begun goes on (weak
fairness of `Step(p)`), unless it crashes; nothing makes it succeed.

### Observations

Reading the code for these models, we met the following. The first group is what
the models show (their histories and premises name each case), the second
lies beside them.

* Waiting tasks do not share a refresh: after the mutex the token manager checks
  the task's own clone and its old `now` again, and refreshes once more, although
  its comment speaks of "a single refresh operation".
* A spawned 401 write of an old request can run after a re-authentication, mark
  the account again and expire the new token.
* In auto-refresh, an account that is refused ends the check before the accounts
  after it. The scheduler takes any integer in the reset header for milliseconds
  (`auto_refresh.rs:428`), while the eligibility rules convert epoch seconds
  (`normalize_epoch_millis`, `load-balancer/src/lib.rs:27-33`): an account whose
  answers have seconds is asked again at every check, since each answer records
  an instant that has passed.
* Auto-fallback: `load-balancer/src/lib.rs:5` and `:285` and `README.md:130` speak
  of an account of higher priority that has become available again, and the test
  `auto_fallback_only_for_anthropic` (`lib.rs:606`) of Claude accounts only.
  `check_auto_fallback_accounts` (`lib.rs:287-312`) compares the candidate with
  nothing and looks at no provider: any account with auto-fallback whose window
  has reset comes first, also one of lower priority than that of the running
  session. `OrderFollowsRules` takes no side.
* The first run, with neither keys nor a password: `README.md:143` says a
  fail-closed bootstrap answers 403 on all endpoints that are not exempt, the
  comment at `auth.rs:413-414` that all requests are allowed. The code lets
  everybody `GET` the dashboard and answers 401 to the rest. `OpenOnlyWhenKeyless`
  begins where the first run ends.
* The tee: `streaming.rs:22-26` speaks of timeouts "before abort" and `:100-101`
  says the buffer is sent when the stream times out. The timeouts are tested when
  a chunk arrives and only stop the copy: the stream goes on, and the buffer is
  sent when it ends or is dropped. A client that waits on a dead stream keeps the
  record back for as long as it waits.
* A failed copy at startup leaves a file; the next attempt takes it for the
  database and serves an empty one. A copy removes what is at its target, also a
  database another process has just made, opened and is writing, which then
  serves an unlinked file that is gone when it stops; when the copy fails, the
  next attempt makes a new database in its place. `ccflare.db` takes precedence
  over the Node file, though `migrations.rs:123-131` says the latter is copied
  when the new one is absent. Payloads without a request stop the migration
  although `pool.rs:97-98` says violations do not block (`INSERT OR IGNORE` does
  not ignore foreign keys).
* Backups are named by the second, and one of that name is removed first
  (`migrations.rs:71-87`): of two processes that start in the same second, the
  later one can replace the only backup of the old data with one of the migrated
  data. And `is_initialized` takes a failing query for an empty database, which is
  then migrated without a backup, though `pool.rs:88-90` promises one.
* Once the X-factor has saved an account's state, deleting the account fails; a
  deleted account that is still in the cache makes `save_all_states` fail for
  all of them.
* The duplicate check of the command line takes a database error for the absence
  of a duplicate (`commands.rs:96`); a rename checks exact names only.
* `xfactor/state.rs:137` and `:279` call `c_i_hard_lower` a hard lower bound. It
  can exceed the capacity: a usage is set against tokens served after it was
  measured, or, as the window of five hours slides and the provider's does not,
  before that one began; the weights of models are estimates; and a request that
  is recorded beside the start can be in the window twice. It never falls, so one
  such step stays.
* When the query for the accounts or their states fails at the start, the X-factor
  service begins with nothing, and its next save overwrites the persisted bound.
* Names: the `accounts` table of the TypeScript version has no `UNIQUE`, and the
  migration keeps it and its duplicates (`migrations.rs:350-351`). A command by
  name then reaches the first of them, a rename to a name in use succeeds.
* The permit is given back when the response begins, so `max_concurrent_requests`
  does not count streams (`config.rs:63`). The post-processor is not drained at
  shutdown.
* Beside the models: `commands.rs:313-350` updates only `access_token`, while an
  account with a key is served from `api_key`; `Config::load` takes invalid JSON
  for the defaults, though `config_watcher.rs:5-6` says the previous
  configuration is kept; `openai_stream` emits its final events twice if
  `finish` follows `[DONE]`.

## 4. The proofs

The theorems hold for all values of the constants that the named assumption of
the module allows; TLC evaluates it in each run. Every invariant and every action
property of every passing run is proved, and `LedgerKept` up to fairness.

`Credentials_proofs.tla`, part 1, about `TokenManager` (`ConstantsAssumption`: a
token lives longer than the safety window, periods are natural numbers, bounds
are positive, `Free` is no task):

* `TypeCorrect`: `Spec => []TypeOK`. `TypeOK`, with the dates of calls and
  records (`Dated`), is inductive; the lemmas `GrantType`, `AnswerType`,
  `BumpedType` ... type the operators the actions share, and `NextType` has one
  step per action.
* `MutualExclusion`: `Spec => []RefreshesSerialised`. The invariant is not
  inductive; `LockInv` is: a task inside the critical section owns the mutex it
  took (`owner[acct[t]][lk[t]] = t`), and no task holds a mutex of a generation
  that is not yet in the map (`lk[t] <= lockGen[acct[t]]`). Two tasks then
  cannot share a generation, and two different generations cannot both be the
  current one.
* `BackoffEnds`: `Spec => BackoffNotExtended`, from `TypeOK` and a look at each
  action that touches the failure map (`BackoffStep`).
* `WindowCoversWait`: `Spec => []TokenOutlivesWait`. `WindowInv` adds that a
  task's `now` is never ahead of the clock and that a grant in a task's hands
  outlasts the window counted from that `now`; the assumption that tokens live
  longer than the window is needed here.
* `RotationSafe`: `Spec => []RotationReachesRow`, and `RowsAdvance`:
  `Spec => RowNeverRegresses`, both from `RowInv`. Its heart is `GrantInv`: the
  refresh token a task has just been granted is accepted by the provider and,
  where tokens rotate, known to that task alone (`Known(a)` is everything rows,
  cached rows and clones hold). Without the second half another task could
  consume it before it reaches the row. `IssuedInv` makes the next grant new;
  `NewerInv` needs `MutualExclusion`: while no mutex was dropped, nobody else
  can write between the exchange and the write of a task. Four kinds of steps
  preserve `RowInv`: quiet ones (`QuietStep`, `QuietKeepsRowInv`), the exchange,
  the exchange of a key, and the write.

Part 2, about `Credentials` (also `CredentialsAssumption`: which kinds of
accounts there are). Here a mutex protects only one of four writers, tokens can
be revoked at any time, and a restart drops what was in memory, so the
invariants of part 1 do not carry over:

* `CredTypeCorrect`: `CredSpec => []CredTypeOK`.
* `RowTokensAccounted`: `CredSpec => []RowTokenAccounted`, from `CredInv`.
  `Hands` are the places where a successful exchange waits for its write: a
  task, the poller, the re-authentication. `InHandInv` says of each full hand
  that its refresh token is accepted or was revoked and, where tokens rotate,
  that nobody else has it: no row, no cached row, no clone, no snapshot
  (`Seen(a)`), no other hand. So no other writer can consume it before it is
  written. `GrantsInv` makes the next grant new. `AheadInv` says that a full
  hand which was not overtaken holds tokens newer than the row's; it needs
  `LockInv`, since of two tasks under one mutex only one can have its hand full,
  and `HandsInv` ties the tokens in hand to the place a task is at. Each action
  is of one of three kinds, and the kinds preserve `CredInv`: `Calm` (no new
  token moves; tokens may only be lost, revoked or wiped), `Obtains(h)` (hand
  `h` gets a new grant) and `Delivers(h, stored)` (hand `h` is emptied into the
  row, or the write finds no connection).
* `WipesOnlyStaleSnapshots`: `CredSpec => WipeOnlyIfStale`, from `RevokedInv`:
  what the poller takes for revoked is never accepted again.
* `RegressionsExplained`: `CredSpec => RegressionExplained`, from `AheadInv`: a
  step that takes a row back delivers a hand that was overtaken, or is the
  poller's wipe.

`AutoRefresh_proofs.tla` (`AutoRefreshAssumption`): `TypeCorrect`, where
`SleepBound` bounds the product of interval and multiplier. `WindowIsQuiet`:
`Spec => QuietWithinWindow`, for answers with any kind of header. `SeenInv` says
what `seen[a]` is worth: the window runs, the scheduler has recorded its end
exactly, and the row says the same or nothing (`Agreed`). `LateInv` says of writes
that are still under way that one which is not past carries the end of the
window that runs. So no write, however late, gives the row a reset
that counts as newer.

`Routing_proofs.tla` (`RoutingAssumption`: accounts are numbered by priority, the
scenes' rows and instants are well typed):

* `TypeCorrect`, `ExhaustedFirst` (`Spec => []GaveUpOnlyWhenExhausted`),
  `ProviderRests` (`Spec => []ProviderRestsAfter429`) from one inductive
  invariant, `Inv`: the world is typed (`WorldOK`), spawned writes are typed
  (`PendOK`), and each request is `Sound`, with `Tried`: every account before
  its place in the list was asked without success, or belongs to a provider that
  rests.
* `SelectionFollowsRules`: `Spec => OrderFollowsRules`. `Before` is a strict
  total order on accounts (`BeforeOrder`), `Sorted` lists a finite set in it
  (`SortedArranges`, by the rank of an account), a tier is a prefix of that list
  (`TierComesFirst`), the turn stays inside the tier (`TurnInTier`), and the
  account that `Rule` puts first has one of the documented reasons
  (`FirstHasReason`).
* `TurnsAreFair`: `Spec => []Balanced`. That counts differ by one at most is not
  inductive; `TurnsInv` is: the last `m` turns, less than one round, went to the
  `m` places before the next one, round the tier (`Rotation`). It needs that a
  tier keeps its order while it keeps its members (`TierInOrder`), and that the
  remainder of the counter by the size of the tier moves on by one
  (`NextRemainder`), also where the counter wraps, since `Wrap` is a multiple of
  every size.

`Analytics_proofs.tla` (`AnalyticsAssumption`: finitely many requests, sizes and
timeouts are natural numbers):

* `TypeCorrect`, `CopiesAreSound`, `RowsAreTruthful` from `IInv`: the handlers
  in progress are a finite set whose cardinality moves with `permits`
  (`PermitsOK`), the stage of a record agrees with the phase of its request
  (`StageOK`), the queue has exactly the queued ones, each once (`QueueOK`), the
  copy is a prefix (`CopyOK`), rows and credits agree (`RowOK`), times are typed
  (`TimesOK`).
* `ImplementsLedger`: `Spec => Ledger!Spec`, the safety half of `LedgerKept`.
  `StepRefines` maps each action: `AnswerOwes`, `RecordsSettle`, `EndSettles`
  (the end of the process settles all at once), the others stutter.

`ClientAuth_proofs.tla` (`ClientAuthAssumption`): `Revocation`, `Refusal` and
`FailClosed` from `IInv`: `ClockOK` (what holds of the table was noted now),
`CachesOK` (an entry says what held when it was made, less the time a check
takes), `TasksOK` (the same of what a task has read), `AnswerOK`. The lemmas
`Judged` and `FreshIsGrounded` turn a fresh entry into a recent fact.
`TypeCorrect` bounds the caches by their sizes (`CachedFinite`) while tasks store
in any order. `LimitHolds`: `Spec => []RpmHolds`. Instants are taken before the
lock and recorded after it, so a window is not sorted; `RpmKept` says that what
is recorded of a key are its last admissions in their order, each under an
instant at most `Slack` before, and that all earlier ones are out of the window
by now. `check_and_record` drops the entries before the first fresh one, and
`PrunedShortens` uses the least such place.

`Capacity_proofs.tla` (`CapacityAssumption`: finitely many requests, the
capacity and the interval are positive):

* `TypeCorrect`; entries, requests and samples are finite sets (`EntriesFinite`).
* `FreshUsageStays`: `Spec => []FreshUsageKept`; while what was fetched is fresh,
  the cache has exactly that (`FreshInv`).
* `RequestsCountedOnce`: `Spec => []CountedOnce`. `CountInv` says of the window,
  and of the rows found while it is built, that it has one entry of each row that
  was read, one of each summary that came to the state, and no others; only what
  is too old may be missing (`Tracks`). Summaries on threads of their own, a save
  on either side of the reading and a bare window need no case apart.
* `LowerBoundSound`: `Spec => LowerBoundExplained`, about each step that raises
  the bound. A usage is at least what the requests it counts have cost
  (`UsageInv`); where no cause that the property names applies, the window's
  tokens map one to one to tokens of requests the usage counts
  (`WindowWithinUsage`), so each of the three formulas gives at most the capacity
  (`BoundExplained`).
* `BoundKept`: `Spec => BoundUnlearned`. `StoredInv` says that a state has at
  least what is persisted, unless the query at the start failed.

`Accounts_proofs.tla` (`AccountsAssumption`): `TypeCorrect`, from any accounts at
the start; that names are distinct is part of it only where the table enforces
it. `VerifierOnce`, whose invariant `SessionInv` says that a session that was
handed out is gone, and that a client whose read is not spoilt has read a session
that is still there. `NamesakesTraced`, whose invariant `NameInv` says that a name
is apart from those it was compared with (`against`), and that a name that was
checked is apart from the accounts the check saw, for as long as they keep their
names; the insertion or the rename then hands the second part to the first.

`Startup_proofs.tla` (`StartupAssumption`): `TypeCorrect`, from `TypeInv`, where
two copies never write one file (`FilesOK`); `Serves` and `BackedUpFirst` from
`TypeInv /\ Calm`. `Calm` speaks of the files in use that are not doubtful,
however many processes start at once: such a file is the empty target of one
copy, which nobody has open, or has the data of a predecessor (`Contents`); its
data were saved before a process came so far that it may write them (`Backed`);
a process that has passed the migration has its schema (`Schema`); and one that
ends its search without a file had none to find (`Searching`). The parts need
each other: that there is nothing to back up in a new file follows only from the
search, and that a copy has what it was copied from only from its target being
its own. Steps that leave the files alone are dealt with once (`QuietCalm`); the
others make a file (`MadeCalm`), open one (`OpenCalm`), remove one
(`ClearCalm`), end a copy (`CopiedCalm`), or bring one further.

Only model-checked is what needs fairness, since the prover reaches neither
liveness from fairness nor ENABLED: `EveryCallEnds`, `DueAreAsked`, `StartEnds`
and the liveness half of `LedgerKept`. The two runs that expect a violation have
nothing to prove. No proof needs an induction over data: sorted lists are
described by the rank of an account, counters by the step that moves them, and
where a least element is wanted it comes from the well-foundedness of the natural
numbers (`LeastNatural`).

## 5. Mutants

An operator whose comment begins with `Fault:` stands before the definition it
spoils and is used nowhere: a dropped lock guard, a missing release, a timestamp
written again, a comparison that is off by one. Substituting it makes TLC
violate the property.

## 6. Plan

Done: `TokenManager`, `Credentials`, `AutoRefresh`, `Routing`, `Analytics` with
`RequestLedger`, `ClientAuth`, `Capacity`, `Accounts`, `Startup`, and the proofs
of section 4. What would come next, in this order:

1. Abstract specifications of two more components, with refinements like that of
   `RequestLedger`: a rate limiter for `ClientAuth`, and a row with an atomic
   rotation for the token manager.
2. The refresh of tokens at startup as one more caller in `Credentials`.
3. The reload of the configuration against its writers, and the event bus.
4. The state machine of `openai_stream`, once a provider uses it.

# Formal model of the mutiLLM gateway

The gateway (`src/backend/app`) puts an OpenAI-compatible data plane, an admin
API and a user portal before a set of upstream language models. A request either
goes straight through to one model ("passthrough") or to a pipeline that asks
several member models and lets a judge write the answer. Everything is one
asyncio process over SQLite.

## The system's parts

| Part | State | Operations | Talks to |
|---|---|---|---|
| Streaming answers (`gateways/llm_gateway.py`) | per request: queue, `StreamOutcome`, three tasks | open, pump events, ferry lines, persist | adapters, call log |
| Non-streaming answers (same file) | per request: handler task, work task, detached persister | launch, await, hand over, log | strategies, adapters, call log |
| Process and iterative streams (same file) | as streaming, plus plan, rounds, first success | the same, with the strategy inside the pump | strategies, call log |
| Call log (`logging_svc.py`) | `request_logs.status`, `model_call_logs` | start, record, finish, retention delete | written by all of the above |
| Upstream adapters (`adapters/`) | one call: attempt, pieces kept, error | stream with timeouts, aggregate with retries, probe | upstream services |
| Council strategy (`strategies/council.py`) | outcomes of members, critique, judge | run, prepare, stream | adapters |
| ICE strategy (`strategies/ice.py`) | round, verdict, outcomes | run, iterate, finish | adapters |
| Entry and routing (`namespaces.py`, `execute_chat`) | route list cache | validate, resolve, reject | all of the data plane |
| Identity (`auth_svc.py`, `main.py`) | sessions, keys, lockout counters | login, verify, revoke | users |
| Users, grants (`admin/users.py`, `authz.py`) | users, grants, keys | create, change, delete, replace grants | catalogue |
| Catalogue (`admin/providers.py`, `models.py`, `pipelines.py`) | providers, models, pipelines | create, change, cascade delete | grants |
| Settings, bootstrap (`admin/settings.py`, `bootstrap.py`, `db.py`) | service key, options, schema | reset, repair at start | identity |
| Trace administration (`admin/traces.py`, `rejudge_svc.py`) | the log | clear, retention, rejudge | call log |

What is hard here: three tasks share a queue and a result object per stream;
cancellation travels along awaits; a disconnect can reach a request at any
await; a retry must not repeat what was kept; the log is written in several
transactions by whichever task is left. `PROJECT.json` lists each hazard at its
line with the properties that cover it.

What makes each part correct:

* *Streams*: one story per request (client, trace and last row agree), nothing
  stranded on the queue, every stream whose response was returned logged, the
  upstream left alone or cancelled as `detach_on_disconnect` says.
* *Non-streaming answers*: what was answered is logged, rows written once, no
  upstream call goes on behind its request, no trace left pending.
* *Call log*: pending once, terminal once, a terminal trace never touched.
* *Adapters*: bounded requests, no replay of kept output, no early giving up.
* *Strategies*: every call that was made is logged once, degraded exactly when a
  fallback answered, token totals cover the calls, rounds are bounded.
* *Identity and catalogue*: a revoked credential stops working, an administrator
  is left, no grant points to nothing, no
  stale route, models as their upstream lists them.

## Modules

| Module | Models | Checked by | Proved in |
|---|---|---|---|
| `TraceLog` | what the call log promises: `start_request`, `record_call`, `finish_request` as transactions | as `RefinesTraceLog` | |
| `StreamRelay` | `_passthrough_stream`, `_pipeline_stream`, `_drain_with_heartbeat` | `Stream`, `StreamAbandoned` | `StreamRelay_proofs` |
| `BlockingCall` | `_run_pipeline` with stream off, `_passthrough`, `_detached_*_persist` | `Blocking`, `BlockingPending` | `BlockingCall_proofs` |
| `Council` | `CouncilStrategy.run`, `prepare_stream`, `run_stream_process` with `run_members`, `run_one`, the critique, the judge, tool aggregation and its fallbacks | `Council` | `ProcessRelay_proofs`, part 1 |
| `ProcessRelay` (extends `Council`) | `_pipeline_stream_process` around the council: pump, handler, response, persist, and `_run_pipeline`'s 502 | `Process` | `ProcessRelay_proofs`, part 2 |
| `Ice` | `IceStrategy.run`, `prepare_stream` with `_iterate`, `run_stream_process`, `_should_finish`, and what the gateway's pump collects of the rounds | `Ice` | `Ice_proofs` |
| `Catalog` | `admin/providers.py`, `models.py`, `pipelines.py`, `put_grants`, `delete_models_cascade` and the foreign keys, under concurrent requests | `Catalog` | `Catalog_proofs` |
| `UpstreamCall` | `BaseAdapter.complete`, `_timed_events`, `_with_retry`, the OpenAI-compatible stream | `Upstream` | `Calls_proofs`, part 1 |
| `Accounts` | `auth_svc.py`, `admin/users.py`, `admin/auth.py`, `portal/auth.py`, the sessions of `repos.py`, the middleware of `main.py`, `_ensure_admin`, under concurrent requests | `Accounts` | `Accounts_proofs` |
| `TraceAdmin` | the log's rows while requests and reruns write them: `admin/traces.py`, `rejudge_svc.py`, `cleanup_old_logs`, `record_rejected_request` | `TraceAdmin` | `Calls_proofs`, part 2 |
| `Routing` | the route list cache of `namespaces.py`, `_sync_models`, `create_model` and `update_model`, `authz.py`, the service key | `Routing` | `Routing_proofs` |

Operators named `Slip...` are the mistakes each property is tried against: a
`Slip` takes the place of the definition that follows it, and the property has
to fail. They are not part of any specification.

### StreamRelay

`handler`, `pump`, `ferry` are the program counters of the three tasks of one
request; `outcome` is `StreamOutcome.status`, the one field two tasks write;
`sent` is everything ever put on the `asyncio.Queue` and `got` how much the
response generator has taken. `status` and `calls` are what committed
transactions show; `draft` is the row persist has flushed but not committed.
A step of the model is the code between two awaits: `PumpStart` up to the first
wait for the upstream, `PumpChunk` one event, `PumpFinish`/`PumpFail` the last
event with the closing lines, the verdict and `_END`, which no await separates.
The handler creates the pump and then still has to leave the session of
`execute_chat`, an await, before the response is the framework's: `Respond` and
`ResponseLost` are the two ways that goes. A response that is lost there leaves the
pump running and the trace pending, and `EveryStreamIsLogged` is about the others.

### BlockingCall

`handler`, `work`, `persister` are the request's tasks. A bare `await work` makes
the cancellation of the handler a cancellation of `work` (`CancelWaiting`), and
the handler sees `CancelledError` only when `work` has ended (`HandOver`,
`LogCancellation`). The final transaction is `Resume` to `CommitAndReply`, with
`CancelWriting` in between. `members` are the calls a pipeline's work has out in
tasks of `gather`: it cancels them when it is cancelled itself (`WorkCancelled`),
and leaves them going when one of them raised what `run_one` does not catch
(`GatherRaises`); `NoOrphanWork` names that exception, which `Council` shows from
the inside (`NothingLeftRunning`).

### UpstreamCall

One call: `parts` and `fragments` hold, for each piece kept, the attempt that
produced it, so a replay is visible as two attempts in one result. Events that are
not kept are without number, and `handling` is the code between two waits, each of
which has a timer of its own. `EveryCallEnds` says what the timers do: an upstream may
fall silent at any place and the call ends; one that goes on sending keeps it for as
long as it does, since nothing limits the whole (`base.py:5`). Its specification
is called `CallSpec`: the proofs about a call and about the log it is written to
(`TraceAdmin`) share a module, and so do those of the council and of the relay that
drives it.

### Council

`member[i]` follows the task of `run_one` for member `i` (new, queued for the
semaphore, calling, unwinding after a cancellation, ended), `permits` the
semaphore, `finished` the order in which tasks end, `taken` how far
`run_stream_process` has handed them over. `pc` is the strategy coroutine,
`critique` and `judge` the judge's two calls. `reply` is what the run leaves:
whose answer, in which form, whether degraded, which calls are reported as rows
and which are in the token total. `mode` chooses the driver (`run` and
`prepare_stream` gather, `run_stream_process` takes outcomes as they complete),
tool mode and the strictness of members and judge (`fault_tolerance`). Prompts
and token numbers are abstracted away; a tool call is its function name, since
`pick_fallback_tool_calls` only compares names, and "wrong" is a call that
`validate_tool_calls` refuses.

### ProcessRelay

The generator runs inside the pump, so every pump action is a council action
together with what the pump does about the event: lines put on the queue,
`first_success`, the stash, `outcome`. `handler` waits for the first success or
the pump's end and then opens the response, raises the stash or raises what the
pump died of. `ferry` is `event_stream()`, `draft` what `persist` has read,
`trace` and `calls` the committed log. Members' tasks run on their own, also
while the pump is being cancelled.

### Ice

A run is a loop: the members of a round are asked (`pc = "members"`), their
outcomes are merged into `ok` (`answer[i]` is the round that member `i`'s kept
answer comes from), the arbiter criticises (`"critique"`), its verdict decides
with `conf_history` (`conf`) whether there is another round (`Refine`) or the
final call (`Conclude`). `run` makes that call itself (`"final"`), the two
streaming drivers hand a plan for it to the gateway (`"planned"`); from there on
the stream is that of `StreamRelay`. `rows[e]` counts how often the outcome `e`
has been put where the log will find it: `outcomes` in `run`, the events and
round results that the pump collects in the streams; `reply.rows` is what the
gateway gets at the end. A verdict is its two flags and a level of confidence:
nothing but comparisons is done with the number. The semaphore and the tasks
that `gather` leaves behind are in `Council`, which runs the same `run_one`
skeleton.

What the drivers do differently and the model keeps: a failed critique of round
0 makes `run` fall back (unless strict) but ends a stream; one of a later round
sends all lenient drivers to the final call, which only `run` marks as degraded:
the streams have no such mark, though the design document's failure matrix and
the docstring of `_iterate` ask for one. An unparsed verdict never ends the loop
by confidence and stays out of `conf_history`, so stagnation compares the last
two parsed verdicts, however far apart.

### Catalog

`db` is what is committed: the ids of the providers, the provider of each model,
the judge of each pipeline, the rows of `pipeline_members` and the grants of a
user. SELECTs of a handler run each by itself (sqlite3 begins a transaction with
the first write), so a request is a sequence of reads (`Check`, `ReadModels`,
`ReadAffected`, `ReadRows`), other requests in between, and then one step from
the first write, which takes the database's write lock, to the commit. What it
read and relies on is in `models`, `affected` and `old`. Where the code flushes
before it reads (a PATCH that changes a column before `_replace_members`) the
read is part of the last step. Ids are reused, as `INTEGER PRIMARY KEY` without
`AUTOINCREMENT` does: `_replace_members` deletes by id, so a stale row id can be
another pipeline's row by then. `raced` and `emptied` are history: the pipelines
whose members were last written while another request held on to what it had
read, or with an empty list (`PipelineUpdate.members` may be empty, although
`pipelines.py:1` speaks of at least one member).

### Accounts

`account`, `rows` and `fails` are `users`, `admin_sessions` and `_lock_state`;
`req[r]` is what one request holds between its awaits. A login is three steps:
`LoginCheck` looks at the lockout, `LoginVerify` reads the user and checks the
password (no await in between), `LoginIssue` writes the session. An authenticated
request passes `VerifyRead` (`find_valid_session` and the role) and `VerifyRenew`
(the UPDATE of `expires_at` by row id) before its handler starts, and the handlers
that decide before they write are two steps again (`PatchRead`, `PatchWrite`;
`DeleteRead`, `DeleteWrite`; `SelfRead`, `SelfWrite`). SQLAlchemy writes only the
columns that differ from the row as read (`Changes`), by primary key, and an
UPDATE that meets no row is an error. A password is a version number, so "the old
password" is one that is not `account[u].pw`; a user stands for the name and the
row id, which SQLite hands out again. A row of a session carries, as history, the
password it was opened with and whether a change left it as it was (`left`).
`Restart` is the process dying and `lifespan` running.

### TraceAdmin

The life of a trace from the administrator's side. `trace[i]` and `calls[i]` are
the committed rows under id `i`; ids are reused after `clear_traces`, as the
table has no `AUTOINCREMENT`. Every request and rerun has a run number, which the
code does not: it tells who wrote a row (`run`), who finished a trace (`by`),
whose trace was deleted under its feet (`cut`) and who died or could not write
(`hurt`).

A rerun is `RejudgeStart`, then its critique (`CritiqueEnds`), then the row of that.
The row is stamped with `created_at` when it is flushed and only then waits for
SQLite's write lock, and `list_model_calls` reads by that stamp: `at` is the stamp,
`clock` the last one given. A critique without an answer is committed alone
(`CritiqueAlone`). A good one takes the lock and keeps it (`CritiqueFlushed`,
`lock`) up to the commit of both rows (`FinalEnds`): over the whole second upstream
call in `rejudge_trace`, for the second row only in `persist` of `rejudge_stream`.
Every other writer waits meanwhile (`Free`) or gives up after the busy timeout
(`Abort`). `met` are the pairs of reruns of a trace of which one stamped its critique
while the other had stamped and not committed: exactly these may be read mixed.

### Routing

`conf[p]` is the version of provider `p`'s configuration, `cache[p]` the entry of
`_list_cache` with the version it was fetched with: that is what an entry can be
stale about, its names are whatever the upstream said. A commit and the
`invalidate_route_list` that follows it are two steps, as are `LookUp` and
`Store` around the upstream's answer.

What an upstream lists is a sequence, and nobody removes repetitions. `_sync_models`
reads the rows (`SyncRead`), decides by them which places of the list have no row yet
(`Missing`) and which rows to mark (`Plan`), and writes (`SyncWrite`) in one
transaction, before which an administrator or another synchronisation may have
written. A name that occurs twice is missing at both places, so it gets two rows;
`create_model` and `update_model`, which may move a row to another provider and
name, make such doubles as well, and the model lets them. `by` is history: who wrote
a row's name, provider or switch last; `raced` in a request's frame says that rows of the provider
changed between its read and its write. `Listed` and `Callable` are what
`route_models` and `route_chat` decide for a name and a caller's grants, the fallback
for an upstream that cannot be reached included. `stored` and `served` are the hash of
the service key in `app_settings` and in `app.state`.

## Runs

| Run | Instance | Shows |
|---|---|---|
| `Stream` | one passthrough and one pipeline request, detach on or off, one chunk | all safety properties, refinement of `TraceLog`, and that every stream whose response was returned is logged |
| `StreamAbandoned` | the same | a generator that is not running when the client leaves has no finally clause to run: with detach off the upstream goes on and the trace says success |
| `Blocking` | one passthrough and one pipeline request, detach on or off | all properties of the non-streaming path |
| `BlockingPending` | the same | the detached task dies of the cancellation it should survive: the trace stays pending |
| `Upstream` | 2 retries, 4 pieces kept | retry, timeout and fallback rules, and that silence ends a call |
| `Council` | 3 members, 2 permits, one tool and a wrong one, all drivers, modes and tolerances | concurrency bound, reporting, degradation, totals, no orphans, termination |
| `Process` | 2 members, 1 permit, one tool and a wrong one, detach on or off | call log, status and response agree; the composition implements `Council` with its fairness; every request is logged |
| `Ice` | 2 members, 3 rounds, confidence 0 to 2, threshold 2, all drivers, strictness and stagnation on and off | every call reported once, latest answers judged, rounds justified, degraded truthfully, termination |
| `Catalog` | 3 requests at a time out of 21, 2 providers, 2 models, 2 pipelines, two catalogues to start from | which pipelines can be left without members, grants go with their targets, which deletions may fail, what a PATCH leaves |
| `Accounts` | the built-in administrator and another user, 2 requests, 2 sessions, 3 passwords, lockout after 1 failure | an administrator remains; the lockout is overrun by at most the requests in flight; sessions with an old password are those a PATCH or a login under way leaves; none that was revoked comes back |
| `TraceAdmin` | 2 jobs, 2 owners, 2 ids, 4 runs | who can leave a trace pending, whose rows and status a trace can get, what a rerun leaves and what can be read in its midst |
| `Routing` | 2 requests, 1 provider id, 1 name listed never, once or twice, 2 rows, 2 configurations, 3 keys | rows mirror the upstream's list after a synchronisation and switches follow it; when the list and the chat agree; when a cached list or the key in memory may differ from the database |

Bounds: three members under two permits are the least that make one wait while
two run, and have a camp of two against one in the fallback; with one permit two
members already complete in an order of their own, and the relay adds nothing
that a third member could tell apart. One tool, "wrong" and text are the three
verdicts of validation. Three rounds have a first, a middle and a
last one, and three confidence levels a rise, a plateau and a fall below and at
the threshold. Requests of the data plane share nothing but the process, so two of
them, one of each kind, show what any number does; of the admin API it takes one
that deletes, one that updates and a third that changes what both have read, and
two ids of everything tell apart the own, the other and the reused one; one chunk is enough to put a piece of output
before, between and after the other tasks' steps; three attempts have a first, a
middle and a last. The ids of `Catalog` are bounded by its constants, with one
spare row: a request that would need another id waits for ever. `MaxChunks` bounds what an upstream sends and `MaxKept`
what of it is text or a tool call; the code has no such bound, and events that are
not kept have none in `Upstream` either. Runs stop when every request is over, so deadlock is not
checked there; it is in `Accounts`, `TraceAdmin` and `Routing`, whose requests keep
coming. In `Accounts` two users are the one the rules protect and one they count, and
two requests are what it takes to pass a check together; a threshold of one makes the
overrun show as soon as a threshold of five would, and `MaxFails` lies above what the
threshold and two requests allow, so the bound never cuts a violation off (2.1 million
states). In `TraceAdmin` four runs over two ids let an id be given
away and reused while two jobs still write to it (464 000 states). In `Routing` one
provider id is enough, since everything is looked up by provider, and the same id
with two configurations is both a change and a deletion with reuse; two rows are one
double, made by a list, by hand, or by two synchronisations; a third key is what a reset
takes while a second one overlaps with it (1.4 million states up to the exchange of
requests and of keys). A second name or provider, to which `update_model` could move a
row, is beyond reach of TLC with all of this; the proofs are for any number of names,
providers and rows.

Fairness: tasks of the event loop that can run do run (weak fairness of pump,
persist, handler, work), every wait for an upstream is bounded by
`stream_events_timed` or `_timed_events`, and the framework iterates a response
body until it ends or its client leaves. Nothing makes a client call, stay or
leave. A timer limits each wait and not the whole call, so that a call ends is a
promise of the code only for an upstream that falls silent: that is what `Upstream`
checks, with fairness for the caller's side alone. The runs that wait for calls
(`Stream`, `Blocking`, `Council`, `Process`, `Ice`) assume besides that no upstream
goes on sending for ever. The council's members are weakly fair one by one for the
same reason and because `asyncio.Semaphore` wakes its waiters;
`Process` shows that the relay's scheduling gives the council this fairness
(`DrivesTheCouncil`).

`Accounts`, `TraceAdmin` and `Routing` state no fairness: what they promise is safety,
and the code has nothing that makes an administrator come back.

Several run properties are the conjunction of two promises that are proved one by one
as well: `SuccessIsEarned` (`DetachedOutcome`, `AttachedSuccessIsDelivered`),
`LastLinesTell` (`NothingAfterEnd`, `CleanDoneIsSuccess`), `EndIsLogged`
(`AnswerIsLogged`, `PendingOnlyAfterTrouble`), `RetriesAreSpent`
(`GivesUpOnlyWhenSpent`, `RequestBudget`), `CallsAreAccounted` (`EveryCallReported`,
`TotalsCoverEveryCall`), `LogTellsTheStory` (`CallsAreLogged`,
`StatusTellsTheStory`), `RowsTellTheRun` (`EveryCallReported`, `AnswersAreLatest`) and
`DeletionsAreClean` (`DeletionCleansGrants`, `DeletionsGoThrough`).

`TotalsCoverEveryCall` excepts the critique on one path: the text answer of a lenient
`run` after a failed judge adds up the members' tokens only (`council.py:667`), while the
tool path adds up all calls. The documents want all calls there too: see the last section.

## Proofs

TLAPS proves for every set of requests, every split into passthrough and
pipeline requests and every bound what the runs check on small instances, the
safety part of it: see `theorems` in `PROJECT.json`.

* `StreamRelay_proofs`: `FinalRowAgrees` is not inductive. It rests on
  `DraftIsFinal`: once persist has read the outcome neither pump nor generator
  can change it, since persist runs after the generator is over and waits for
  the pump. `EndIsLast` says that `_END` is the last item and put by the ending
  pump, `ClosingLines` what the closing lines tell about the outcome. Their
  conjunction with the type invariant is inductive and implies every safety
  property of `Stream`, and with it each step is a step of `TraceLog` or none.
* `BlockingCall_proofs`: the invariant says for each place of the handler who may
  still write the trace. Type correctness itself needs it: the status that is
  written is the result of `work`. For `NoOrphanWork` it says that members' calls go on
  only while `work` waits for them or a `gather` of theirs has raised.
* `Calls_proofs`, part 1 (`UpstreamCall`): `RequestsSoFar` counts one request an attempt and one
  more once the options were dropped; `BackoffIsClean` says that a retry is only
  ever waited for with no text kept.
* `ProcessRelay_proofs`, part 1 (`Council`), for any number of members, permits and tools:
  `CompletionOrder` ties `finished` to the members' states, so that what the
  generator handed over is each outcome once; `PermitsAreHeld` says that free
  permits and calls that are out add up to `MaxConcurrency`, whichever way calls
  end; `Phases` what is settled in each phase (from the critique on all members
  have answered). That a fallback member exists rests on two small lemmas: a
  non-empty set of numbers has a least element, and a largest camp exists. Both
  come from the well-founded order on strict subsets of a finite set.
* `ProcessRelay_proofs`, part 2: each relay step is a council step or a stutter
  (`RelayImplementsCouncil`), so the council's invariants hold inside the pump.
  `PumpStory`, `HandlerStory` and `LogStory` add what the tasks know of each
  other: before the first success a failure is stashed, afterwards it is the
  outcome; a response that was opened belongs to a run with a success; once
  `persist` has read, nobody changes what it read. `JudgeHistory` says which of
  the judge's calls can be behind in which phase, which makes the rows complete.
* `Ice_proofs`, for any number of members and rounds and any scale of confidence:
  `LogSoFar` counts what the log holds of each call while a run goes on,
  `AnswersSoFar` relates the kept answers to it (`LatestBefore`: the kept answer
  is a success, and no later one exists), `Phases` ties the number of critiques to
  the round. `Reports` says `EveryCallReported` call by call; it is inductive only
  with these, since the final report is made of the log in five different ways.
  `ConfidenceGrows` is the lemma that `_should_finish`, which compares the last two
  confidences only, keeps the whole of `conf_history` rising.

* `Catalog_proofs`, for any number of requests and any catalogue to start from:
  `AffectedKnown` says that a deletion that is about to write knows every pipeline
  with a member it takes, `RowsKnown` that a PATCH knows the rows of its pipeline
  and no others, both with the exception of `raced` pipelines: they are what makes
  `OnlyRacesEmpty` inductive. Each write is first shown to be of one of four kinds
  (`WriteKinds`: it extends, cascades, drops a pipeline or writes a list), and the
  invariant and the action properties follow from the kinds. `NewIdIsFresh` and
  `Places` show that new ids and rows never collide with those in use.

* `Accounts_proofs`, for any number of users and requests and any threshold:
  `AnAdminRemains` is not inductive with the count alone, since two requests may
  both have passed it; `AdminInv` says that no request under way is about to demote,
  disable or delete the built-in administrator. `LockInv` counts, for each username,
  failures and attempts that have passed the check: together they stay below the
  threshold plus the number of requests. `SessInv` says that tokens of rows are unique
  and were issued, and that the token a request holds belongs to the user it
  names: what makes the spared session of a password change the caller's own, and
  keeps `VerifyRenew`, which finds a row by an id that may be another session's by
  then, from bringing a token back.

* `Calls_proofs`, part 2 (`TraceAdmin`), for any number of tasks, users, ids and
  runs: a task writes by the id it was given, and the id may be another's by then.
  `Numbered` says that no two traces and no two tasks are of one run, `OwnTrace` that
  the trace under a task's id is its own and of its user, unless a deletion came
  between (`cut`): `PendingHasOwner` and `OneOwner` follow, neither is inductive alone.
  `RerunsPair` needs `HeldLock`: the row a rerun has flushed is its own critique, the
  lock is its own until it commits and no deletion takes the trace away. As rows are
  read by their stamps and not by their commits, it also needs `Stamped`: whose stamp
  lies between those of a rerun that has not committed yet is in `met` with it.
* `Routing_proofs`, for any number of requests, providers, models, names and keys:
  each thing that is read before it is used gets its condition. `ListIsExplained`: the
  configuration a request lists the upstream with is current, or an invalidation has
  passed it (`raced`) or is to come; `CacheIsCurrent` holds when it is stored.
  `PlanIsFresh`: what a synchronisation is about to write is what it would decide by the
  rows as they are now, unless they changed meanwhile (`raced`); with `SyncMirrors`, the
  step-wise promise of `SyncMirrorsList`, it keeps `EnabledAsListed` and
  `SwitchedTogether` (the rows of one name that only synchronisations wrote last are
  marked alike, since the mark goes by the name). From these two follows
  `ListMatchesChat`: the last row and the first enabled row are switched alike.
  `KeyIsLast`: the key about to be put into memory is the stored one unless another
  reset has passed. `Versions` shows that the history numbers do what they are for: nothing
  is beyond the counter, so the next configuration is like none before. That the last row exists (`TopIsLargest`) rests on
  the well-founded order on finite sets.

The type invariants are proved and not part of a run; those of `TraceAdmin` and
`Routing` say more than types: no call row is without its trace, no model without its
provider. Every safety property
of a passing run is proved, the refinements included. With TLC alone stay the liveness
properties (`EveryStreamIsLogged`, `EveryCallEnds`, `EveryRunEnds`) and the fairness in
`DrivesTheCouncil`, whose safety part is `RelayImplementsCouncil`.

Assumptions: the built-in administrator is a user, the set of requests is finite and the lockout's threshold positive; the catalogue to start from satisfies the foreign keys, each of its
pipelines has a member and each grant a target; member, round and permit counts are positive, the
confidence threshold is a level, the names of tools differ
from the model's own status names, `PipelineRequests` is a subset of `Requests`, the bounds are natural
numbers; there is some upstream model id and what an upstream lists is a sequence of them, there is at
least one user whose requests are logged, and the marks for "no key" and "no task" are
no key and no task.

## What the code does not control

Modelled from how the code uses it: asyncio (cancelling a task cancels the one it
awaits; a task cancelled before its first step runs none of its body), the
framework (the background task runs after the response body is over, however it
ended; a generator that was not started or is suspended at a yield when the
client leaves is not closed before it), the upstream services.

## Where code and documents disagree

Two runs end in a counterexample on purpose; `findings` in `PROJECT.json` quotes
the documents. The others below are exceptions that a property of a passing run
makes, at the place where the code takes them, or were seen while modelling:

* `adapters/base.py:222`: "已产出部分内容后不再整体重试（重放会重复生成）". The guard
  (223) looks at text only: a retryable error after tool-call fragments but before text
  repeats the call on top of the fragments it kept (`TextFromOneAttempt` is about text).
* `repos.py:121`: "存留的 Pipeline 均可运行". A PATCH or POST that commits after
  `affected` was read (128) and gives a pipeline a model that is being deleted as its
  only member leaves it without members (`raced` in `OnlyRacesEmpty`).
* `requirements.md:218`: "每次上游模型调用生成一条子记录". A strict critique failure of
  ICE is raised with the critique both in `members` and as `critique`
  (`ice.py:443`, 477): two rows. After a strict failure of the final call (494) the
  critiques have none. `Ice`'s `EveryCallReported` makes these exceptions.
* `admin/users.py:188` says of a PATCH with a password "语义等同 /password", and
  `repos.py:229` that sessions are revoked "改密/停用/降级后"; the PATCH revokes none
  (`left` in `OldPasswordsExplained`). Sessions of a disabled user are refused but live
  on, and work again once the user is enabled.
* `rejudge_svc.py:144` and the requirements want one owner for a trace ("一条 trace
  一个归属"). A request whose trace was cleared while it ran writes its rows and its
  status to whatever trace has the id by then (`cut` in `OneOwner`).
* `rejudge_trace` holds the database's write lock over its second upstream call, up
  to minutes, while other writers wait five seconds and fail.
* `providers.py:55` says "手动停用（upstream_missing=False）的模型不受同步影响", and
  `test_admin_providers.py:248` "用户手动停用不被同步覆盖". A model that was stopped by hand
  and then vanishes upstream is marked missing, and enabled when it returns
  (`providers.py:77`).
* `namespaces.py:308` says of the refusal of a switched off model "与列表过滤口径一致". Nothing
  keeps two rows of one upstream name away: `_sync_models` does not enter what it creates
  into `existing` (`providers.py:64`), so one synchronisation with a list that repeats a
  name makes two, and so do `create_model`, `update_model` and two synchronisations at
  once. The list then goes by the last row (`namespaces.py:207`), `route_chat` by the
  first enabled one (299): once an administrator switches one of the two they disagree.
  `ListMatchesChat` excepts rows that an administrator or an overlapped synchronisation
  wrote last.
* `requirements.md:165` says "`usage` 汇总所有调用（成员 + 评论 + 最终）的 token 数",
  `strategies/base.py:103` "全部调用 token 汇总", and `doc/ICE策略集成技术方案与任务拆分.md:87` "usage = 全部调用之和".
  The lenient text answer after a failed judge sums the members only (`council.py:667`):
  the tokens of the critique, which the same result reports among its calls, are in no
  total. `TotalsCoverEveryCall` names this exception and holds every other call to the
  rule.
* `requirements.md:199` says of reruns "以 `judge_critique`/`judge_rerun` 行成对追加保存（含失败尝试）". A rerun
  whose critique fails, or whose client leaves before the second call, keeps the row of
  the critique alone (`rejudge_svc.py:155`, `admin/traces.py:281`). `RerunsPair` asks for
  an answer of good critiques only.
* `repos.py:158` calls the order of `list_model_calls` "按发生顺序（created_at, id）", and the view
  pairs by it: "最终行认领其之前未被认领的同模型 critique 行" (`frontend/src/lib/trace.ts:129`).
  `created_at` is taken when a row is flushed, before the write lock is had, so that of
  two reruns of a trace that overlap the second's critique can be read between the first's
  critique and answer; if both are of one judge model, the first answer is then shown with
  both critiques and the second with none. `RerunsPair` excepts reruns that overlapped
  (`met`).
* `admin/settings.py:103` says of a reset of the service key "旧 Key 立即失效". The old key is
  good until the assignment after the commit, and after two resets that overlap the key
  in memory may be the one of the first until the next start: the two exceptions of
  `ServedKeyIsStored`.
* `requirements.md:106` says of a client that disconnects "上游调用仍执行到底，日志落真实终态". A
  streaming request that is cancelled while `execute_chat` leaves its session, after the
  pump was started, leaves its trace pending: `EveryStreamIsLogged` is about
  responses that were returned. The same await in front of a process stream's response is
  not modelled.

* `requirements.md:218` wants a row for each upstream call: in a process stream the
  call of a judge that fails strictly after the response was opened has none
  (`llm_gateway.py:1076`). `CallsAreLogged` makes this exception.
* `requirements.md:110` wants a degraded answer when the judge's tool calls fail
  validation: if no member made a call either, they are dropped and nothing is
  marked (`council.py:573`).
* A PATCH with `members: []` empties a pipeline (`schemas.py:112` has no
  `min_length`, `schemas.py:97` does).

## Plan

Done, with proofs of every safety property: streams, non-streaming answers, adapters,
council, process streams, ICE, catalogue, accounts, trace administration, routing. Left,
the most important first:

1. `IceRelay`: `_pipeline_stream_iterative` around `Ice`, as `ProcessRelay` is
   around `Council`: pump, response, persist, the trace's terminal status.
   Theorem: it implements `Ice`.
2. Keys of users and the data plane's identity, as part of `Accounts`: a revoked key
   is refused by every request that starts later.
3. The pipeline namespace and `/v1/chat/completions` with their exposure switches,
   as resolution by name over `Catalog`.

## Not modelled, and why

* The gateway's side of the iterative stream, users' keys with the data plane's
  identity, the pipeline namespace and the exposure switches: planned, see above.
* Of accounts: cookies, the audit trail (append-only), display names and remarks; of
  the log: everything in a row that no property tells apart; of settings: those that
  are read where they are used. Schema columns added at start run before any request.
* Of the catalogue: names and their uniqueness, columns no reference depends on,
  the order of a pipeline's members, and the users a grant belongs to (one user).
* `AnthropicAdapter` follows the protocol of `UpstreamCall` without the options
  fallback; its event mapping, like request building and prompt rendering, is
  data.
* Playground, metadata, audit and statistics only read; schemas and dependency
  wiring have no state; the web frontend and the snapshot server are clients of,
  or tools around, the gateway.
* Encryption, password hashing, SQLite and HTTP are libraries.

# A TLA+ model of the Citi Bike event-intelligence system

This directory holds TLA+ modules that model the stateful parts of the
repository, the TLC configurations that check them on small instances, and
proofs that TLAPS checks. File references are relative to the repository root.

    tlc -workers 2 -config GbfsCron.cfg MCGbfsIngest     # one run
    tlapm GbfsIngestProofs.tla                           # one proof module

`PROJECT.json` lists, for every run, its module and what it shows; for every
definition, the lines it models; for every property, a mutation of the model
that breaks it.

## 1. Inventory

The system forecasts station demand from trips, inventory and news, and offers
rebalancing, pricing and an operations copilot over it. Most of the code is
stateless evaluation over committed fixtures. What keeps state, or runs
concurrently, or can be interrupted, is this:

| Part | State | Operations | Talks to | What is hard |
|---|---|---|---|---|
| **GBFS ingest** (`supabase/migrations/*_01`, `_02`, `_03`) | `gbfs_fetch_log`, `station_status_snapshots`, `stations`, pg_net's queue and responses | `gbfs_request`, `gbfs_ingest`, called by cron and by an operator | pg_net, the rollup, live inventory | overlapping calls under READ COMMITTED, one transaction per batch, raising responses, responses that vanish, crashes |
| **Hourly rollup** (`*_02`) | `station_status_hourly`, raw snapshots | `gbfs_rollup_hourly`: aggregate, then prune | the ingest's table | late rows, window boundaries, a job that nothing schedules any more |
| **Copilot transport** (`services/api/copilot_tools.py`, `v2.py`) | one `McpStdioTools` per process: lock, loop, thread, session, ready flag, error | `start`, `_run_loop`, `_serve`, `_call`, fallback to in-process tools | MCP server process | threads, a shared session, timeouts, a server that dies |
| **MCP server** (`services/mcp`) | none | pure lookups | the transport | is a peer that can fail |
| **News collection** (`pipelines/collectors`) | checkpoint, snapshots of articles | `backfill_news`, `collect_live_news.main` | providers, vector store | kills between and inside file writes |
| **News sync** (`services/api/news_sync.py`) and **vector store** (`ml/vectorstore/news_store.py`) | `index.faiss`, `meta.json` | `sync_live_news`, `load_or_new`, `add`, `save` | GDELT, news search | two files for one store, no lock, thread pool |
| **News search** (`services/api/news.py`) | an index cached per process | search | | cache built once from fixtures |
| **Live inventory** (`services/api/live_inventory.py`, `*_04`) | none | paged read of a view, fallback to the fixture | the ingest | pages read in separate requests |
| **Event extraction** (`pipelines/events`) | none | extract with retries, verify grounding, deduplicate | LLM providers | deduplication merges events of different availability |
| **Features and live shadow** (`pipelines/features`, `pipelines/live`) | feature snapshots per zone, checkpoint of processed batches | `build_graph_features`, `refresh_incremental`, `run_shadow_stream` | events | incremental against full rebuild, restart, as-of cutoffs |
| **Replay engine, demo API** (`services/api/replay.py`, `app.py`) | one engine with a mutable cutoff | set cutoff, forecast, explain | features, rebalancing | one request reads the cutoff while another sets it |
| **Rebalancing** (`optimization/classical`) | the plan being built | greedy, enumeration, MILP, allocation | API, control | feasibility and optimality claims |
| **Rolling control, ledger** (`optimization/mpc.py`, `ledger.py`) and the environments of `optimization/rl` | inventory over time, decision records | control step, regret | rebalancing | rounding, comparison of controllers |
| **Delayed labels** (`ml/monitoring`) | pending forecasts | `resolve` | shadow stream | several labels for one forecast, leakage |
| **Relational store, loaders** (`services/db`, `scripts/supabase_load_history.py`) | tables, `history_load_runs` | upsert and audit row, table by table | event graph, artefacts | several transactions per load |
| **Graph store** (`pipelines/graph`, `scripts/build_graph.py`) | nodes and edges by key, in a server or an exported file | build, upsert, export | event extraction, loaders | rebuilt over a corpus that grows, a file that is rewritten in place |
| **Model serving** (`services/api/model_serving.py`) | one cached artefact | predict | | |
| **Forecasting, pricing, recsys, anomaly, experiments, RL, quantum** (`ml`, `optimization/rl`, `optimization/quantum`) | none beyond one run | training and evaluation | fixtures | floating point |
| **Web app** (`apps/web`) | cutoff, refresh key, what each panel shows | slider, panels that fetch | API | answers that are overtaken or lost |

What makes each part correct:

- *Ingest*: a publication is stored once; the audit log agrees with what is
  stored; an outcome is final; every request gets one, whatever is lost.
- *Rollup*: an hour that a run covered is counted completely and stays so when its raw
  rows are removed; no run lowers a count.
- *Transport*: one server is shared however many requests arrive, as long as starts succeed; every request
  ends; the label of an answer says who answered it; a dead server degrades.
- *Collection and store*: an article is delivered once and not lost; the vector
  at a position belongs to the record at that position.
- *Inventory*: a response is of one snapshot, or says how old its oldest row is.
- *Features*: the features at a cutoff depend on nothing published later; what an
  incremental refresh predicts from is what a full rebuild gives, and no zone misses an
  event of it.
- *Replay*: one response is about one cutoff; the last change that was answered is kept.
- *Rebalancing*: a plan is feasible, never worse than doing nothing, and "optimal"
  means optimal.

The hazards, each at its line and with the properties that watch it, are in
`PROJECT.json`.

## 2. Modules


| Module | Models | Composes |
|---|---|---|
| `GbfsIngest` | requests, pg_net and calls of `gbfs_ingest` | `FetchAudit` (refinement) |
| `FetchAudit` | what the ingestion promises: outcomes given once, in one step | |
| `MCGbfsIngest` | bodies and stations for TLC | `GbfsIngest` |
| `GbfsIngestProofs` | theorems about `GbfsIngest` | |
| `GbfsRollup`, `GbfsRollupProofs` | aggregation and retention, and theorems | |
| `LiveInventory` | the paged read of the newest snapshot; its theorems are in `GbfsRollupProofs` | `GbfsRollup` |
| `McpSession`, `McpSessionProofs` | the shared session, its threads and the requests that use it, and theorems | |
| `NewsPipeline`, `MCNewsPipeline`, `NewsPipelineProofs` | collection, sync and the store's files, and theorems | |
| `LiveShadow` | the live stream with deduplication, features at a cutoff and their incremental refresh | |
| `EventStore`, `MCEventStore`, `EventStoreProofs` | builds of the event graph and history loads over the corpus the stream works on, and theorems about both and about the stream | `LiveShadow` |
| `StationPlans` | rebalancing problems, plans, feasibility, cost | |
| `Rebalancing` | the solvers, the allocation and the QUBO encoding, as the API calls them | `StationPlans` |
| `RollingControl`, `MCRollingControl`, `RollingControlProofs` | the receding-horizon simulator with its policies, and theorems | `Rebalancing` |
| `ReplayApi` | the replay engine and the endpoints that share it | |
| `ReplayScreen`, `MCReplayScreen`, `ReplayScreenProofs` | a browser tab in front of the API, and theorems | `ReplayApi` |
| `SortedSets` | lemmas: a finite set has a last member, and can be written as an ascending sequence | |

A module that composes another extends it, adds variables of its own, and has a
next-state relation in which a step of the one leaves the other's variables
alone unless the code calls across.

### GbfsIngest

`log`, `snapshots` and `stations` are the committed tables; `age` and the age of
a response stand for `requested_at` and pg_net's own clock; `queue` and `resp`
are pg_net's tables. `tx[s]` is what session `s` has done in its transaction:
its cursor (the rows and responses its `for` loop will visit, fixed when the
loop opens), the requests that were overdue when it began (`now()` is the start
of the transaction), the answer of its last look-up, and the rows it has written
and not committed.

A call is not one step. In READ COMMITTED each statement sees what is committed
when it starts, so the look-up of a publication (`LookUp`) and the writes that
depend on it (`StoreStatus`, `StoreInformation`, `LogDuplicate`) are separate
actions, and a call that would write a row another call has written waits
(`WaitsFor`). `Finish` is the expiry and the commit: its `update` looks at the
state of a row again after it has waited, which is why it reads the committed
log and not the one of the beginning. A statement that raises rolls the call
back with all its turns (`Raise`): only the cast of the body to JSON has an
exception handler.

A body is told apart by what the ingest does with it: an error or a non-200, text
that is not JSON, JSON that a later statement cannot read, or a publication with
its stations; `last_updated` may be missing. A row of a table keeps its key, its
provenance and its counts; coordinates, names and bike counts are left out. The
clock has one unit of interest, the six hours after which both pg_net and the
ingest give up (`Keep`).

External to the repository, and modelled from how the SQL uses it: pg_net
(responses of a batch share `created`; a response is removed after it has been
kept; its tables are unlogged, so a crash empties them), and Postgres (row locks,
unique keys, deadlock detection).

`FetchAudit` is the promise without calls: a pending request gets its outcome in
one step and once, a publication is ingested by one request, a duplicate has an
ingest it is a duplicate of, and what is stored is what some request ingested.
`AuditSpec` substitutes the committed log for it, so all the intermediate steps
of a call stutter and its commit is one step.

### GbfsRollup

Rows are `(station, hour, slot, bikes)`. `raw` is the table, `hourly` the aggregates by
key. Three variables are history: `ever` is everything that was stored, `fresh` the rows
that have not met a run that reaches their hour since they came, and `covered` the hours
a run covered. A run *reaches* the completed hours of its window (`Reaches`), and *covers*
those of them for which no row can come any more (`Covers`).

`Rollup` recomputes the groups of the window and then removes what is older than the
retention; both statements are one transaction. Migration 02 scheduled it every hour,
and migration 03, the state of this repository, unschedules it and keeps it to be run by hand: in the model it may
run in any hour, several times or not at all, and nothing bounds the distance of two runs.
Retention is by age at the time of the run, and a row may be as late as `Late`
hours. The window, and the lateness, are shorter than the retention (26 and 6 hours
against 7 days), which is all that is assumed.

### LiveInventory

The reader of `/v2/live/inventory` asks for the view `live_inventory_latest` a
page at a time: `Begin` and `NextPage` are one HTTP request each, and every
step of `GbfsRollup` (an ingest that commits, a run of the rollup with its prune)
may come between two of them. `View` is what the view shows at that moment, in the
order of the query (`ByStation`, which chooses the ascending sequence); a short page or the row limit ends the loop, an error
degrades the answer. `first` and `crossed` are history: what was shown when the
first page was read, and whether it changed before the last. `Latest` is the rows of
the largest `fetched_at`, so a station that is missing from the newest snapshot is
missing from the answer, as in the SQL.

### McpSession

`lock`, `loop`, `session`, `ready`, `error` are the fields of `McpStdioTools`; a
*start* is one pass through the branch of `start()` that makes a loop and a thread,
and `thread[n]`, `state[n]` are that thread and loop. The thread reads
`self._loop` again each time it needs it (`runs` is what it found), as
`_run_loop` does. `client[c]` is a request of `/v2/copilot/ops`, except for
`Main`, which first warms the tools up. A request has `Parts` tool calls; the
answer of the server, its death, and the exhaustion of a timeout may happen at
any step, which is all that is assumed of the server. A tool may also raise
(`ToolRaises`): a `ToolCallError` is no transport failure, nobody catches it, and the
request ends without an answer. `refused` is history: the starts that raised.

`close()` is left out: nothing calls it while the application serves.

### NewsPipeline

A file is rewritten in place: `Open` truncates it (`Torn`), `Write` fills it, and
a process may be killed between (`Kill`), which also stands for an exception of
its own, such as a full disk or a date that does not parse. A collection run
writes checkpoint, snapshot, vectors and records in that order, as
`backfill_news` and `collect_live_news.main` do; a sync request of the API goes
to the store directly. `load` reads the records, then the vectors, as two steps.
An article is its url; `title` says which articles share a title. `cuts` is history: how
many records there were when a save was killed between its two files.

### LiveShadow

`collected` are the articles a run can read; `CollectArticle` may add one that is
older than, or as old as, an article already there. `run` is a call of
`run_shadow_stream`: its events, the instants left (`todo`), the processed ones, the
events seen, the snapshots and the predictions. `Skip` and `Process` are the two
branches of its loop; `Open` and `Save` are the two halves of `_save_checkpoint`,
and `Return` hands the predictions over. A kill may come between any two of them.

Events, features and refresh are operators. `Events` keeps the first article of a
story, in the order of availability and then of the file. What a zone's features are
computed from is a set of records: an event, the centre it is near (the
zone's own, or a neighbour's) and its age. Decay, counts and impact are functions of
this set, so two snapshots with equal sets are equal, and a snapshot with an
old age is that of an earlier cutoff, which `SnapshotsCurrent` tells apart. `near` and `place` are separate: an event may be
within the radius of a zone's centre without being in the zone.


Taken as given: that two titles are alike is transitive (it is a threshold on
common words, and the first match counts); an article tells of one event;
events without availability are left out, as the stream leaves them out. Which
articles an event has as sources is added by `EventStore`.

### EventStore

Two programs an operator runs by hand, one at a time (`StartJob`), next to the
stream. `build_graph` reads the news files in the order of their names, one step
per file, so an article that is written meanwhile may be seen or missed, and a file that cannot
be read is skipped (`SkipFile`);
`Sorted` chooses the ascending sequence of what was read, and
`Extract` is the fold of `_deduplicate` over it, with the articles that
report each event, which `LiveShadow` leaves out. The graph is merged into a Neo4j
server in one transaction (`UpsertServer`) or exported, where `OpenExport`
truncates the file and `WriteExport` fills it.

`supabase_load_history` loads table by table. `ReadRows` consumes the generator
inside the upsert's transaction, `CommitRows` commits all its batches, and
`RecordLoad` writes the audit row in a transaction of its own; `KillJob` may come
before any of them, and `Refuse` is an input the program exits on. All tables of a load
have one `loaded_at`, the number of the job here. A row keeps its key, its
contents as far as the audit tells them apart, and `loaded_at`.

Left out: a build over an empty news directory, which reads the demo fixture;
rows are never deleted by the code, and not here. Each article is of its own source,
so that counting sources is counting articles. The columns `event_start_at` and
`event_end_at` of the table are always NULL, since `build_graph_ops` never writes the
properties they are read from; they are not in the model.

### StationPlans, Rebalancing

A plan has at most one move for a pair of stations, so it is a flow on pairs.
The default costs 3, 1 and 0.5 are taken times two, and are then integers; the
rounding to four decimals of the code is exact for them. `Candidate`, `Gain`,
`Best` and `Quantity` are the body of the scan in `greedy_plan`; `GreedyMove` is
one iteration of its loop, `Place` one of `allocate_extra_bikes`. The MILP solver is
external: `MilpPlans` is the set of optima of the rows and bounds the code hands it,
and any of them may come back, or a failure, upon which the code
degrades to the enumeration (`MilpFails`), which may in turn refuse the size. A task
is one request of the API, whose problem is built as `build_problem` does: a
positive forecast delta raises the target, up to the docks.

`BinaryWeights`, `Energy` and `Decode` are the bounded-coefficient encoding of
`optimization/quantum/qubo.py`: the offset, one coefficient for a bit (`Linear`) and one
for a pair of bits (`Quadratic`). `Surrogate` is the function it is said to encode. The
simulated circuits that minimise it are not modelled.

### RollingControl

`simulate` policy by policy and hour by hour: `Decide` hands the solver the
problem of the hour (`Given`), `Solve` is a step of the solver, `Apply` checks the
plan and moves, `Realize` is the demand of the hour, and `EndPolicy` starts
the next policy on the same series. Demand is fractional in the code; inventory
and flow are half bikes here, and a plan is made for the floor of the inventory
(`Stock`), as `int()` does. The learning environments share `Apply` and `Realize`
and differ in the target they ask for, which is any that an agent can ask for. A
request of the API is a run of a solver without a simulation around it.

### ReplayApi, ReplayScreen

FastAPI runs synchronous handlers in a pool of threads. `cutoffs` has the cutoff
of every `ReplayEngine` that was built and `current` the one `_engine` refers to:
`get_engine` tests it, builds and assigns without a lock, so there may be two. What
a handler computes is a function of the cutoff it is computed at; a response is
therefore a function from its parts to cutoffs, and a handler is its `Script`, the
parts each of its reads of `engine.cutoff` feeds, in order. A body may name a cutoff
(`TakesCutoff`), and some handlers check it against the demo window
(`ChecksWindow`). `held` is history: the cutoffs the engine had while the request
was handled.

`ReplayScreen` puts a tab in front: the provider loads the state, the slider
sends one `set-cutoff` per step and waits for none, and a panel fetches data when
the refresh key changes. A *guarded* panel is `useApi`, whose `alive` flag drops the
answers of earlier fetches; a *direct* one applies every answer. An answer may
arrive in any order or never (`TakeError`). Other clients share the server and its one
engine (`Foreign`): beside a tab they change the cutoff, which is what a tab can notice of
them; without one they send requests of every kind. The server of the composition is `ReplayApi`, unchanged.
`disturbed` is history: since the tab loaded or last changed the cutoff, an answer was
lost, or another change, its own or another client's, was under way or followed. `after` of a
request is history, too: the changes whose answer had been given when it was sent.


## 3. Runs

| Run | Shows | Bounds |
|---|---|---|
| `GbfsCron` | with the cron job as the only caller, through cancelled calls and a crash: one ingest per publication, the log agrees with the tables, outcomes are final, `FetchAudit` is implemented, every request is resolved | 2 requests, both feeds, 2 stations, all five kinds of body, 1 fault |
| `GbfsOperator` | with overlapping calls, deadlocks included: rows stored are never reported as failed, every request is resolved | 2 sessions, 2 requests of a feed, a usable and a raising body |
| `LiveInventory` | with the rollup run at any time: the hours that a run covered are exact and stay so when they are pruned, any other hour is exact or has a row that met no run, and no count goes down; a live answer is one whole snapshot unless it was crossed, and never older than when it was asked for | 2 stations, window 2, retention 3, lateness 1, hours 0 to 3, 3 rows, pages of 1 row, 1 read |
| `McpSession` | one server until a start is refused, then at most one more than starts were refused; no call without a session, honest labels, every request ends | 2 clients, 2 parts, 3 requests |
| `McpDegrade` | **violation**: after the server has died, requests fail instead of degrading | as above |
| `NewsPipeline` | nothing is delivered or recorded twice; used by one process at a time, the store keeps every record, at its vector until a save is killed between its two files | 3 articles with 2 titles, a collector, a request, 3 runs, 1 kill |
| `EventStore` | a zone is predicted once at an instant; what the checkpoint has was predicted; refreshed snapshots are those of a full rebuild where they are predicted from, and elsewhere have its events with earlier ages; a duplicate story triggers no batch and is one event in file, server and table; the tables hold what the audit says | 3 zones in a row, 4 articles in 2 files on 3 instants, 1 permit, 3 programs and runs together or 4 programs, 1 kill or skipped file |
| `SourceLeak` | **violation**: a zone's source count at a cutoff includes an article that came after it | 1 run of the stream |
| `RollingControl` | plans can be carried out, exact means exact, every greedy move pays, the allocation is optimal, the QUBO encodes what it says; in a simulation no zone leaves its docks by a bike and no bike is lost | 3 zones at 0, 1 and 9, 2 docks, vehicles up to 2, costs 6, 2 and 1; 2 hours, flows of −3 and 1 half bikes, horizon 2, alphas 0 and ½, targets 0 or 2 for the agent that picks any |
| `OracleBound` | **violation**: the oracle ends above the cost of doing nothing | as above, costs 10, 3 and 4 |
| `ReplayScreen` | no response is older than its request; an engine keeps the last change it answered; a screen that is not disturbed settles on the engine's cutoff; a guarded panel is never overtaken | cutoffs early, late and one outside the window, 5 requests, 2 of them under way at once; without a tab 2 of other clients; beside a tab 1 mishap, a lost answer or another client's change |
| `ReplayLabel` | **violation**: a response is labelled with another cutoff than its data | as above |

Why the bounds are enough to be interesting. Two requests are the fewest that can
carry one publication twice, be in one batch, or wait for each other; a third
only repeats what one of them does to the first. One fault suffices because a
rolled back call leaves nothing behind that a second fault could find. In the
rollup an hour is covered in the one run at which the lateness is over and the window
not yet (hour 0 at hour 2), it is missed by a run before or after, and hour 3 is the retention of hour 0, so
rows are pruned while a page is being read, of hours that were covered and of hours that were not; two stations are two pages. In the
session, two clients are one that starts and one that waits, and three requests
let a client come back after a failure. In the news pipeline two of three articles are
one story, and three runs are one that is killed, one that finds what it left,
and one beside it. In the event store two articles tell one story at different
instants in the order of their files, one shares an instant with the second and
reaches a zone it is not in, and one, quarantined, tells that one's story again, later but
in an earlier file; three zones in a row are the fewest where a zone is neither
affected nor a neighbour of what is; three programs are a build, a load of what it
wrote, and one more of either. In the control run the third zone is so far away that no move
to it pays, four combinations make the enumeration refuse some problems and solve
others, and a flow of three half bikes overruns the docks of a zone
and leaves a fraction. Two hours let a plan meet the fraction of the hour before. Five requests
are a load, two moves of the slider, and the fetches that race with them, or one move
less and another client's change in any place; two under way at once are a change and what it
crosses, or two first requests, and answers that have left the server are not counted: they
reach the tab in any order.

Fairness. `GbfsCron` and `GbfsOperator` assume that time passes, that pg_net drops
old responses, that the cron job is called again and that a call that has begun
executes its next statement unless it waits; nothing is assumed of the network
(a response need not come) or of the operator. `McpSession` assumes that a request
continues: its waits have timeouts (`start` and `_call`), so "continues" includes
giving up. Nothing is assumed of the server or of the threads that talk to it,
which may hang for ever. The other runs are about safety and assume no fairness.

The deadlock check is off where the system really may stop: when every bounded
request, hour, program or run has been used up.

What the violations say:

1. `McpDegrade`. The transport promises to degrade to in-process tools when a call
   fails. After the server died, the loop is closed but the session is still set: the
   call raises an error its caller does not catch, for every later request.
2. `SourceLeak`. Features are said to use nothing that became available after the
   cutoff. An event is available when its first article was, and carries the later
   articles of its story as sources from the start of a run: the count of sources at the
   first instant has them all.
3. `OracleBound`. The oracle of the ledger is called the bound of every policy, and the
   program asserts it. It knows the demand but steers to the same heuristic target as
   the others, and pays for moves that nobody needed; doing nothing may cost less.
4. `ReplayLabel`. Every response is said to carry its cutoff. The allocation computes at
   the cutoff of the body and labels with the engine's; others read the
   engine's cutoff a second time for the label, which another request may have moved.

Limits that were met while modelling and that the properties state as their premises:

- Two overlapping calls of the ingest store one publication under two `fetched_at`:
  nothing in the tables keeps the look-up and the insert together (`OneCaller`).
- `no response within 6 h` is also written for a request whose response came and
  could not be read by a call that committed.
- Nothing schedules the rollup since migration 03, and `supabase/README.md:18-23` has the raw table as the
  permanent record. The hourly table is the record of the hours that some run covered
  (`PermanentRecord`); a run by hand after a pause longer than the window removes, with its retention,
  raw rows that it does not count.
- After a start that was refused or timed out, `_error` and `_ready` are never cleared: a
  later request spawns a server beside one that comes up late, is refused at once,
  and so may the next. "spawned once" and "one long-lived session per process" (`copilot_tools.py:8`,
  `:109`) hold until then (`OneServer`).
- A save of the store that is killed between `index.faiss` and `meta.json` leaves vectors
  without records. The next save appends to both, so that every record from there on stands at another
  one's vector, and `search` (`news_store.py:83`) answers with another article (`cuts` in
  `RecordAtItsVector`). A save that is killed while it writes `meta.json` leaves no records at
  all (`Whole("meta")` in `StoreAccumulates`).
- The checkpoint of a collection is saved before the articles, so a run that is
  killed in between is not resumed: nothing is delivered twice, and that
  article not at all.
- A zone that is not affected by a batch keeps the snapshot of an earlier cutoff. It
  has the events a rebuild has, but their decay and the windows of their counts
  (`graph_features.py:153-156`) have stood still (`SnapshotsCurrent`). "identical" and
  "equivalent" to a full rebuild (`incremental.py:6-7`, `:87`) hold of the zones that are predicted.
- If articles reach the files in another order than they became available, a
  story may be kept under another article after a later build, and the table then
  has both (`ordered` in `OneEventPerStory`).
- A second `ReplayEngine`, built by two first requests at once, replaces the first: a change of
  the cutoff that was made to that one is kept there (`AcknowledgedSetHolds`) and lost to every later
  request.
- Changes of the cutoff that overlap, an answer that is lost, and a change by another
  client part what a screen shows from what the engine has, and nothing tells the
  screen (`disturbed` in `SettledScreen`); its next change that is alone brings them together.
- `scenarios` and `revenue` take the cutoff of a body without a look at the demo
  window; `copilot` and `pricing/quote` bodies have one that is not used.
- The single-period ledger names a condition on its prices under which stocking the
  realized demand is a bound (`ledger.py:14`, margin plus shortage above the cost of a move).
  It looks at bikes that are missing; where excess costs less than moving it away,
  leaving it is better than the oracle. This ledger is not in the model.

## 4. Proofs

Everything below is proved for every value of the constants that satisfies the
assumptions of its module, which TLC evaluates in the runs.

`GbfsIngestProofs`
- `TypeCorrect`: `TypeOK`, for any number of sessions.
- `PublicationIngestedOnce` and `OutcomeKept`, **assuming `OneCaller`** (the cron
  job is the only session; with two, both fail).
  Neither is inductive: whether a commit ingests a publication twice depends on
  what the call in progress holds. The invariant `IInv` says of every call that
  what it has in hand or has written is still pending in the committed log
  (`Unsettled`); that the log as the call sees it ingests a publication once
  (`SeenOnce`); and that the answer of its look-up is still true when it stores
  the row it asked for (`LookedUp`). One lemma per action shows that it is kept;
  with two sessions `Finish` of the other breaks all three.
- `StoredRowsNeverFailed`, for any number of sessions: `CInv` says that all that is known
  of a request's answer (the stored response, what calls have in hand, what they wrote,
  what is committed) is about one body of one batch (`OneAnswer`), so two calls that
  handle a request cannot disagree on whether its rows are stored; and the update
  that ends a call looks at the committed state again.
- `SnapshotRowsAudited` and `MasterRowsAudited`, with one caller: `AInv` says that the log
  as a call sees it accounts for the rows as it sees them after every turn (`Counted`,
  `Attributed`), and the committed log for the committed rows.
- `ImplementsAudit`, with one caller: `Spec => AuditSpec`. All steps of a call leave
  the committed log alone and stutter; a commit is `Settle`s of `FetchAudit` for
  the requests it decided, or, when it decided none, a stutter.

`GbfsRollupProofs`
- `TypeCorrect`, `HourlyIsCurrent`, `RecordIsPermanent`, `HourlyNeverForgets`, for runs at
  any time and any distance. `IInv` adds to `ExactOrFresh` that removed rows are at least as old as the
  retention (`RemovedLongAgo`), and that a covered hour is closed (`CoveredIsClosed`): it is too old for another row,
  and no row of it is fresh; so it is exact for good. A run recomputes only groups of
  which nothing was removed, since the window is shorter than the retention.
  `HourlyNeverForgets` needs in addition that an aggregate counts stored rows
  (`CountsStoredRows`), and that a subset of a finite set has no more elements.
- `LiveAnswersAreWhole`, **assuming in addition `Fits`** (there are no more stations than
  the row limit, 5000 for a network of about 2500). `ReadInv` says that the rows read so
  far are the pages of what the view showed at the beginning, as long as nothing has
  crossed the read, and that a row read later is of no earlier snapshot. A short page then
  means that the view was read to its end, and `Fits` that the row limit cut nothing off.

`McpSessionProofs`
- `TypeCorrect`, `CallsHaveSessions`, `RequestsShareOneServer`, `LabelsAreHonest`, for any
  number of clients and requests. `CallHasSession` is about the request, and holds because
  of what the thread has done before it: where a thread stands tells what it has
  written (`Flags`: the session before the announcement, the error before the
  flag), so a request that sees `ready` without an error finds a session.
  `Clients` says that an answer still labelled `mcp` has no part from elsewhere;
  `Counted` that a start is under way, has opened a session or was refused, so that there
  is at most one more than were refused; and `First` that, until one is refused, thread, loop
  and session are those of the first.

`NewsPipelineProofs`, **assuming `ContentsTold`** (what is read from a file tells an
absent and a torn file from contents, as the code's `exists()` and parser do)
- `TypeCorrect`; `RecordsUnique`, which needs no more; `RecordsAtTheirVectors`, `NothingLost` and
  `PlacesMatch`, about a store that one process uses at a time (`~overlapped`, a premise of the
  properties). `StoreInv` says that an article is in the records once, on disk and in
  the memory of whoever uses the store (`RecordsInv`); that there are vectors on disk before
  there are records (`FilesInv`); and, while uses do not overlap, that there is one user
  (`SerialInv`), that vectors and records agree place by place up to the first cut, in the files
  (`ShelfInv`) and in what the user is about to save (`UserInv`), which covers what is on
  disk. Between two uses without a cut the two lists are equal (`AtRest`).
- `RunsDeliverOnce`, **assuming in addition `OneCollector`**: `scripts/fetch_data.sh`
  runs collections one after the other. `RunInv` says that what a run has
  accepted is in its checkpoint before it is in a snapshot, so whoever comes after
  a kill has seen it.

`EventStoreProofs`, the stream (`LiveShadow`'s `Spec`)
- `TypeCorrect`, `PredictionsAreOnce`, `SnapshotsAreCurrent` and
  `BatchHasEvents`, for any articles, zones and neighbourhoods. `PredictedOnce` needs
  to know that what was predicted is in the checkpoint or in what the run found
  there, and that a torn checkpoint ends the stream (`Emitted`). `SnapshotsCurrent`
  needs that the events seen are those up to the cutoff, that the instants left
  are those of the others, that the snapshots are `Exact`: of the zones of the
  accepted events seen, counting just what reaches each; and that each is `Aged`: the
  rebuild of some instant up to the cutoff, and of the cutoff itself if the zone is predicted. The lemma `RefreshCounts`
  is the argument of `incremental.py`: a new event that does not affect a zone is
  near neither its centre nor a neighbour's; `RefreshAges` says what it does not
  keep. `BatchHasEvents` shows that the
  loop's test for an empty batch never applies.
- `CheckpointIsPredicted` and `StoryTriggersOneBatch`: what a run calls processed is
  what was predicted before or what it has in hand to predict (`Served`), and a batch that
  was saved stays in every readable checkpoint (`Remembered`), so that no run takes it
  up again. While articles come in the order of availability, the events of a batch are
  the earliest of their stories for good (`FirstTold`).

`EventStoreProofs`, builds and loads (`StoreSpec`)
- `LoadsAreAudited`: a running load has the latest stamp there is (`LoadType`,
  `Stamped`) and has touched no table it has still to load (`Progress`), so when
  it commits, the rows with its stamp are exactly those it read; they stay so until the next
  load (`CountedRight`), and have an audit row or belong to a load that was killed just
  before it (`Accounted`).
- `StreamUndisturbed`: `StoreSpec` implements `LiveShadow`'s `Spec`, so what is
  proved of the stream holds next to builds, loads and kills.
- `BuildsAreSound` and `StoriesAreStoredOnce`. The fold of `_deduplicate` over the
  ascending sequence of the articles read keeps one event for a story, and it is the
  first that tells it (`ExtractKeeps`, by induction over the prefixes of the sequence,
  with `KeepsOneMore` for one article). `GraphInv` then says that the graph being built is
  that of the articles read (`Built`), that file, server and table have one event
  for a story (`OneStory`), and that while articles come in the order in which they are
  read these events are the first of their stories among all that were read
  (`ToldFirst`), so that a later build finds the same ones again.

`RollingControlProofs`, for every network, problem, vehicle and cost, in simulations
and requests alike
- `LoopsNeverOvershoot`, the greedy loop and the allocation: a quantity is at most the
  surplus of its origin and the deficit of its destination, so no station passes its target.
- `PlansCheck`: greedy plans and those of the MILP and the enumeration pass
  `check_feasibility` and lead to the inventory the solver worked with. `PlanInv` says
  of the greedy loop (`GreedySound`) that `left` is what the vehicle has left, that a
  surplus station only gives and a deficit station only takes, each up to its target, and
  that the working copy is the final inventory of the plan.
- `GreedyMovesPay`: an iteration changes two stations and one pair, and both
  stations come nearer to their targets, so the cost falls by the gain times the quantity,
  and the gain was positive.
- `AllocationIsBest`: the allocation only adds, and only up to a target
  (`AllocationSound`). At one station a bike placed below the target is worth its shortage,
  and no other number of bikes is worth more (`WorthOfBikes`); the sum of this over the
  stations is the theorem, together with the fact that bikes are held back only when none is below its
  target.
- `OptimaAgree`, **assuming `Metric`**: way is priced, stations stand apart and distances obey
  the triangle inequality, as those of `haversine_km` do; TLC evaluates it for the
  network of the runs (`LineAssumption`). The exchange behind `enumeration.py`: of two moves
  that meet in a station, a bike can go straight, or stay if it would come back
  (`Shortcut`), so some optimal plan has no station that both gives and takes (`DirectPlan`);
  and in such a plan a bike taken from below a target, or brought above one, is cheaper
  left where it was (`StayBack`). Hence an optimal plan uses only edges of the
  enumeration, each up to its cap (`BestDirectPlan`), and what the enumeration answers is an
  optimum of the MILP (`ExactIsBest`). Two stations at one place, or a distance cost of
  zero, make plans possible that cost as little and overshoot a target.
- `EncodingIsExact`, for any problem, without an assumption on distances or costs. The
  weights that remain from a power q on, with less than q bikes besides, make every number
  below what remains plus q (`Covers`), so the weights of an edge make every quantity up
  to its cap, and none above, since together they add up to it (`WeightsCover`). The
  energy follows by induction over the set of bits: one bit more is a plan with its
  weight more along its edge (`BitAdded`), and what it adds to the squares of the stations
  is its own coefficient and one for each bit that is set already (`PairsSplit`,
  `QuadraticSum`, where the sums over stations and over bits change places,
  `SumSwap`). A solved QUBO therefore holds the least surrogate energy of the box (`QuboInv`).
- `SimulationsStayLegal`, for every series, policy and answer of a solver: a
  plan that was checked moves whole bikes that stand at their origin into
  docks that are free, the fraction stays below one bike, and the realized
  flow takes no more than there is and adds no more than the room.
- `NoBikeCreated`: a plan takes from its origins what it gives to its destinations
  (`EndsAddUp`: summed over the stations, outflow and inflow are both the bikes moved),
  and at each zone the shortage and overflow of an hour are what the realized flow
  and the change of its stock differ by (`Booked`).

`ReplayScreenProofs`
- `TypeCorrect`, `ResponsesAreCurrent` and `AcknowledgedSetsHold` of `ReplayApi`, for
  any number of clients and engines. The invariant says what a handler relies on between two of its
  reads (`Handling`), and that an engine holds the last change it was given, which no answered
  change followed (`Kept`).
- `ServerBehindScreen`: the composition implements `ReplayApi`, which carries these
  over to it.
- `PanelNeverOvertaken`: the fetch a guarded panel waits for is the latest (`InOrder`), so
  in whatever order answers arrive it never goes back.
- `ScreenSettles`, for any number of other clients, changes and lost answers: as long as the
  tab is not disturbed, at most one change is under way and it is the tab's own (`Waiting`,
  `InTurn`); nothing is answered before an engine is there (`NoEngine`), and the engine stays, or
  those that replace it are still at the default (`Steady`, `Fresh`); the clock, the requests that read the
  engine and the latest fetch of the panel are level with it, or wait for
  the change that is under way (`AtCutoff`); so a screen without pending requests shows its cutoff.

Sums are the library's folds over finite sets, and a sorted sequence is the one that
`CHOOSE` picks. Both can be reasoned about: `SortedSets` shows by induction over finite
sets that the sequence exists, and `RollingControlProofs` what a sum becomes when one
term changes. (TLC's `SortSeq`, which the sequence modules use, has no definition
a prover could expand.)

Only model-checked: liveness (`EveryRequestResolved`, `EveryRequestEnds`), since
TLAPS has no rules for fairness and ENABLED. The modules
are written without RECURSIVE operators so that they stay open to proof; the one
recursive function, `BinaryWeights`, is shown to exist (`WeighsExists`) before anything is said of
its values. The type
invariants of the modules with a `TypeCorrect` theorem are proved and not checked by a
run in addition.

## 5. Not modelled

See the components of `PROJECT.json`, each with its reason. In short: parsing, HTTP,
SQL dialects and rendering are I/O; forecasting, recommendation, anomaly
detection and the learners compute with floating point over fixtures and keep
no state between runs; pricing and the experiment simulator are functions of
one scenario and a seed, without state between calls; model serving and news search each hold one value per process
that never changes; `resolve` of the delayed labels is run over a demo fixture only,
and one of its limits is recorded as a hazard (the earliest label blocks a later valid
one if it is from before the cutoff). The fixture loader of `services/db` is run once over a
fixture that does not change. Two collection runs at once are
not modelled: `scripts/fetch_data.sh` runs the collectors one after the other.

## 6. Plan

Models, in this order:

1. `DelayedLabels`: predictions resolved as labels come in, composed with the
   predictions of `LiveShadow` once the application connects them.
2. `EventPricing`: the quotes and their guardrails over the scenario, and the rider
   simulator with its budget over the truck plan of `Rebalancing`.
3. Lag features and time splits: what a row at an hour may depend on.
4. The fixture loader, with its three transactions.

Proofs: the type invariants of `EventStore` and `RollingControl`.

Abstract specifications worth stating besides `FetchAudit`: a store of records with
their vectors that is replaced at once, for `NewsPipeline`; an exactly-once stream, for
`LiveShadow`; a table that is replaced with its audit row at once, for `EventStore`.

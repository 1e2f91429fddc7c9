# siftcoder-mem in TLA+

siftcoder is a Claude Code plugin. Its program is a memory: hooks capture tool calls, a
daemon per workspace stores them in SQLite, drains have a language model summarise them, and
an MCP server lets the host search the result. This directory models the parts of that
program where steps of several actors meet. Paths below are relative to the repository
(`src/memory/daemon/server.ts` is `src/src/memory/daemon/server.ts` in `PROJECT.json`).

Contents: 1 the system, 2 the modules, 3 the model beside the code, 4 the runs, 5 what the
documentation says and the code does not do, 6 the proofs, 7 what is not modelled, 8 the plan.

## 1. The system

| part | code | state | operations | spoken to by |
|---|---|---|---|---|
| event store | `storage/storage.ts`, `schema.ts` | `events` (status, attempts, expires_at), `summaries`, `summary_embeddings`, `summary_supersedes`, cache, pins | recordEvent, claimPending, markEventStatus, releaseClaimed, recordSummary, putEmbedding, retrySkipped, sweepExpired, prune, pin, import | everything below |
| daemon handlers | `daemon/server.ts` | none between requests but the store and the log | one async handler per request; handlers interleave at every await | sockets |
| log | `daemon/wal.ts` | `wal.ndjson` | append (fsync), replay, truncate | capture, backfill, boot |
| boot and shutdown | `daemon/index.ts`, `hooks/session-start/spawn-daemon.mjs` | pid file, socket file, timers | start, replay, sweep timer, idle exit, shutdown | hooks, commands |
| local drains | `runDrain` in `server.ts`, `periodic-drain.ts`, `bin/siftcoder.mjs` | the batch it claimed, its loop position | claim, summarise, record, embed, mark, release | RPC, timer, command line |
| host drains | `mcp/handler.ts`, `mcp/drain-loop.ts`, `client.ts` | the same, in another process | the same by RPC, each with a 1500 ms timeout | MCP host |
| summarizer | `daemon/summarizer.ts`, `fallback-client.ts`, model clients | summary cache | cascade, escalation | drains |
| curation | `daemon/consolidator.ts`, pins, prune | supersede edges, pins | tick, pin, unpin, prune | timer, RPC |
| symbol worker | `daemon/symbol-worker.ts` | `events.symbols` | tick | timer |
| retrieval | `retrieval.ts`, rerankers | none | hybrid search, streaming search, fusion, sieve | MCP, CLI |
| provenance | `provenance.ts`, `auto-edges.ts` | `provenance_edges` | record, infer, trace | capture, MCP |
| transfer | `exportRows`, `importRow`, `replay.ts` | the snapshot | export table by table, import row by row, parse transcripts | CLI, MCP |
| command line | `bin/siftcoder.mjs` | none | one request or several per command, local fallbacks | user |
| MCP bridge | `mcp/server.ts`, `handler.ts`, `sampling-client.ts` | the line buffer, waiters by sampling id | dispatch of 31 tools, sampling, periodic drain | host |
| doctor | `server.ts`, `storage.ts` | the kept probe | count, probe, repair | CLI, MCP, web |
| HTTP bridge and page | `http-bridge.ts`, `web/router.ts`, `web/port.ts`, `static/app.js` | token file, port file, what the boxes show | bind, authorize, route; ask, draw, unpin | browser |
| edges of the system | other hooks, embedders, privacy, metrics | files, counters | | user |

`PROJECT.json` lists each with its status. Control flows from hooks (fire and forget over the
socket) to the daemon's handlers, which share one SQLite connection; the command line and
other daemons open the same file from their own processes; MCP servers only speak to the
daemon. There is no thread: all interleaving is at awaits, between processes, and with the
operating system (kill, power).

What is hard about it, and what makes each part correct:

- **Queue and drains.** Several drains claim from one table, across awaits and processes, and
  rows are swept, retried and pruned under them. Correct: an event has one holder; a summarized
  event has a summary; nothing claimed is forgotten; a failing event neither loops for ever nor
  starves the others.
- **Capture and log.** A kill may fall between the line and the row, power loss may undo
  commits, a kill may fall into the replay. Correct: what was logged is in the table, or in the
  log, or left it in a way one can name.
- **Host drains.** The client's timeout does not stop the daemon's handler, and answers can be
  lost. Correct: still one holder; every lost claim has a named cause.
- **Daemon lifecycle.** Hooks and commands start daemons at the same time, and three files tell
  them of each other. Correct: one server per workspace, reachable at the socket path, and where
  it is not so, by one of the known races.
- **Framing.** The stream is cut anywhere, a client closes its side while handlers work.
  Correct: frames in order, a good call resolves.
- **Command line.** A request is refused, times out or is cut off, and the command may do the
  work itself. Correct: not both, unless twice is harmless.
- **MCP bridge.** Several loops share one buffer; answers to sampling requests come on the same
  stream. Correct: one answer per call, and the answer to one's own request.
- **Curation.** A tick works on a snapshot while pins, prunes and deletions go on. Correct: pins
  protect, no family of duplicates is lost to the last member, the backlog is looked at.
- **Model cascade.** Several jobs share a cache. Correct: the summary of one's own input, and no
  answer paid for twice without a reason.
- **Timers** (drain loops, symbol worker). Correct: one chain of timers, and work gets done.
- **Retrieval, provenance, transfer.** They read a changing store in several awaits. Correct: the
  answer is right for the store before the first read or after it, for what nobody touched.
- **Doctor, HTTP bridge, web page.** Counts taken one after the other, a token file without a
  lock, answers out of order. Correct: a repair repairs, a token opens, a page shows the last
  answer; where not, the reason is a known one.

## 2. The modules

| module | models |
|---|---|
| `EventStore` | the rows: `status`, `attempts`, `summaries`, `vector`, and one operator per storage statement |
| `DrainWorkers` (EXTENDS EventStore) | local drains of all processes, housekeeping, stops |
| `WorkQueue` | what the table promises: an abstract queue with one holder per item |
| `SamplingDrain` (EXTENDS DrainWorkers) | host drains and the daemon's three handlers that serve them, beside the local drains |
| `CaptureLog` | capture and backfill handlers, log, checkpoints, stops, power losses, boot |
| `DaemonLife` | hooks and commands that start daemons, the pid handshake, socket and port files, shutdown |
| `Wire` | one connection: frames over a stream cut anywhere, the server's loops, three kinds of client |
| `Commands` | one command of the command line: its requests, timeouts and fallback |
| `McpBridge` | the MCP server's loops over its stdin, dispatch of every tool, sampling, the periodic drain |
| `Curation` | the consolidator's tick beside pin, unpin, auto-pin, prune, expiry, compact, restarts |
| `SymbolWorker` | the symbol worker's tick beside captures and deletions |
| `PeriodicLoop` | the timer, back-off and stop of the two periodic drain loops |
| `ModelCascade` | summarize(): two models, the cache, retries of the clients, requeues |
| `Search` | hybrid and streaming search, read by read, beside pins, marks, deletions and prunes |
| `Provenance` | inferred edges of captures, new and repeated; trace, subgraph and shortest path, node by node |
| `Transfer` | export table by table, import row by row, into three kinds of store |
| `Doctor` | counts, kept probe and repair, beside embeddings and deletions |
| `WebBridge` | ports, port files and the token file of several workspaces, the router's answers |
| `WebClient` | a tab of the web page: loaders, forms, answers in any order, the unpin buttons |
| `MCDrain`, `MCSampling`, `MCCapture`, `MCLive`, `MCKnowledge`, `MCCalls` | small instances |
| `DrainProofs`, `DrainRefinement` | theorems about `DrainWorkers` |
| `SamplingProofs`, `CaptureProofs` | theorems about `SamplingDrain`, `CaptureLog` |
| `CallsProofs` | theorems about `ModelCascade`, `Doctor`, `Commands`, `WebBridge`, `WebClient` |
| `LiveProofs` | theorems about `DaemonLife`, `Wire`, `Curation`, `McpBridge`, `PeriodicLoop` |
| `KnowledgeProofs` | theorems about `Transfer`, `Provenance`, `Search` |
| `Induction` | induction over the naturals, for the proofs about recursive functions |

`EventStore` has no Next: its operators are the statements, and the modules above it put them
together into handlers. `CaptureLog` shares no variable with it; a row there is only absent,
kept or expiring, since the log knows nothing of statuses. The two meet in one place, the
insert of a raw row (`RecordEvent` in either).

`DaemonLife` to `WebClient` share no variable either: what one of them writes, another reads at
most as something that may happen at any time (a drain to `PeriodicLoop`, a deleted row to
`Search`). A product of such modules has no behaviour that is not a shuffle of behaviours of
its parts, so `MCLive`, `MCKnowledge` and `MCCalls` put several into one instance with a
variable `part`, chosen at the start, that says which of them moves. Each has a specification
of its own, and the violation runs use those.

In each module, operators whose comment starts with "Mutant:" are not part of the
specification. They say what a plausible mistake in the code would look like, and
`PROJECT.json` names, for every property, a mutant that breaks it.

## 3. The model beside the code

### EventStore and DrainWorkers

An event is its id (AUTOINCREMENT, so ids are handed out in order: `nextId`). A summary is
named by its event, `events` and `summaries` being one to one (`UNIQUE(event_id)`).
`vector[s]` is the event whose text the embedding row of `s` encodes, so a vector under the
wrong id is visible.

A drainer's `pc` is the await it stands at: `idle`, `claim` (between SELECT and UPDATE inside
BEGIN IMMEDIATE), `next` (model not asked yet), `record`, `embed`, `put`, `mark`, `release`
and `rewrite` (the two statements of `releaseClaimed`), `skip`. `todo` is the rest of the
`events` array of `runDrain`, `cur` its loop variable, `rid` the id `recordSummary` returned,
`seen` the attempts value that was read.

- *Order inside a claim.* `writeLock` serialises claims of a connection and BEGIN IMMEDIATE
  those of several processes; both are `lock`. Other writes of the same process share the
  connection, so they may fall inside the transaction (`ProcWrites`); other processes wait.
- *Errors.* A model or embedder error goes to `release` or `skip` as `isRetryableError`
  decides. A foreign-key failure (the row is gone) is an error of the terminal kind.
- *recordSummary.* On a conflict the driver's `lastInsertRowid` is that of an earlier insert.
  The model lets `rid` be any id then.
- *Housekeeping.* `Capture`, `Retry`, `Sweep` and `PruneSkipped` are the daemon's requests and
  timers. Which rows have a ttl is the constant `Expiring`; which summaries the consolidator
  has marked as superseded is the constant `Repeated`. What is old enough is left open.
- *Stops.* `Stop(p)` ends every drain of a process. `shutdown` calls `process.exit` without
  waiting for drains, so a shutdown and a kill are the same here. `orphaned` remembers what
  they held.

### SamplingDrain

`at`, `bag` and `now` are the host's side of `drainViaSampling`: where it is, the claimed
events it has not settled, the one in hand. `calls` are the handlers at work in the daemon; a
call has the await it stands at and the host that still waits for its answer, if one does.
`HostTimeout` is `client.ts:30`: the host stops waiting, the handler stays. What follows
depends on the request: a `record_summary` error is caught and counts as retryable
("timeout"), so a release is sent; an error of a claim or of a release leaves the function
with the rest of the batch. `HostCutOff` is the socket closing without an answer, which is not
retryable. `AnswerFailed` is `ok: false`, which `send` resolves and the loop does not look at.
`strayed` remembers events their host lost sight of.

### CaptureLog

`Append`, `Insert` and `InferEdges` are the three awaits of a capture; a backfill has
`BackfillCheck` before them. `row` is what SQL sees, `disk` what a power loss cannot undo
(`synchronous = NORMAL` syncs at checkpoints, `Checkpoint`). `PowerLoss` may put any row back
to its state on disk. `Boot` reads the whole log, `ReplayFrame` folds in a line, `Truncate`
empties the log and opens the socket. The history variables `gone`, `dropped` and `exposed`
are the ways in which a logged payload may be neither in the table nor in the log: its row was
deleted, its replay failed, or power went after a boot had truncated its line before SQLite
had the row on disk.

### DaemonLife

`phase[d]` is the line of `main()` or `shutdown()` (`daemon/index.ts`) a daemon process stands
at; each look, read, unlink, write and listen is a step. `pidFile`, `sockFile` and `portFile`
hold the daemon the file stands for. `Hook*` are the lines of `spawn-daemon.mjs`, `Cli*` and
`StampPid` those of `start` and `check` in `bin/siftcoder.mjs`, which write the pid of the
process they spawned over whatever the file held. `Stop` signals the pid in the file, be it a
daemon or a stranger who got the number after a reboot (`ReusePid`); `RequestShutdown` only
sets a flag that the idle timer looks at. `raced` is true once two daemons were between the
read and the write of the pid file, or a command stamped the file of an owned workspace.

### Wire

A frame is a header cell and body cells; `Data(k)` is a data event with any number of them.
`Decode` is `FrameDecoder.push` (`protocol.ts`): `Loop` gives what its loop returns from an offset
of the buffer on, until a frame is not complete or throws, in one of two ways. Each
data event starts a loop (`loops`), and the frames of one event are handled in turn, those of
different events at once, as in the `async` listener of `server.ts`. `pending`, `eofSeen` and
`MaybeClose` are the half-open close. The clients are `rpc` of the command line (ends its side
with the write), `send` and `sendStream` of `client.ts`.

### Commands

`command` is any of the 32 commands that talk to the daemon, `Requests` what it sends in order,
`FallsBack` the catch block of its kind: which errors it takes for "no daemon". `inside` are
handlers at work in the daemon, which go on when the command gives up. `done` and `localRuns`
count who did the work.

### McpBridge

`LinesArrive` is a chunk of stdin, perhaps with half a line; `Run` is the `while` loop over the
shared buffer, which resolves waiters until it meets a call and awaits its dispatch. A
dispatch goes from await to await (`stage`); `required` and the sets of tools are the switch of
`handler.ts`. `Sample`, `SamplingTimesOut` and `Wakes` are `sampling-client.ts`. Caller 0 is
the periodic drain loop the handshake starts.

### Curation

Summary ids are in the order of their timestamps, vectors are points on a line, and two are
near duplicates when adjacent; like the cosine, this is not transitive. `Tick`, `ReadDropped`,
`ReadPins`, `Mark` are the awaits of `Consolidator.tick`; `Marks` is its double loop, with the
pair limit counted in comparisons as the code does. `MarkFails` is the foreign key of a
deleted summary, whose exception leaves the tick before it arms the next. `latePins` are pins
placed when the mark, or the read of the pins, had already happened.

### SymbolWorker, PeriodicLoop

`SymbolTick` reads a batch, newest first; extraction and write are steps, and either may fail:
a failing write of found symbols writes an empty list, any other ends the loop (`at = "dead"`).
In `PeriodicLoop`, `Look`, `Drain` and `Finally` are the tick of both loops, `timer` the
intervals until it fires, doubled per back-off step.

### ModelCascade

A job is a `summarize()` of one event; several have the same input. `client` is the backend's
client with its retries and the error texts it may end with; `isRetryableError` says which of
them put the event back. `WriteFails`, `Requeue` and `DropCached` are failing writes,
`retry_skipped` and `compact`. `paid` counts the answers each event got from each model,
`spoilt` those it can no longer look up: lost before they were cached, or dropped with the row of
its input. One dropped row may make every event of its input pay again, so both are counted by
event and not by input.

### Search

The summaries are numbered in the order of their vectors for the query; the order of the
full-text index is any, and so is which of two is the newer. `pairs` is `summary_supersedes`:
a row goes with either of its ends (`Delete`), so that deleting the newer summary un-marks the
older one. Every read of `retrieval.ts` is a step, with `Touch*` steps between them: pin, unpin,
a mark of the consolidator, the deletion of a row, and `prune` of all that is superseded.
`buried`, `gone` and `kept` are histories: what was superseded, deleted or pinned when the search
began and has stayed so.
Scores are integers in the same order (`scale \div (rrfK + rank)` and so on), on a scale
that tells every two ranks apart (`ScaleAssumption`), so that fusion, recency and boost keep
their monotonicity, which is what is checked; the weights and decay times of the code are not. With `vecEnabled` the vec0 index is read, which keeps deleted summaries.

### Provenance

`captures` has what each call of `inferEdgesForEvent` was given: the event's id, the session, and
(a history) whether the capture stored that event. `CaptureEvent` inserts; `CaptureRepeated` is a
capture of what the session has stored already, whose `INSERT OR IGNORE` is ignored: it is handed
the connection's last rowid, of whatever table, so its `event` is any number, that of another
session's event or of none, and the files it names are any. `Infer` writes the edges of a capture
one await at a time, the chain edge last, all with the time of the capture (`ts`); `edges` only
grows. A walk reads the outgoing edges of a node, then the incoming ones, and takes them all
in one go (`Visit`), as the loops of `provenance.ts` do between awaits; `Taken` is the loop over
the adjacent edges. `link` stands for the `seen` set, the `nodes` and the `parent` map; its
`level` and the variable `known` are histories, for the properties and their proof only.

### Transfer

An event is told by its id and the store it was first written to; a summary remembers the
store of the event it was made from (`about`). `ExportTable` reads a table; `ImportInserts`,
`ImportSkips` and `ImportErrs` are `INSERT OR IGNORE` with foreign keys on. `DeleteEvent` and
`PruneSuperseded` are the two statements of `prune`, the first also the sweep; the foreign keys
cascade in both. `mixed` says that the target has rows of its own, `deleted` which of the
target's rows others deleted since the export began.

### Doctor, WebBridge, WebClient

`Doctor`: `CountEmbeddings` and `CountVectors` are the two reads of the drift, `Probe` and
`ProbeEnds` the ping and its kept result, `Heal` and `Copy` the repair. `WebBridge`: the steps
of `ensureAuthToken` and of the port search of `http-bridge.ts`; `StopCloses` and
`StopRemoves` are the two ends of a shutdown, with other processes in between; `Status` is the
order of checks in `web/router.ts`; `RotateOpens` and `RotateWrites` are the command line's rotation,
`Empty` the file between truncation and write. `WebClient`: `loader` says of each tab and form
of `app.js` which boxes say "loading", which an answer, an empty answer or a failure fills;
a request has a number, and a box shows the number of the request it was filled by.

## 4. The runs

| run | instance | distinct states | shows |
|---|---|---|---|
| `drain_safety` | one drain in the daemon, one in the command line's process; 3 events, batches of 1 or 2, 2 attempts, 1 stop | 2.0 M | the inductive strengthening, one holder, summaries behind marks, no claim forgotten |
| `drain_queue` | two drains in the daemon, one outside; 2 events, 3 attempts, 2 stops; fair | 174 k | refinement of the work queue, no step turns a summarized event back, every raw event is settled, deleted or lost to a stop |
| `capture_stops` | two handlers; an ordinary payload and one with a ttl; 2 stops | 836 k | log ahead of table, nothing logged is lost, recovery |
| `sampling_late` | one daemon drain, two MCP servers (symmetric), 2 requests at a time; 2 events, 2 attempts, 1 stop, 1 fault | 3.7 M | one holder however late an answer, every stray claim named |
| `live` | `DaemonLife`: 2 daemons, 2 hooks, 1 `check`, 1 fault, 1 stop. `Wire`: 2 frames of up to 2 body cells, 1 dropped connection. `McpBridge`: handshake and one call, 3 sampling requests. `Curation`: 3 summaries, 3 points, 2 edits, 1 restart. `SymbolWorker`: 4 events, batches of 2, 3 failures. `PeriodicLoop`: 2 back-off steps, 3 errors. Fair | 605 k | a second server needs a race, and so does an orphan unless something was stopped; hooks end with a reachable daemon; frames in order, a good call resolves; each line answered once, every call answered; pins protect, an heir remains, the backlog is compared; every event annotated; one chain of timers, raw events get a drain |
| `knowledge` | `Search`: 3 summaries, 2 of them asked for, pool of 2, 2 touches. `Provenance`: 1 file, 2 sessions (symmetric), 3 captures, 1 of them repeated, and either 1 expiry or a walk of depth 2 and 2 edges. `Transfer`: 2 rows per table here, 1 there, 2 imports | 6.0 M | shown and hidden rightly, fusion monotonic; walks right, chains go back only, to the session of the capture, and from a new event to the one just before; a snapshot is restored, an import takes nothing away |
| `calls` | `Commands`: every command, 3 turns of the daemon. `WebBridge`: 2 workspaces with the same derived port, 2 ports, 3 boots, 3 tokens. `WebClient`: every tab, 4 requests, 2 pins. `Doctor`: 2 summaries, 2 doctors (symmetric), 1 tick of the clock. `ModelCascade`: 3 events, 2 inputs, 1 retry, 2 faults | 3.3 M | one executor; the token agrees, the answer is of one's own workspace; a quiet page shows the last answer; a repair is explained, probes are spaced; the summary of one's own input, paid once |
| `drain_vectors`, `capture_replay`, `pins_pruned`, `daemon_twins`, `transfer_mixed` | | | section 5 |

**Bounds.** Two drains suffice for every race between drains; the third in `drain_queue` gives
two that share a connection next to one that does not, which is the case the transaction rule
treats differently. Two events make a batch with a remainder, and let an id name another
event's summary; the third in `drain_safety` lets one drain hold two while the other claims.
`MaxAttempts` is 3 in the code; 2 keeps the counter's limit within reach in the larger runs,
and 3 is used in `drain_queue`. `MaxCrashes` and `MaxStops` leave a stop in every position, and
a second one during the recovery from the first. `MaxCalls = 2` is one late handler beside the
request that overtakes it. `MaxFaults = 1` is one timeout or exit anywhere; a run with two
faults and one host (8.6 M states) also passes and was found too slow to keep. No event of
`sampling_late` has a ttl: sweeps under a drain are in `drain_safety`.

In `live`, two daemons and three launchers are what it takes for two handshakes to overlap and
a third party to look on; the third summary makes a chain of near duplicates whose ends are not
near; a batch of two with four events leaves two behind; two back-off steps reach the limit
twice. In `knowledge`, a pool smaller than the number of summaries lets one index miss what the
other finds; a depth of two is the least at which a walk has a parent link to follow and the
graph can grow behind it, a repeated capture adding edges of other events;
one row of its own is enough to collide. Expiry deletes no edge, so walks are
run without it. Three captures are three events of a session of which the middle one expires, or two
and a repeated capture that is handed either. In `calls`, the two workspaces derive the same port on
purpose; two of three events share an input, so that jobs meet in the cache. `Start` is empty in
`live`: a `start` beside a running daemon is `daemon_twins`, and `check` covers the same stamp.

Larger instances of `Curation`, `Wire`, `Provenance`, `Transfer`, `Search`, `Doctor`,
`WebClient`, `WebBridge`, `Commands`, `PeriodicLoop`, and of `SamplingDrain` with two hosts and
three faults, were searched by random simulation (2 to 100 million states each) for violations
that the bounds above could hide; `ModelCascade` was checked exhaustively with three faults.
None was found. What section 6 proves needs no bound.

Deadlock is not checked: a drained store with no capture left, or a page with no request left,
is the end of a bounded run.

**Fairness.** Weak fairness throughout, of steps the code takes by itself: timers fire, awaits
end, processes that can run do.

- `drain_queue` (`FairSpec`): each drain's steps and the daemon's claim. No await of the loop
  waits for ever: the local clients abort their fetch after a timeout
  (`ollama-client.ts:85`, `ollama-embedder.ts:44`, `cdg-embedder.ts:57`), Node's fetch limits
  the others, and SQLite's busy time is bounded. The claim is the periodic loop, which re-arms
  its timer in a `finally` (`periodic-drain.ts:87-93`). The command line's drain is not assumed
  to claim. The property is conditional: somebody who calls `retry_skipped` for ever can keep an
  event going round (`RetriesEnd`).
- `capture_stops`: a dead daemon is started again and its boot goes on, which every session
  start does (`spawn-daemon.mjs`).
- `live`: each daemon, hook and command takes its next step (`DaemonFair`); nobody is obliged
  to crash, to type `stop` or to start anything. The server reads what has come and answers,
  the client reads what it is sent; its timer may fire and need not. `Serve` of the bridge reads
  lines and ends its awaits: a request to the daemon by its timeout, a sampling request by its
  60 s timer, so the host's answers are not assumed. `Consolidate`, `Annotate` and `Turn` are
  the timers of three loops and the awaits behind them. Captures, pins, deletions, calls of the
  host and stops are never assumed to happen.

The liveness properties of `live` are of the forms `[]<>P` and `<>[]P`. Each names the ways
out: a loop ended by an exception (`con.at = "dead"`, `at = "dead"`), a stopped loop, a dropped
connection.

## 5. What documentation and comments say, and the code does not do

Each is a run that TLC finds violated, and an entry in `PROJECT.json` "findings" with the
quoted lines.

- `drain_vectors`: `recordSummary` promises the existing id on a conflict. It returns the stale
  `lastInsertRowid`, and after an embedding failed once, the next drain's vector is stored
  under another event's summary.
- `capture_replay`: "once everything has been folded in"; a line whose replay failed is
  truncated too.
- `pins_pruned`: pins are said to survive supersede; `prune` of superseded summaries deletes
  pinned ones that were marked before they were pinned.
- `daemon_twins`: `start` is called idempotent; beside a running daemon it stamps the pid file
  with its child, which takes the file for its own and the socket from the daemon.
- `transfer_mixed`: a snapshot is offered for merging and its referential integrity for granted;
  imported into a store with rows of its own, a summary ends under another event.

**Observations.** Met while modelling, each a step or an outcome of a model, none a run of its
own.

*Drains and capture.*
- The documentation knows three statuses (`memory-model.md:26`); `claimed` is a fourth, and a
  drain that is stopped leaves it behind for good.
- Events are said to wait out an outage as raw (`drain.md:138`, `backends.md:140`); three
  retryable failures retire them, and `isRetryableError` misses "fetch failed", an aborted
  request and a plain 500.
- A line of the log has no ttl: an ephemeral event that is replayed stays (`storage.ts:60`).
- `recordEvent` hands back another row's id on a conflict, like `recordSummary`, and a repeated
  capture's edges go under it (`storage.ts:223-225`).
- `drainViaSampling` does not look at `ok: false` of `record_summary` (`handler.ts:496`): the
  event counts as done and stays claimed, where ARCHITECTURE.md:218 has it released.
- A late `record_summary` marks an event between the two statements of the release that its
  timeout caused, and the release puts it back to raw: `SummarizedStays`, a theorem for local
  drains, is false for host drains (twelve steps, under `HostSpec`).
- `SummarizedIsBacked` needs `pruned`: dropping superseded summaries leaves events marked
  summarized without one.
- `claimEvent` is called by nothing, `tickNow` by tests only, `FallbackModelClient` is
  constructed by no production code.

*Lifecycle and commands.*
- A shutdown removes the pid, socket and port files by name; after `stop` and `start` in quick
  succession these are the successor's.
- After a reboot, a stranger with the old pid keeps the daemon from booting, and `stop` signals
  the stranger.
- The SIGTERM handler of the MCP server stops its drain loop and nothing else.
- The command `drain` falls back to a local drain on a timeout, while the daemon goes on; claims
  keep the two apart.
- A capture of the command line that the daemon took and did not answer is not done again, nor
  is one that the daemon lost (`siftcoder.mjs:781-783`); the local capture writes the payload
  unredacted, without log line or session row.
- `graph-*` and `stream-search` drop their first argument.

*Curation, symbols, cascade.*
- A consolidator tick that meets a deleted summary throws before it arms the next one, and
  consolidation ends for the life of the daemon; the symbol worker ends the same way on a busy
  database, and a busy write turns found symbols into an empty list.
- `lastTotal` is not lowered after a prune, and pairs beyond `pairLimit` are not looked at until
  `minDelta` more embeddings have come.
- An unsure first answer is put in the cache before it is judged; the next job of the same input
  takes it as it is (`summarizer.ts:2` against `:77`).
- A reranker that fails scores 0, which is cached.

*Retrieval, provenance, transfer, doctor.*
- A superseded summary that is deleted between the full-text read and the read of the marks is
  shown: its mark went with it. So is one whose newer summary is deleted in that time, for good:
  a mark goes with either of its ends (`schema.ts:82-83`).
- A repeated capture's edges leave the event whose number it was handed (`storage.ts:223-224`,
  `server.ts:210`): a `derives_from` edge may lead from one session's event to another's, past
  events of either. It never leads forward (`ChainFollowsSession`).
- `streamingHybridSearch` says that failures inside any stage are swallowed
  (`retrieval.ts:269-271`); those of the full-text stage and of the reads before the fusion throw.
- `shortestPath` takes the newest edge of several, its comment says the one with the lowest id
  (`provenance.ts:160-161`).
- vec0 keeps vectors of deleted summaries; the doctor compares numbers, so as many stale rows as
  missing ones hide each other and `--heal` does nothing. Two probes at once may leave the older
  result.
- An export under writers need not be closed under references; a drain in the target may take
  an id of the snapshot while an import runs.

*HTTP and page.*
- An exception of a storage call in a route, and a query that does not decode, leave the
  request without an answer.
- A rotated token is not seen by running daemons. A port file of a crashed daemon may lead to
  another workspace's.
- A failed overview leaves three boxes at "loading..."; hubs are not loaded again after a failed
  load; an unpin that fails leaves its button disabled; answers to a search are drawn in the
  order they come.
- `docs/operations/web-ui.md:19` and `layout.md:31` call the port random; it is derived from the
  workspace.

## 6. The proofs

TLAPS checks the following for every value of the constants that satisfies the assumptions named
with each part (`StoreAssumption`, `DrainAssumption` and `CaptureAssumption` for the first three:
naturals for the bounds, processes as sets of drainers, the no-value constant outside the sets).
TLC evaluates every assumption on the instances of section 4.

**Drains** (`DrainProofs`). `IInv` is inductive (`Invariance`), and from it follow `TypeOK`,
`ClaimExclusive`, `SummarizedIsBacked`, `ClaimedHasOwner`, `AttemptsLeft` (an event that is raw or claimed has an attempt left), and the action
property `SummarizedStays`. None of the four invariants is inductive alone. Exclusive claims
need that the batches are disjoint even while a claim is in its transaction (`TodoDisjoint`),
which needs that only one drain is in it (`LockHeld`) and that what a drain holds is claimed or
deleted, and what it is about to claim is raw or deleted (`TodoStatus`): then a SELECT of raw
rows meets no other drain's batch. A summarized row has its summary because a drain that is
past `recordSummary` has one for its event, as long as the row exists (`Recorded`); an id is
not used again after its row is deleted (`Uncaptured`, `TodoCaptured`). Bounded attempts need
that the value `releaseClaimed` carries from its read to its write is below the limit
(`SeenLow`), and that a new row starts from zero (`AbsentFresh`).

**Refinement** (`DrainRefinement`). Under `QStage` and `QHolder` every step is a step of
`WorkQueue` or a stutter. The holder of an item is the drain that has the claimed row in hand;
`HolderIsOwner` shows from `ClaimExclusive` that the CHOOSE in `HolderOf` has one candidate.
ClaimCommit is Take, each settling step is Decide, Retry is Requeue, Sweep and PruneSkipped
are Remove, a stop is Die. Writes inside another drain's transaction stutter or move items
that the claim does not touch.

**Capture** (`CaptureProofs`). `IInv` is inductive (`CaptureInvariance`): a handler that is
about to insert has its line in the log (`LineFirst`), only the boot removes lines
(`ReplayOnly`), and a line that has been folded in is accounted for (`FoldedIn`). `LogAhead`
and `NothingLoggedIsLost` follow.

**Hosts** (`SamplingProofs`, from the drains' assumptions and `SamplingAssumption`). The drains'
`IInv` does not survive the hosts: a late `record_summary` marks an event that a drain has in
hand. What survives is who may settle an event. An event is in hand of the drain that picked it,
of the host that claimed it, or of a `release_summary` nobody waits for any more, and of one of
them only (`HandsInv`); an event in hand was captured, has an attempt left, and is not raw,
unless its drain is still in its claim (`HandsStatus`). A host holds events inside its loop only
and waits for one request at a time, about the event of its iteration (`HostsInv`). `HostInv` is
inductive (`HostInvariance`). `HostsNeverShare` and `HostClaimsTraced` follow, and
`HostsKeepPromises`: what the drains promise about summaries and attempts holds with the hosts
beside them. The number of hosts, requests in flight, faults and stops is arbitrary.

**Daemon life** (`LiveProofs`, from `DaemonsAssumption` and `LaunchersAssumption`). `DaemonInv`
is inductive (`HandshakeIsSound`). As long as the history `raced` is false, the pid file names
the only process that is past its claim and has not removed the file, and nobody is between
finding the file stale and writing it (`HolderIsNamed`): so whoever looks finds a living holder
and refuses. Servers are holders, hence at most one (`SecondServerIsRaced`). Before any stop
nobody is in `shutdown()` (`NobodyStops`) and a listener keeps its path (`ListenerIsNamed`),
which gives `OrphanIsRacedOrStopped`. No bound on crashes, processes, hooks or commands is used.

**Framing** (`LiveProofs`, from `FrameAssumption`). `StreamInv` is inductive (`StreamInvStep`):
what is in the decoder's buffer and then in the pipe is what was written behind the frames
returned so far, and the next frame is not in the buffer as a whole (`Synced`). So a round of
push's loop always starts at a header; `LoopReturns` shows by induction from the last frame down
that the loop returns frame after frame and stops where one is incomplete. `CutsAreDecoded`
follows, for any cuts and any number and sizes of frames. `WrittenIs` and `LoopIs` first show
that the recursive functions `Written` and `Loop` are what their definitions say.

**Curation** (`LiveProofs`, from `CurationAssumption`). `PinInv` is inductive: what a tick has
still to mark was unpinned when it read the pins, or was pinned since and is in `latePins`
(`TodoUnpinned`). `PinsProtectInTime` follows. `HeirInv` is inductive: marks lead from older to
newer summaries, and a newer summary that is neither kept nor expired was superseded in its turn
(`KeepersStay`). `AnHeirRemains` follows by taking the newest heir: had `prune` deleted it, it
would have an heir newer still. Neither proof looks at which pairs a scan chooses, so both hold
for any measure of nearness and any `pairLimit`.

**Bridge** (`LiveProofs`, from `BridgeAssumption`: what the host asks is a sequence of calls).
`BridgeInv` is inductive: a call not yet dispatched is in one place of stdin and buffer, and
only there (`LinesOnce`); an answered one has one response (`AnsweredOnce`); a dispatch awaits
one sampling request at a time (`AwaitsOne`), and what woke it was its own (`WokenByOwn`).
`BridgeAnswersOnce` follows. A second handshake while the periodic loop samples makes two flows
share caller 0 in the model; the invariant leaves that caller out, and nothing rests on it.

**Periodic loop** (`LiveProofs`, from `LoopAssumption` and `PowersAssumption`). `OneChain` with
the types is inductive (`LoopIsOneChain`). `PowersAssumption` says that powers of two are
positive naturals: the provers have no rule for exponentiation, and TLC evaluates it.

**Model cascade** (`CallsProofs`, from `CascadeAssumption` and `NoAnswerAssumption`).
`CascadeInv` is inductive (`CascadeIsSound`). What the cache has and what a job holds was given
for its key (`AnswersOwnInput`), hence `SummaryIsOwn`. An answer an event has paid for and not
lost is in the hands of its job or in the cache, and the event's job is not asking
(`PaidIsKept`), hence `EachPaysOnce`, for any number of faults.

**Doctor** (`CallsProofs`, from `DoctorAssumption`: finitely many summaries). `DoctorInv` is
inductive (`DoctorIsSound`). What a doctor counted was written and is not written again
(`CountedIsWritten`); a repair has every counted embedding in the index, in its list, or among
the failed writes (`RepairOwes`), which gives `HealsAreExplained`. As long as no two probes were
out at once, the probe that is kept began last (`KeptIsLatest`), which gives `ProbesAreSpaced`.

**Commands** (`CallsProofs`, no assumption). `CommandInv` is inductive: a writing command other
than `drain` has one request; what is refused has not reached a handler, and only that is done
locally, once (`DoneInOnePlace`). `CommandsWorkOnce` follows.

**HTTP bridge** (`CallsProofs`, from `PortAssumption` and `WorkspaceAssumption`). `WebInv` is
inductive (`BridgesAreSound`). Until one of the named races, the token file is empty only under
the hands of the one boot that makes it, and whoever is past the token holds the one in the file
(`OneTokenMade`): `TokensAgree`. The port file of a daemon that has not crashed names a port it
listens on or has just closed (`PortFileTrue`), and a caller's port is its workspace's unless its
daemon crashed or was being stopped (`CallerFollows`): `CallersReachTheirOwn`.

**Page** (`CallsProofs`, from `AsksAssumption`). `PageInv` is inductive (`PageIsSound`): a box
that waits has a request on its way (`WaitsForRequest`); until two requests cross, the one away
is the last, and so is what a box shows (`ShowsLast`). `QuietTabsShowLast` follows.

**Import and export** (`KnowledgeProofs`, no assumption on the bounds). `TransferInv` is
inductive (`TransferIsSound`): a snapshot has a row once and the events first
(`SnapshotInOrder`); until a store has numbered rows of its own, an exported id stands in it for
the exported row (`IdsAgree`), so that an `INSERT OR IGNORE` that is ignored has found the same
row; what an import has passed is there (`PassedIsThere`), and of what it found in the target,
just the rows that others deleted are gone (`FoundStays`). `SnapshotsAreRestored` and
`ImportsTakeNothing` follow.

**Provenance** (`KnowledgeProofs`, from `ProvenanceAssumption`). `ProvenanceInv` is inductive:
the predecessor a capture has read, and that of every `derives_from` edge written, lies before the
capture's event and in its session, and where the capture stored that event, all of the session
between the two has expired (`Follows`). `ChainsFollowSessions` follows, for repeated captures
and whatever ids they are handed too.

`WalkInv` is inductive beside it: `Linked` (the nodes met form a tree, whose links are edges the
answer holds), `Levels` (the frontier is of the level that is read, `next` is all of the level
below), `Explored` (of a node read, every edge there was when the walk began was taken, unless
the cap of a subgraph was reached), `OutSound` (no edge twice, each after one that leads to it)
and `Ended` (why a walk is over). Edges that captures add meanwhile change nothing of it
(`EdgesGrow`). A visit is an induction over the edges read (`StageTakes`, `StageOfAll`), in
which an edge is taken on top of the ones before it. At the end, what is within a distance of
the source in the graph as it was lies at that level or above (`ExploredIsNear`), and a trail is
as long as the level of its node (`TrailLeads`): `PathsAreShortest`, `SubgraphsAreWhole`,
`TracesAreWhole`, and with them `WalksAreRight`, for every graph, depth, cap and number of
captures. TLC found `WalkInv`, but for the type of the walk, to hold on the instance of
`knowledge` before it was proved.

**Search** (`KnowledgeProofs`, from `SearchAssumption` and `ScaleAssumption`). `SearchInv` is
inductive (`SearchIsSound`): each read took place after the history began, and still knows of
what has not changed since: what is in `buried` has had a mark all along, although marks go with
either of their ends. `SearchShowsRightly` follows. `RankInv` is inductive: an index lists
a summary once, and the hits are in the order of the scores their ranks give. A rank is better
exactly when the list has the one before the other (`AheadHasMore`), hence `FusionIsMonotonic`.
`ScaleAssumption` says that the integer scale of the model tells the reciprocals of any two
ranks apart, as real quotients do; for every number of summaries there is such a scale.

**Induction** (`Induction`). The library's induction theorems have an operator as a parameter,
which the provers cannot instantiate; `WFMin` and `NatLessThanWellFounded` have sets only.
`LeastNat` (a set of naturals that is not empty has a least member) and `SetInduction` (a set
with 0 and every successor has all of them) are derived from these. `AnHeirRemains` rests on the
one, the theorems about recursive functions on the other: that a function which satisfies its
recursive definition exists, and what it then computes.

**Only model-checked.** All liveness: `EventuallyDrained`, `Recovered` and the six of `live` need
fairness and ENABLED, which the provers do not have; the refinement is proved without fairness.
Every safety invariant and action property that a passing run checks is a theorem.

## 7. What is not modelled

- The Postgres driver (opt-in); only the SQLite drivers' transaction rules are used.
- A stop inside a claim transaction. Alone, its rollback equals a stop just before the claim;
  what it would undo of other handlers' writes in that transaction is listed as a hazard.
- Statements that fail for another reason than a foreign key, except where a module has an
  action for it (`CaptureLog`, `SymbolWorker`, `ModelCascade`, `Doctor`).
- The text of prompts, summaries and payloads; redaction; the scores of full text, BM25 and
  embedding models; the federation of searches over workspaces.
- In `CaptureLog`, a torn last line counts as never appended (replay drops it), and the
  truncation of the log as durable when it returns. Provenance edges are only the id they are
  written under. Captures of ignored paths change nothing.
- In `SamplingDrain`, the claim is one step, and a daemon that is down is one that is up again
  when the next request comes; a request that finds no daemon is one cut off.
- In `Transfer`, an imported row's status, and a row whose content the target has under another
  id (`UNIQUE(session_id, input_hash)`). Sessions, edges and cache rows follow the rule of
  events.
- In `Commands`, what a local fallback writes: it is the storage call of the same name.
- In `Curation`, summaries are numbered by their timestamps, and in `Provenance` captures are;
  ties are broken by id. What a repeated capture's payload names is not remembered: its files
  are any, like those of the first.
- Reports that only read (timeline, patterns, sessions, savings), hooks other than the
  session start, the transcript parser, the terminal dashboard, privacy, metrics, evaluation,
  the services under `src/core` and `src/services`, skills and documentation: `PROJECT.json`
  gives the reason for each.
- Model, embedder and host are external: any answer at any time.

## 8. The plan

What is left, in order:

1. `SamplingDrain` as a weaker work queue: anyone who once held an item may settle it.
2. Failing statements in `DrainWorkers`: a release that throws, a claim whose ROLLBACK undoes
   other handlers' writes.
3. `Transfer` with statuses and content conflicts; `CaptureLog` with short writes.
4. The federation of searches, the fallback client should production code ever construct it,
   and the hooks.

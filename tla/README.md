# TLA+ verification of the gipc.dev operator console

The repository is one web application in three processes: **core**
(`services/core`, Go: live event streams, telemetry, a visitor's lab), **ai**
(`services/ai`, Python/FastAPI: language model routes with a daily budget) and
**web** (`apps/web`, Next.js). CI pipelines post deploy events to core. Each of
core and ai runs as a single replica and keeps almost all of its state in
memory.

This directory models the parts of that system that keep state and share it:
TLA+ modules, TLC configurations for small instances, and proofs checked by
TLAPS for every value of the constants. `PROJECT.json` lists components, runs,
mutants, theorems, hazards, findings, and the source lines behind every
definition.

    tlasany EventStream.tla
    tlc -config EventStream_safety.cfg EventStream
    tlc -config WebTab_panels.cfg WebTab
    tlapm EventStreamProofs.tla

## 1. The system: inventory

Paths under `src/services/core/internal/` unless they start with `ai:`
(`src/services/ai/app/`) or `web:` (`src/apps/web/app/`).

| Component | Source | State | Operations | Talks to |
|---|---|---|---|---|
| Event hub and streams | `server/hub.go`, `stream.go`, `lab_events.go` | subscriber channels under a mutex; an atomic stream counter | connect, first frame, ticker/channel/context select, disconnect, publish, shutdown | publishers: webhook, lab handlers; readers: browsers |
| Deploy feed | `server/deploys.go`, `web:components/SystemDash.tsx` | at most 24 events, keyed by (sha, stage); each tab's list | signed webhook, add, broadcast; server render, EventSource, merge, reconnect | CI, hub, browser |
| Load test | `server/lab_load.go` | run counter, per-address key, run context, workers, histogram | admit, start, record, snapshot, end, deferred clean-up | hub, rate limiter, its own HTTP target |
| Rate limiter | `middleware/ratelimit.go` | token bucket per address | allow, refuse with Retry-After, sweep | every route |
| Uptime monitor | `server/uptime.go` | sample rings, last/seen flags, incident log | probe round, fold, snapshot, return | prometheus, loki, web, SIGTERM |
| Model routes and budget | `ai:routes/`, `oracle.py`, `jd.py`, `theme.py`, `infer.py`, `budget.py` | two semaphores, a budget row, shielded meter tasks | guards, model rounds, tools, stream, charge, audit | Anthropic, Postgres, the ASGI server |
| Python limiter | `ai:limiter.py` | token bucket per key | check, prune | every ai route |
| Knowledge base | `ai:db.py`, `ingest.py`, `retrieval.py` | pool, cached ping, schema | open, ensure schema (advisory lock), readiness | Postgres |
| Resume variant | `ai:variant.py` | none | deterministic ranking | - |
| Chaos killer | `server/lab_chaos.go` | cooldown limiter | kill a pod, status | Kubernetes, hub |
| WAF | `server/waf.go`, `waf/engine.go` | counters, ring of recent blocks | inspect, record, snapshot | middleware chain |
| Response caches | `server/topology.go`, `deep.go` | one value and its time, under a mutex held over the fetch | get or compute | Kubernetes, Prometheus |
| API playground | `server/lab_demo.go` | none (process-local key and event list) | mint, verify, page by cursor | - |
| DB explorer | `server/lab_db.go` | lazily opened pool | run a fixed query | Postgres |
| Sandbox shell | `shell/shell.go` | none (cwd is the client's) | resolve, ls, cd, cat, tree | - |
| Status, history, logs, traces | `server/status.go`, `history.go`, `logs*.go` | none | query and format | Prometheus, Loki, Tempo |
| Lab panels | `web:components/` LoadPanel, EventsPanel, ChaosPanel, RateLimitPanel, WafPanel, DbExplorerPanel, ApiPlaygroundPanel, ShellPanel, GpuFieldPanel | stream handles, poll and reopen timers, the last answer, busy flags, a WebGL context | start, stop, poll, run, kill, probe, page, recall, toggle, lose and restore | core |
| Model forms | `web:components/` OracleChat, JdAnalyzer, JdTailor, StudioPanel, LocalInfer, TurnstileWidget, MatrixText | the form, the request out, its read loop, the bot check's token | solve, send, read frames, fail, copy, reset, unmount | ai, Turnstile |
| Dashboards | `web:components/` SystemDash, StatusBoard, DeepPanels, ResumePanel, AuthenticityPanel, CountUpText | event stream, polls and their abort controllers, file and asset verdicts | pull, reopen, hide and show, verify | core, GitHub's files |
| Console and palette | `web:console.tsx`, `components/CommandPalette.tsx`, `RouteFocus.tsx` | boot overlay, command log, history, scry generation; palette, focus, inert shell | type, skip, run, recall, complete, scry; open, select, navigate, escape | core, router |
| Immersive resume | `web:resume/` ConstructShell, Immersive, `apps/web/data/construct-stations.ts` | mode, bloomed card, slam timer; station positions, camera; audio graph, tint; tier, decodes | load, bloom, slam, escape, scroll, resize, focus, unlock, toggle | palette |
| Small web components | `web:components/` EasterEggs, Nav, MeetForm, Timeline and others | a toggle or a form | - | - |

### What is hard in it, and what makes each part right

- **Event streams.** Handlers, publishers, disconnects and SIGTERM meet on one
  mutex and one counter. Right means: the counter is exact on every return
  path, at most `MaxStreams` stream at once, no send on a closed channel, a
  stuck reader never holds a publisher, messages are dropped only by a full
  buffer and never reordered, and every stream ends on SIGTERM (Go's `Shutdown`
  waits for handlers but cancels none).
- **Deploy feed.** CI repeats, delays and reorders its calls; two webhook
  handlers may broadcast in the opposite order to their updates; the store
  evicts; core restarts. Right means: one entry per stage, no stage goes back,
  replays change nothing, and a tab that was sent everything agrees with core.
- **Load test.** Workers race with the end of their run; a 503 and a 409 leave
  by other paths than a run. Right means: slots and keys are exact, an address
  has one run, the final frame is final, "done" follows "start" always, and
  every run ends.
- **Rate limiter.** The clock is read before the mutex, so a bucket sees time
  go backwards; a sweeper forgets buckets. Right means: a bound on what any
  window lets through, a sweep that forgives nothing, a Retry-After that works.
- **Uptime monitor.** The repository's one always-on goroutine. Right means: the
  incident log is what the probes observed, also when it overflows, when the
  clock is set back, and when SIGTERM cuts probes off.
- **Model routes.** Every `await` is a place where a client may vanish; money is
  checked before and charged after. Right means: slots come back exactly once,
  a day's overspending is bounded, each completed call is charged once.

- **Web components.** Each is a small event loop: answers, frames, timers, reconnects,
  animation ends and clicks arrive in any order, and React may unmount the component
  between any two. Right means: what is shown is about the latest request, nothing
  runs twice or after the unmount, a bot-check token is sent once, readings do not go
  back, layers contain the page and are undone one at a time, and nothing that is
  waited for stays pending.

The hazards that follow from this, each at its line and with the properties that
cover it, are in `PROJECT.json`.

## 2. Modules

| Module | Models | Checked by | Proofs |
|---|---|---|---|
| `Broadcast` | abstract: numbered messages, readers that join, skip, never go back | as `FeedSpec` | - |
| `EventStream` | hub and stream handlers, publishers, shutdown | `EventStream_safety`, `EventStream_live` | `EventStreamProofs` |
| `DeployFeed` | webhook, store, broadcast, browser tab | `DeployFeed_feed`, `_replay`, `_stale` | `DeployFeedProofs` |
| `LabLoad` | load test handler and workers | `LabLoad_runs`, `_ceiling` | `LabLoadProofs` |
| `RateLimiter` | token buckets and sweeper | `RateLimiter_window` | `RateLimiterProofs` |
| `Uptime` | probe rounds, fold, incident log | `Uptime_rounds` | `UptimeProofs` |
| `ModelGate` | ai routes, slots, budget, metering | `ModelGate_gate` | `ModelGateProofs` |
| `WebTab` | a browser tab: one of the components below, and what they promise in common | `WebTab_panels` | `WebTabProofs`, `WebTabShownProofs` |

| Components of `WebTab` | Modules |
|---|---|
| Lab panels | `LoadPanel`, `EventsPanel`, `ChaosPanel`, `RateLimitPanel`, `WafPanel`, `DbExplorerPanel`, `ApiPlaygroundPanel`, `ShellPanel`, `GpuFieldPanel` |
| Model forms | `TurnstileWidget`, which the others extend: `OracleChat`, `JdForm` (JdAnalyzer and JdTailor, told apart by a constant), `StudioPanel`, `LocalInfer` |
| Dashboards | `SystemDash` (event stream, topology), `SystemPolls` (trace, history, logs), `StatusBoard` (uptime board and, with other constants, deep panels), `ResumePanel`, `AuthenticityPanel` |
| Animated texts | `RevealText` (MatrixText and CountUpText, told apart by a constant) |
| Console | `ConsoleBoot` (overlay and metric strip), `Console` (command line) |
| Immersive resume | `CommandPalette`, which `Construct` (shell, bloom, keys) extends; `ConstructCamera`, `ConstructAudio`, `ConstructRain` |

`MC*` modules give constants values that a `.cfg` cannot express. `DeployFeed` stands on
`EventStream`: the hub is proved to implement `Broadcast`, and a publish is one
step there.

### EventStream (hub.go, stream.go, lab_events.go, main.go)

`pc[c]` is where the goroutine serving client c is; `active` is the atomic
counter; `subs` and `chan` are `hub.subs` and its buffered channels; `ppc`,
`cur` and `todo` are each publisher's progress through `publish`. `hub.mu` is
not a variable: it is held exactly while some publisher's `ppc` is `"send"`.
`CapAdd`/`CapBack` are the Add-then-compare, `Subscribe` and `Unsubscribe` the
hub's calls, `WriteOk`/`WriteFail` a frame, `Tick`/`Recv`/`CtxDone`/`SrvDone`
the four cases of the select, `Leave` the deferred `Add(-1)`. `since`, `taken`,
`lost` and `published` are history. Frame contents and heartbeats are left out.
`lab_events.go` is the same protocol on its own hub and counter.

### DeployFeed (deploys.go, SystemDash.tsx, system/page.tsx)

`HookAdd` is `deployStore.add` under its mutex, `HookPublish` the broadcast after
it; `Load`, `Open`, `Receive`, `Cut` and `Close` are the life of a tab. An event
is `[key, status, ts]`, `key` standing for (sha, stage). Calls refused with 503,
401 or 400 change nothing and are left out, as is the subject text. A tab marked
`missed` was not sent something that would have changed it (rendered without
data, cut off, buffer full).

### LabLoad (lab_load.go)

One action per step of the handler, its three exits (`CapBack`, the 409 in
`TakeKey`, the end of a run) and its four deferred calls in their order
(`PublishDone`, `Cancel`, `DropKey`, `Leave`). A worker's loop is split where it
may be overtaken: it looks at the context (`WorkerCommit`), then records
(`WorkerRecord`). The histogram is its total.

### RateLimiter (middleware/ratelimit.go)

Credit and time share a unit: a bucket earns one credit a tick, a request costs
`Cost`. `Enter` reads the clock; `Admit` and `Deny` are `allow` under the mutex;
`SweepTick` and `Sweep` are the sweeper, which also has its time from before the
mutex. `Skew` bounds how long a request waits for the mutex. `rps = 0` (no
refill) and the cumulative denied counter, which feeds a display, are left out.

### Uptime (uptime.go, main.go)

`ProbeOne` is a probe goroutine writing its slot. `Lock` is `wg.Wait()` returning, the
reading of the clock and the lock; each `FoldNext` is one turn of the loop under it
(`ApplyResult`), the last of which unlocks. `TickerFires`, `StartRound` and `Return` are
`Run`'s loop. What the mutex protects is `book`; `snapshot` takes the same mutex, so what
it says is a function of one state in which no fold is under way (`Status`, `incidents`).
`alive` is the world and `rounds` a history of what was probed. A panic in a probe leaves
its slot at "down", as a failed probe does.

### ModelGate (ai: routes, oracle, jd, theme, infer, budget)

A step is what a coroutine does between two awaits; the actions follow the
handlers from guard to audit. `Abandon` and `InferAbandon` are what the ASGI server
does to a response whose client has gone: it cancels it in an await or leaves it at a
yield. A generator of the oracle's is entered in any case: anyio does not cancel a task
before its first step, and uvicorn's `send()` to a client that has gone returns without
suspending. So a client that leaves during the guards is a `Start` and then an `Abandon`,
and the only response without a generator is one that cannot be constructed
(`ResponseFails`, oracle.py:85), for which the route releases. `SlotsAccounted` rests on
that: a server that cancelled before the first step would lose the slot. Completed calls
cost one unit each. Prompts, parsing, tools' results and colour arithmetic are
abstracted, as are the limiter's and Turnstile's verdicts. The cancellation of
a plain (non-streaming) handler at a forced shutdown is left out.

### WebTab and the web components

Every component module has one variable, the record `ui`, of the component's state
and refs and of the requests, timers, streams and frames that it has outside. One
action is one callback run to completion, as JavaScript runs it: a handler up to its
first `await`, what follows an `await`, a timer, a listener, an effect cleanup.
`View` is what is rendered, as far as a control is enabled by it or a property speaks
of it; clicks are guarded by it. `Unmount` is React's. Answers are abstracted to the
cases the component tells apart, texts to the request they belong to.

The components share no mutable state, with two exceptions which the modules follow:
the forms embed the bot check (they extend `TurnstileWidget`), and the immersive resume
and the palette share focus, inertness, the body's scroll lock and the key events
(`Construct` extends `CommandPalette`). A tab that shows several others behaves as each
does alone. `WebTab` therefore is their union: `panel` says which component a behaviour
is about, and each common promise is stated once, as a case distinction over the
components' own definitions of it. `Console` and `OracleChat` meet in
`ShownIsCurrent`: a context the console links to is the one the chat's `parseCtx` reads.

`ConstructCamera` counts lengths in small integers and the place on the helix in quarters
of a station. Its observer moves the stations only when one of them would move by more
than a pixel (Immersive.tsx:925), so `StationsCurrent` is exact to a pixel, and the focus
follows the flat rule or the helix's (Immersive.tsx:780). The poses of the cards follow
from the camera and are left out. In `Construct`, a page that is left while a card blooms
leaves a slam timer behind (`stray`): the cleanup clears the old one before it closes the
bloom, which sets another (Immersive.tsx:946-948). It settles a card that is gone, and
`SlamTimer` of the next page is not disturbed by it.

Histories record where the code has no guard, and the properties except exactly those
behaviours: `cut` (OracleChat), `interrupted` (StudioPanel), `overlapped` (ResumePanel,
SystemPolls),
`restless` (Construct), `bare` (ConstructAudio). Section 3 lists what they stand for.

## 3. What the runs check

| Run | Properties | What they say |
|---|---|---|
| `EventStream_safety` | `SlotAccounting`, `CapHolds`, `NoLeakedSubscriber`, `NoSendOnClosed`, `NoSilentLoss`, `FeedSpec` | every way out of the handler keeps counter, hub and messages consistent; the hub refines `Broadcast` |
| `EventStream_live` | `PublishReturns`, `SlotComesBack`, `StreamsDrain` | no stuck reader holds a publisher; a vanished client frees its slot; SIGTERM drains |
| `DeployFeed_feed` | `StoreIsKeyed`, `TabsAgree`, `StageNeverRegresses`, `ReplaySafe` | the store and the tab, when a stage's events have distinct timestamps |
| `LabLoad_runs` | `RunAccounting`, `OnePerAddress`, `DoneFrameIsFinal`, `DoneFollowsStart`, `RunsEnd` | slots, keys, totals, announcement, termination |
| `RateLimiter_window` | `WindowBound`, `SweepForgivesNothing`, `RetryIsHonoured` | what a window lets through; what a sweep forgets; what a refusal promises |
| `Uptime_rounds` | `LogIsOutages`, `SamplesAreCurrent`, `PanelCoherent`, `MonitorReturns` | at every step of a fold the log and the rings are what the rounds say, defined without the fold; one snapshot does not contradict itself; the loop ends |
| `ModelGate_gate` | `SlotsAccounted`, `InferSlotExact`, `BreakerBound`, `ChargedOnce` | slots, breaker, charging under disconnects, failed writes, midnight and restarts: each request is charged all its calls or none, and the rows hold what was charged |
| `WebTab_panels` | `ShownIsCurrent` | results, errors, spinners and names belong to the latest request; an answer stands under its question; a station stands where its card is |
| | `LoopsMatch` | one stream, loop, frame and timer where the state on screen implies one; none after the unmount |
| | `FreshToken` | no request is out with a token that an answered one has used |
| | `SnapshotsForward` | a reading is not replaced by an older one; on touch the viewport shrinks only by a turn |
| | `Modal`, `OneEscape` | an open layer contains the page and leaves nothing behind; one Escape undoes one layer |
| | `Resolves` | what is waited for comes, and nothing stays pending after the unmount |

`EventStream`, `RateLimiter`, `ModelGate` and `Uptime` also have their `TypeOK`; in
`DeployFeed` and `LabLoad` it is a conjunct of `StoreIsKeyed` and `RunAccounting`.

Every passing property has a mutant: a plausible bug (an early unlock, a compare
before the increment, a lost `wg.Wait()`, a guard dropped) written beside the
definition it replaces, under which the property must fail.

### Findings

Three runs state what the repository says and find the code doing otherwise.

1. `DeployFeed_replay` (`ReplaySafe`). The store is "idempotent + replay-safe per
   (sha,stage)" (deploys.go:26). Timestamps have a resolution of one second, and
   `add` refuses only an older timestamp or the same status: two events of a stage
   in one second can be replayed, and the stage goes back.
2. `DeployFeed_stale` (`StaleChangesNothing`). A newer event with an unchanged
   status returns before its timestamp is stored (deploys.go:44-46), so an event
   older than it is accepted afterwards.
3. `LabLoad_ceiling` (`RunsUnderCeiling`). The path through a failed write returns
   its slot without `runWG.Wait()`: the "absolute ceiling" on concurrent runs
   (config.go:36) may be passed while old workers wind down.

### Divergences met in the web components

Met while modelling; each is in the module as the code has it, and the property
concerned excepts it. None has a run of its own.

- `OracleChat.tsx`: an error frame re-enables the form while the read loop lives on. If
  that loop is cut while a later question is out, the form is enabled once more, and
  the same token can be sent again. With two requests TLC finds nothing; the proof of
  `FreshToken` did not go through, and with three TLC showed why (`cut`).
- `StudioPanel.tsx:60`: "reset" is enabled while a request is out, makes the form idle
  and lets the same token be sent twice; the late palette replaces the theme that was
  returned to (`interrupted`).
- `Immersive.tsx:817`: a card bloomed again within its slam keeps the first slam's
  once-only `animationend` listener, which closes the new bloom's looks while the other
  cards stay inert and the page locked, contrary to the comment at 824 (`restless`).
- `Immersive.tsx:335`: the gesture unlock does not look at `audioOn`: sound switched off
  by a synthetic click, with no gesture before it, comes on with the next gesture (`bare`).
- `ResumePanel.tsx:52`: `verify` has no single-flight: of two files dropped, the verdict
  written last stays (`overlapped`).
- `GpuFieldPanel.tsx:120` says the panel "genuinely reinitialises on restore", but the
  effect's cleanup calls `loseContext()` on the restored context: the panel says
  "nowebgl" from then on.
- `ConstructShell.tsx:87`: the deep link takes `offsets * innerHeight`, wrong on coarse
  pointers, where the layout uses a fixed viewport (`Immersive.tsx:478`).
- `CommandPalette.tsx:124`: "RouteFocus then moves focus to main" fails when the palette
  is open as the route commits; Escape does nothing after a press inside the palette's
  box has moved the focus to the body.
- `RateLimitPanel.tsx:31,64`, `SystemDash.tsx:222`: polls that overlap without an abort;
  a reading may go back. `SnapshotsForward` leaves the first out and excepts the second
  (`overlapped`).
- `SystemDash.tsx:181`: an aborted topology pull marks the topology as failed until the
  next answer. `ChaosPanel.tsx:60`: "unreachable" although data was had.
- `DeepPanels.tsx`: a deep request slower than the interval keeps the log volume from
  being asked for. `ShellPanel.tsx:119`: old lines are drawn with the current directory.
- `TurnstileWidget.tsx:25`: a rejected script promise is kept, so the widget never comes
  back in that page. A network failure keeps the form's token: the request may have
  been received, so `FreshToken` speaks of tokens of answered requests only.

### Bounds, and why they are enough

- `EventStream`: 3 clients for 2 slots is the least in which one is turned away
  beside two that stream; 2 publishers contend for the mutex; a buffer of 1 fills
  at once; 3 publishes overflow it and are still ordered. The liveness run has one
  client and one slot less, as liveness needs the graph without symmetry. The
  theorems cover every other size.
- `DeployFeed_feed`: 3 stages for a store of 2 (eviction), 2 handlers (crossing
  broadcasts), 5 calls (a stage is evicted and comes back), 1 restart, one tab:
  tabs do not interact.
- `LabLoad_runs`: 3 requests from 2 addresses for 2 slots (a 503 and a 409 in one
  behaviour), one run with 2 workers. A worker that records once or twice differs
  only in the total, so a run records once.
- `RateLimiter_window`: a cost that is not a whole number of seconds, a burst of 2,
  a TTL at the limit of `SweepAssumption`, and a clock long enough to fill, empty,
  sweep and refill a bucket. Keys do not interact, so one is enough.
- `Uptime_rounds`: 2 services beside core's own probe, a log of 2 and 4 rounds: the
  least in which an ongoing incident is evicted and its service then recovers. The
  clock is a constant function that is set back once.
- `ModelGate_gate`: 2 oracle questions for 1 slot, 1 form, 1 inference request, a
  budget of 1 that both kinds overshoot, 2 tool rounds.

- `WebTab_panels`: 2 runs, shell commands, queries, endpoints, assets (an answer can be
  mistaken for another's); 3 polls, pulls and lab events (one out, one late, one after); 3
  questions and 3 tokens: two are too few for a loop that outlives two questions, see
  the divergences; 2 rows or frames kept (the oldest is dropped), 1 palette result more
  than none, 2 cards and 2 blooms (the second within the first's slam). At the INSTANCEs:
  delays that double from 3 to 30 (the cap is
  reached), 5 demo events in pages of 2 (a
  short last page), a log of 5 lines, stations a gap of 0 and of 2 apart,
  viewports of 10 and 12 for cards of 4, 6 and 12 (two that differ by no more than the
  observer's tolerance once they are laid out, and one that overlaps), a helix from 2
  stations on instead of 4, one scroll position between stations, 3 texts for a reveal
  (one superseded). A million states.

`CHECK_DEADLOCK FALSE` stands where the system may stop: its clients have gone, or
the bound on calls, publishes or rounds is used up.

### Fairness, and why the code justifies it

- *Weak fairness of a goroutine's straight-line code*: the Go scheduler runs what
  can run, and a write returns by its deadline, one way or the other.
- *Strong fairness where a mutex is taken*: Go's `sync.Mutex` hands over to a
  waiter that has starved for 1 ms.
- *Strong fairness of `ctx.Done()` in a select*: Go chooses uniformly among ready
  cases, so a case that is ready over and over is chosen.
- *Weak fairness of a probe and of a worker's request*: both carry a timeout or
  the run's context.
- *Weak fairness of `Settles` and `AlsoSettles`* (`WebTab`): a request settles (every one
  has a timeout or is answered or refused by the proxy), a timer that is set fires, a
  frame is drawn while the tab is visible, a stream ends. They are two because some
  components wait for two independent things, and a visitor who keeps one of them busy
  must not excuse the other. Nothing is assumed of visitors: not that they type, show
  the tab again or leave.
- Nothing is assumed of clients, of SIGTERM, of tickers, or of a stream's taking
  messages off its channel: `PublishReturns` holds although no stream may ever do.

## 4. What is proved

| Theorem | Says |
|---|---|
| `StreamsAreTyped`, `SlotsAreSound`, `CapIsKept` | `EventStream`: `TypeOK`, `SlotAccounting`, `CapHolds` |
| `HubIsSound`, `SubscribersAreExact` | no publisher meets a closed channel; no channel leaks |
| `NothingIsLostSilently` | each message a stream is owed is taken, buffered, being sent, or dropped by a full buffer |
| `HubImplementsBroadcast` | `EventStream` implements `Broadcast` |
| `StoreIsSound`, `StagesMoveForward` | `DeployFeed`: one entry per stage within the bound; no stage goes back |
| `ReplaysAreSafe`, `TabsAreCurrent` | if a stage's events have distinct timestamps: a replay changes nothing; a tab that missed nothing agrees with the store |
| `RunsAreCounted`, `KeysAreExact` | `LabLoad`: counter and cap; one run per address, whose key is held exactly meanwhile |
| `FinalFrameIsFinal`, `RunsAreReported` | no worker records after the final frame; "done" follows "start" |
| `SamplesTellOfTheirRound` | `Uptime`: a sample says of its target what the target was in that round |
| `LogTellsTheOutages` | the incident log is the latest outages that the rounds tell of, at every step of a fold, and each ring the latest samples |
| `SnapshotsAreCoherent` | a target shown "up" has no open incident; one shown "down" has exactly one, unless a full log evicted it |
| `RingsAndLogAreBounded` | types, and the bounds of the rings and of the log |
| `BucketsAreSound` | `RateLimiter`: types, and no bucket over its burst |
| `WindowIsBounded` | no window lets through more than burst, accrual and skew |
| `SweepIsHarmless` | a swept bucket would have been full |
| `RetryAfterSuffices` | a refused client that returns when told is let through, unless its key was used in between |
| `CallsAreBounded` | `ModelGate`: types, and the number of model calls of a request |
| `SlotsAreExact` | each oracle slot is free or held by a stream that will give it back |
| `InferSlotIsExact` | the inference slot is free or held |
| `ChargesAreExact` | a request is charged all its calls or none, all unless the charge was lost; the rows of all days hold exactly what was charged |
| `BreakerHolds` | a day's spending exceeds the budget by no more than what was in flight |
| `TokensAreFresh` | `WebTab`: `FreshToken`, for the five forms at once |
| `LayersContainThePage` | `Modal`: the palette and a bloomed card contain the page and leave nothing behind, for any set of cards |
| `EscapeUndoesOneLayer` | `OneEscape`: palette, bloom, page, one at a time |
| `ReadingsGoForward` | `SnapshotsForward`: no reading of the dashboards, the board, the WAF panel or the boot strip is replaced by an older one; on touch the viewport shrinks only by a turn |
| `NothingRunsTwice` | `LoopsMatch`: one stream, loop, frame or timer where the screen implies one, none after the unmount |
| `ShownStaysCurrent` | `ShownIsCurrent`: what each of 24 panels shows is of the latest request, query, file or question |

They hold for any number of clients, publishers, keys, callers and requests and for every
limit, from the assumptions the modules name:

- `StreamAssumption`: finitely many clients, limits are naturals, the buffer is
  not empty.
- `LimiterAssumption`: the parameters are naturals, cost and second not zero.
- `DistinctTimes`, an assumption of two theorems and not of the module: events of a stage
  with one timestamp are one event. CI's timestamps have a resolution of one second, so
  it can fail, and `DeployFeed_replay` shows what happens then.
- `GateAssumption`: finitely many requests of three disjoint kinds, limits are
  naturals, the budget is not zero.
- `UptimeAssumption`: the probes are a non-empty list without repetitions, core's own
  among them, the limits are naturals, an incident log is not empty.
  Nothing is assumed of the clock, which may be set back between any two rounds.
- `TabAssumption`: "none" is no card, the number of a palette's results is a natural, and
  there is at least one asset to hash (the generated list of AUTH_ASSETS has entries).
  What `WebTab` writes into its `INSTANCE`s stays as it is there: two rows of events, two
  boot lines, pages of two events out of five, two stations and two viewports. The
  theorems about a tab are for every value of its constants (numbers of requests, pulls,
  frames, commands; sets of queries, endpoints, directories, assets and cards), not of those.
- `SweepAssumption`: `Cap + 2 * Skew <= TTL + 1`, that is, a bucket refills within
  the TTL of ten minutes. Every default in `config.go` refills within ten seconds,
  but rps and burst come from the environment and the code does not compare them
  with the TTL: a limit of one request an hour would be forgiven by the sweep. It is
  a condition on the configuration, and `SweepIsHarmless` is only as good as it.

**EventStreamProofs.** `SlotInv` (types, accounting, cap) is inductive with one
lemma on cardinalities (`CountedFinite`, `SameCounts`). The cap needs the
accounting: a handler is admitted when the counter, itself included, is at most
`MaxStreams`, and the counter is the number of handlers. `HubInv` adds what the
mutex gives: one publisher at a time is sending (`MuExclusive`), only that one has
receivers left (`RangeUnderMu`), a closed channel is empty (`ClosedIsEmpty`); from
these follow the absence of sends on closed channels and of leaks. `LossInv`
restates `NoSilentLoss` as a balance per subscriber that every step keeps, the
number of pending publishers being 0 or 1 by `MuExclusive`. `OrderInv` says that
what a stream has taken, what is buffered and what is being sent are increasing:
with it each step of `EventStream` is a step of `Broadcast` or a stutter
(`FeedStep`).

**DeployFeedProofs.** `StoredFacts` says what `add` does to a list: it stays keyed and
bounded, the event's stage has the event, any other entry was there before. The first
two theorems follow from it with typing. `ReplaysAreSafe` needs `AppliedIsShown`: a
stage that is listed shows an event no older than any it has accepted. For the tabs
there is `AllInSight`, which says that what a tab does not show yet is in its channel or
about to be broadcast. Broadcasts that cross the order of their updates do no harm as
the later timestamp wins on both sides, and that is where `DistinctTimes` enters.

**LabLoadProofs.** The counter needs one lemma on cardinalities, as in `EventStream`. The
rest is `Places`: what a handler's place says about its workers, its announcement and
its final frame (a handler sends that frame after its last worker has left).

**UptimeProofs.** `SamplesAreCurrent` is about finished rounds, so the invariant adds what
holds during one: `WorldSeen` (what is up now was up in this round) and
`SlotsAreCurrent` (a slot that was written holds something observed since it began).

The log is `Book`, an invariant of every step of a fold, not only of finished rounds: a
fold is one action per target, and in between the targets before `next` have been heard
once more than the others (`Heard`). `LastMatches` says that `last` and `seen` are what
was heard last; `RingsMatch` and `LogMatches` are the property, which ranks the outages by
when they begin and puts the one with n after it at the n-th place from the end. That
alone is not inductive: a recovery closes the *newest open entry of that name*, so it must
be known that there is no other. `LogSound` says that every entry is an outage,
`Recovers` that an outage is over as soon as its target is heard up, and `WentDown`
that a target heard down has an outage that is not over. `FoldOpens`, `FoldKeeps` and
`FoldCloses` are the three cases of `LogAfter`; the eviction of an open
incident is in the first two. `PanelCoherent` follows in finished states: at most one
outage of a target is open (`EarlierRecovered`), and it is in the log unless
`MaxIncidents` others began after it.

**WebTabProofs.** A tab shows one component, so each component has an invariant of its own,
over the record `u` of its state, and the theorems join them by the case distinction that
`WebTab` makes.

*Tokens* are numbered as they are solved, and a response spends the number
it was sent with and empties the token in one step: `TokenSound`. It remains that a
request that is out carries an unspent number, which holds when a form has one
request out at a time (`OneOut`). For four forms that is their busy flag; for the
oracle it is `OneLive`: of the read loops alive at most one is still in its
question, and the older ones have their headers already. That is what the
histories `cut` and `interrupted` except.

*Layers.* `Modal` is not inductive: it does not say which elements may have focus, nor
what is left to happen after a layer has closed. `ConOk` adds to `Contained` that the
palette's own part is `Sound` (its selection is a result, the focus is inside while it is
open, no wish to give focus back outlives it), that nothing of the resume outlives its
route (`Left`), and that the bloom's looks and timers are those of the card that is
surfaced (`Surfaced`). The palette's operations are proved once, on the site alone
(`DismissedSound`, `GotoSound`, `CommitSound`, ...), and used for the resume's as well.
`OneEscape` comes from the same case distinction.

*Readings.* A pull is numbered when it is sent. The board, the deep panels and the boot
strip abort the pull that is out before they send the next, and the WAF panel sends its
next poll when the last is answered; so what may still be answered is the newest, and what
is shown is no newer than it (`BoardOk`, `BootReads`, `WafPolls`). `SystemPolls` may have
several out, and its invariant says that only the behaviours recorded as `overlapped` have
an older one among them (`PollsReads`). The resume's viewport takes a new height on touch only with a turn of the device (`CamStep`).

**WebTabShownProofs.** `LoopsMatch` and `ShownIsCurrent` are conjunctions over the panels,
and so is the inductive invariant, `TabInv`. For each panel there is an invariant of `u`
with three lemmas: it holds initially, every action keeps it, and it implies what the
panel promises (`LoadShown`, `CliShown`, `CamShown`, ...). None of the promises is
inductive, and what each lacks is the reason why the code keeps it:

- *One thing is out.* The forms and the DB explorer promise that the answer belongs to
  what was asked last; the invariant says that what is out is what was asked last, because
  asking again is refused until it is answered or aborted (`DbRuns`, `JdSays`,
  `StudioSays`, `OracleAsks`, `InferBusy`). In the API playground a page that will be appended is the one after the
  events at hand (`ApiOk`); in the resume card that holds unless two verifications
  overlapped, which a history records (`ResumeOk`).
- *Timers exclude each other.* A chaos kill is not sent while the timers of an earlier one
  run, since the button stays off for longer than the fast polling (`ChaosLoops`).
- *Transcripts.* Shell and console promise where an answer stands. The invariants order
  the lines by the command they belong to, also those that have scrolled off, and say that
  an answer that is still to come is of a command in the log that nothing has closed
  (`ShellOrder`, `CliReads`, `CliScries`).
- *The animation frames* of the GPU panel need to know which context is alive and whether the
  effect has run since it was restored (`GpuRuns`, `GpuHolds`).
- *The camera* computes positions from heights it has observed. `CamPlace` says that the
  positions are those of some heights the cards have had, to a pixel the present ones when
  the observer has delivered. With a fine pointer they do not depend on heights, so a
  jump computed from the offset and one computed from the position meet (`CamJump`), and
  a camera that has arrived there, on the helix too, has that station in focus. The
  recursive functions of the model are replaced by their values once (`CamOffsets`,
  `CamPositions`).

**RateLimiterProofs.** `Inv` is `TypeOK`, `Stamps` (no timestamp lies in the future or
further back than the skew), `Budget` (what the window let through plus what
the bucket can still give is bounded), `OneRequest` and `Promise` (a refused
client's due time is no earlier than its bucket's next token). `WindowBound` is
not inductive: it forgets how much credit is left, and that is what `Budget` adds.
A sweep keeps `Budget` because a swept bucket is full (`SweptIsFull`), and that is
where `SweepAssumption` enters.

**ModelGateProofs.** `Shape` is typing with what the places mean: who can be where
(`Kinds`), that a call is left where another is possible (`Rounds`), and that a
shielded meter belongs to a request that has ended (`Ended`).
`Counts` says what one move adds to and takes from the two counted sets, so that the
slots need one short case per action. `BreakerBound` is not inductive: it does not
know who is still to be charged. `Money` adds that once the budget is spent, what is spent
plus what the requests in flight may still cost stays within the bound. A request
joins the flight only while there is money left, when the second part of `Money` asks
nothing; one that is charged leaves the flight, which pays for it (`FlightPays`). `Settled` says
of each place whether its request has been charged, and `Accounts` that the pairs
`Charges` are as many as the units in the rows: the one charge of a request adds as
many pairs as its calls (`ChargeAdds`).

**Only model-checked.** All liveness (`EventStream_live`, `RunsEnd`, `MonitorReturns`,
`Resolves`): fairness and ENABLED are outside what these proofs handle. Every other
property of a passing run is a theorem.

## 5. Not modelled, and why

- Chaos killer and status (`lab_chaos.go`): a list, a delete and a publish, with no
  state of its own; its limiter and its hub are `RateLimiter` and `EventStream`.
- WAF statistics (`waf.go`), response caches (`topology.go`, `deep.go`), the Python
  limiter (`limiter.py`), schema set-up and readiness (`db.py`): they keep state and are
  the next modules, see the plan. Their hazards are listed without a property.
- WAF rules, sandbox path resolution, the resume variant's ranking, demo paging on the
  server, prompt and query text: pure functions of one request.
- Status, history, logs and trace panels, upstream clients, HTTP wrappers: no state.
- Of the web: the key sequence of EasterEggs, OracleTabs' own selection, the drawing of
  the plan tree, what the rain paints and the synthesised sounds, layout and wording;
  components that are static or a single toggle.
- Infrastructure, build scripts, design tokens: declarative.
- Latencies, percentages, histograms' buckets, SSE heartbeats: no property here is
  about them.
- The time a webhook handler gives to an event without one (deploys.go:99-101): the
  pipelines always send theirs (`TS=$(date -u +%FT%TZ)` in .github/workflows).
- That a stage keeps its replay guard when the store is full. An entry that is evicted
  takes its timestamp along, and core then accepts and lists an old event of that stage;
  the store is said to be a bounded ring, and no source promises more. The crowded
  instance of `DeployFeed` reaches it: `StageNeverRegresses` and `ReplaySafe` speak of
  stages that are listed, and `TabsAgree` says that a tab which knows better keeps what
  it knows.
- A tab that missed a deploy event is not brought up to date by anything until its stage
  changes again; no source promises that it is, so `TabsAgree` excludes such tabs.

## 6. Plan

Done: core streams, deploy feed, load test, rate limiter, model routes, uptime
monitor, then the browser's components, and the proofs of section 4.

Left, to model:

1. `PyLimiter` (limiter.py beside ratelimit.go): the Python bucket's pruning and its
   rounded Retry-After against "mirroring services/core's semantics".
2. `ResponseCache` (topology.go, deep.go): a mutex held over the fetch, partial results
   and the leader's cancelled context, against "failures are never cached".
3. `WafStats` (waf.go): counters, ring and snapshot under concurrent recording.
4. `DbReady` (db.py): advisory lock, schema set-up and cached readiness; with it the DB
   explorer's lazily opened pool (lab_db.go).
5. Pure algorithms against reference definitions: `shell.resolve`, `variant.tailor`,
   demo paging.

They are small and share a process: they are to be composed as `WebTab` composes the
browser's, with their promises stated once.

Left, to prove: the safety invariants of those modules, once they are modelled.

# llm-gateway: formal models

This directory holds TLA+ models of the gateway, TLC configurations that check
them on small instances, and TLAPS proofs. `PROJECT.json` lists the components,
the runs, which definition stands for which lines of code, the mutants that
show that each property can fail, and the hazards the properties are for.

Run TLC and TLAPS in this directory:

    tlc -workers 2 -config GatewayLimiter.cfg GatewayLimiter.tla
    tlapm SemaphoreProofs.tla

## 1. Inventory

The gateway is one Node.js process: an HTTP server that takes OpenAI-style chat
and embeddings requests and serves each from one of several upstream *channels*.
JavaScript runs one callback at a time, so the code between two `await`s is
atomic. Everything that can go wrong between actors goes wrong at an `await`, a
timer, or a socket event. The models take that as their grain of atomicity.

| Component | Code | State | Operations | Hard behaviour | What makes it correct |
|---|---|---|---|---|---|
| Semaphore | `lib/concurrency.mjs` | limit, active, FIFO queue, counters | acquire, release, timer, setLimit, drain | handoff against time-out, limit changes under load | no slot leaks, nobody waits beside a free slot, FIFO |
| GatewayLimiter | `lib/concurrency.mjs` | global semaphore, maps of channel and agent semaphores | acquire over three levels, configure, prune, pruneAgents, drain | looks objects up, awaits, goes on; reloads in between | rollback returns everything; the backlog of an agent holds nothing shared; no deadlock between levels |
| Channel health | `lib/channels.mjs`, `lib/proxy.mjs` | failures, openUntil, probeUntil, halfOpenInFlight per Channel | markFailure, markSuccess, cool, uncool, tryAcquireHalfOpen, probe, load | results arrive out of order; a reload replaces the object under the attempts | trial slots are exact; a cooldown is followed by its half-open window; only upstream errors count |
| Stacked keys | `lib/proxy.mjs`, `lib/channels.mjs` | shared ring cursor, one scan or race per request | takeNextRequestKey, resetKeyCursor, rotate-429 scan, race | scans share the cursor; the answers of a race come in any order | a lap tries every key; a scan with alternatives ends; a race keeps the best answer and nothing else |
| Chat request | `lib/proxy.mjs`, `lib/retry.mjs` | dead set, rounds, attempts, deadline, response | routing loop, in-channel retry, effort downgrade, injected channels | many exits, waits, failures at every point | one outcome per request, dead channels stay dead, ends by its deadline |
| One attempt, stream delivery | `lib/proxy.mjs` | headers sent, head buffer, terminal signal, timers | read, judge, forward, end, abort | five timers and two sockets race | switch only before anything was sent; success only after a terminal signal; a response is always ended |
| Candidate order | `lib/channels.mjs` | turn counter, weighted accounts, last good channel, affinity | candidatesFor with four strategies, two tiers and pins | the set changes between calls, several models share the counters, a reload voids part of the memory | accounts stay bounded, nobody starves, cooling channels come last, pins keep the priorities |
| Model blacklist | `lib/channels.mjs` | unsupported models of a channel, with age | markUnsupported, eviction, expiry | a reload and new verdicts beside the expiry | a model is never lost for good |
| Configuration | `lib/channels.mjs`, `server.mjs` | config.json, the loaded objects, the watcher's timer | load, watch, add, update, rename, remove, discover, write back | read, modify, write by handlers and by a timer that holds objects over awaits | memory follows the file, a refused file changes nothing, nobody writes what is not theirs |
| Usage store | `lib/usage.mjs` | day cache, files, write chain | record, query, prune | query reads a file while record appends | memory and disk agree |
| Task log | `lib/tasklog.mjs` | buffer, file, archives | write, flush, rotate, shutdown | overlapping flushes, exit | no line lost or written twice |
| Embeddings | `server.mjs` | candidates left, one timer and signal for all of them, a slot | handleEmbeddings | abort and timer at any moment, also in the queue | every request ends and returns its slot, errors are the channel's own |
| Outbound proxy | `lib/outbound-proxy.mjs` | the stage, socket and body of one exchange | CONNECT, TLS, request, framing, redirects, text(), abort | abort, error and end of several streams race for one settlement | the abort reaches every socket and keeps its name |
| WorkBuddy | `lib/workbuddy.mjs`, `lib/channels.mjs` | the account being renewed, its new key | hourly tick: renew, ask the balance, write back | the file and the objects change while it awaits | it writes only its own fields |
| Adapters, guards, utilities | `lib/adapters/*`, `lib/*guard.mjs`, `lib/util.mjs` | none, or per stream | conversion and classification of text | | text in, text out |
| Agent identity, presets, pricing, logger, routes, panel, packaging | the rest | none that others depend on | | | |

How they meet: the routing loop asks *candidate order* for channels, which reads
*channel health*; every attempt takes a trial slot from *health*, then permits
from the *limiter*, then fetches (with *stacked keys* when the channel has
several), delivers the stream, and reports its verdict to *health*, *usage* and
the *task log*. *Embeddings* take the same way without a trial
slot, through the *outbound proxy* where a channel has one. The *configuration*
watcher reloads *limiter*, *health* and the memory of the *candidate order* at
any moment between two callbacks, and *WorkBuddy* writes to the file it watches.

## 2. Modules

| Module | Models |
|---|---|
| `SemaphoreOps` | the methods of `Semaphore` as operators on `[limit, active, queue]` |
| `PermitPool` | the abstract promise of a semaphore: a resizable pool of permits without queue or order |
| `Semaphore` | one semaphore and its callers; implements `PermitPool` |
| `GatewayLimiter` | the three-level `acquire()`, reloads, clean-ups, shutdown |
| `ChannelHealth`, `MCChannelHealth` | one channel: breaker, half-open trials, attempts, probe, reload |
| `StackedKeys` | rotate-429 scans over one shared cursor |
| `KeyRace` | a channel with several keys under either strategy: the scans, or a race of all keys |
| `UpstreamAttempt` | one attempt: queue, headers, JSON or stream, head buffer, back-pressure, timers, client |
| `AnswerContract` | the abstract promise of a chat request to its client and to the task log: without candidates, rounds, buffers and timers |
| `ChatRequest` | the routing loop of one request, composed with `UpstreamAttempt`; implements `AnswerContract` |
| `UsageStore` | day counts in memory and in files: the write chain, queries beside it, eviction, pruning |
| `TaskLog` | the task log's buffer, timer, flushes and rotation, a reload that replaces it, exit and restart |
| `Routing`, `MCRouting` | `candidatesFor()` call after call: strategies, tiers, pins, turns, accounts, blacklists |
| `ConfigEdits`, `MCConfigEdits` | config.json and the memory: load, watcher, panel, editor, discovery, the WorkBuddy tick |
| `OutboundProxy` | one exchange through a CONNECT tunnel or a proxy, with redirects, under a signal |
| `Embeddings`, `MCEmbeddings` | `handleEmbeddings()` over `OutboundProxy`, with a limiter of one level |
| `SemaphoreProofs`, `GatewayLimiterProofs`, `ChannelHealthProofs`, `SelectionProofs`, `ChatRequestProofs`, `ConfigEditsProofs`, `EmbeddingsProofs`, `StorageProofs` | the theorems about the modules of these names; `StorageProofs` has those of `TaskLog` and `UsageStore`, `SelectionProofs` those of `StackedKeys`, `KeyRace` and `Routing`, `ChatRequestProofs` those of `UpstreamAttempt`, `EmbeddingsProofs` those of `OutboundProxy` |

**Semaphore.** A caller is one call of `acquire()`. `status` says what became of
its promise, `timers` who has an armed time-out, `stats` is what `stats()`
reports. Every method call is one action: `AcquireNow`/`AcquireQueued` are the
two branches of `acquire()`, `Release` the closure of `_releaseFn()` (its second
call does nothing), `Timeout` the timer callback, `SetLimit` is `setLimit()`
with the `_pump()` it ends in, `Drain` is `drain()`. `queuedAt` is history for
the FIFO property. The `settled` flag is not a variable: a settled waiter is
never in the queue, which `QueueIsTheWaiters` states and the proof shows.

**GatewayLimiter.** `acquire()` is cut at its awaits: `Acquire` runs to the
first, `Proceed` goes on after a granted permit, `Fail` is the catch block of
the level that refused, `Finish` the release function. Semaphores are addresses
in a heap, because `acquire()` keeps its local references while `prune()`,
`pruneAgents()` and `configure()` change the maps. `Quiet` keeps timers and
reloads behind pending microtasks, as the event loop does. Time is in ticks,
`Infinity` is "no timer". An address is used again once nothing refers to it.

**ChannelHealth.** Instants are kept as the ticks left until them; 0 is past.
`StartFreely`/`StartTrial` are `tryAcquireHalfOpen()` in `attemptChannel()`,
`Send` is the limiter's permit, `Succeed`/`FailQueued`/`FailSent` end the
attempt: `finally` returns the trial slot to the object that gave it, and the
routing loop calls `markSuccess()`/`markFailure()` on it. `ProbeStart` fixes the
kind of the probe before the await, `ProbeOk`/`ProbeFail` act after it. `Reload`
makes a new object with the fields `load()` copies, `Move` one that starts afresh
because its `baseUrl` or `protocol` has changed. Left out: a reload that
removes the channel, and the successes the embeddings route reports without a
trial slot.

**StackedKeys.** A scan stops only at `await sendFetch`; reading an answer,
moving the cursor and sending again is one step (`Refused`, `Unreachable`).
`Settled` is a 2xx or an error that is not the key's, `Abort` the client, the
first-byte timer or the total budget. The ghost `alone` remembers whether
another scan took a key in this lap.

**KeyRace.** A race is what has become of the fetch with each key (`said`), the
responses nobody has cancelled (`open`), the aborted controllers (`stopped`) and
the winner. `Responds`/`FetchFails` are the two callbacks of a fetch; the
attempt's own timers and the departure of the client are one way to fail.
`RaceGoesOn` is the code after `await outcome`: between the callback that
settles that promise and it, other answers may come in. Races share nothing, so
one request that races is enough (`Racers`). Left out: a reload that changes the
strategy or the keys.

**UpstreamAttempt.** The state of one run of `attemptChannel()`: its phase is
the `await` it stands at, `res` is the client's side of the response. A stream
is a sequence of items of six kinds (content, nothing useful, a tool call in the
text, a finish reason, an end frame, or the last two in one chunk); what a
guard or a parser finds in the bytes is a choice. `writing` is the code between
two awaits, so only `Write` and `Written` go on in it. A converted stream
(`adapter`) yields its finish reason and end frame by itself, and
`streamToOpenAI()` turns every error of its source, an abort too, into
`STREAM_TRUNCATED`. `JsonRead` is a reply that comes as JSON; `Aggregated` one that
a channel with `forceStream` sends as a stream and that is pieced together
(`res.head = "pieced"`), whole or not, since nobody looks for a terminal signal
there. `Interrupted` is what a timer does to the attempt; in a
drain, `waitDrain()` listens to the client only, so the timer is noticed when
the client reads again (`Drained`). `Over` is the end of the attempt with what
the routing loop looks at in its error: `kind`, `retryable`, `responseStarted`.

**ChatRequest.** `req.pc` is the place in `handleChatCompletions()`. `pick` is
the head of the candidate loop, with the injection of the channels that have not
had their turn; `try` the head of the attempt loop; `attempt` awaits
`attemptChannel()`; `pause` and `between` are the two waits; `stop` is the code
below the loop. `Settle` is the `try`/`catch` around an attempt. The candidates
are any order of any set of channels, a new one in every round, so what holds
here holds whatever the health and the order of the channels are. A reply that
cannot be sent because a stream has begun throws and ends in the `catch` of
`server.mjs` (`Caught`). `retryLoop` off is `MaxPauses = 0`.

**UsageStore.** A record is a day in `chain`; `writer` is where the first one
stands: `reading` the file, `found` (read, not yet continued), `appending`. A
query has the same stages in `load`, and `behind` counts down the records its
`flush()` waits for. `Look` is the moment the file is read, `Load`/`Apply` the
continuation after it, because what happens between the two is what can go
wrong. `Quiet` keeps everything else behind pending continuations.

**TaskLog.** A flush is a process of its own (`flush[f]`), because `#flush()`
waits for no other one: each awaited file operation is an action (`Stat`,
`Drop`, `Move`, `Open`, `AppendLines`), and any of them can meet those of another
flush or the end of the process (`Restart`). `Flush` is the synchronous part,
shared by the timer, by `shutdown()` (`FlushNow`) and by `applyTaskLog()`
(`Replace`), after which requests still write to the old object. `Move` follows
POSIX `rename()`: the target is replaced, and an open file keeps its lines under
its new name. `gone` says of a line that is in no file why: its archive grew
too old, was overwritten, the append failed, or the process died.

**Routing.** `candidatesFor()` awaits nothing, so a call is one step (`Select`,
of a new request or of a later round): `Orders` is the set of the lists it may
return, `Spend` what it does to the turn and the accounts. Between channels that
compare equal the latency decides, which is any order here. A channel's health
is a summary of `ChannelHealth` in five values. `Succeed`, `FailOver`,
`Rejected` and `GiveUp` are what attempts make of health, blacklists and memory;
`HealthChanges`, `Expires`, `AffinityExpires` and `Reload` come between. The
`scene` of a behaviour (which configurations, which traffic, which channels may
fail) is a bound that keeps the instance small; the run has five.

**ConfigEdits.** An entry of the file is its endpoint, its key, its list of models
and `enabled`; an object in memory has the routing it was built with too. A list
that a discovery found is named by the endpoint that was asked, so that it can be
told where it came from wherever it is copied to. The panel's handlers (`addChannel`, `updateChannel`, `removeChannel`,
`saveDiscoveredModels`) read, change, write and load in one step, because they
await nothing in between. `ByHand` is the operator's editor, which adds, replaces,
moves and removes channels and writes any route, and may save a
file that does not parse or that `load()` refuses. `Discover`/`Discovered` and
the `Tick` hold objects over their awaits: `live` says whether those are still
the manager's, `Detach` is what a load does to them. The watcher is a timer that
every save arms (`watch`). `touched` is history: the entries that were edited
since the tick began, or that it did not find as the manager had them.

**OutboundProxy, Embeddings.** An exchange has a `stage` (the `await` or the
event it stands at), its socket, the framing and the state of its body, and an
outcome. `connected` and `ready` are the windows between the settlement of a
promise and its continuation, where no socket event comes but an abort does.
`Interrupted` is what the listeners of the signal do within `abort()`.
`left` stands for sockets of answers that were read and that nobody closed.
`Embeddings` is the handler around it: `PickChannel`, `Acquired` and
`QueueTimesOut` at the limiter, `Settle` the `try`/`catch`/`finally` around an
exchange, `ClientLeaves` and `TimerFires` the two sources of the one signal.

## 3. Runs

| Run | Question | Bounds, and why they are enough |
|---|---|---|
| `semaphore` | counts, queue, FIFO, refinement, every waiter is served | 4 callers, limits 1 to 3: a holder, two waiters and a late comer; a pump of several waiters; a time-out in the middle of the queue |
| `limiter` | slots, backlog, quotas, reloads, no wait for ever | 3 calls, one agent (and calls of none), one channel, one reload between all combinations of limits on and off; only releases are fair, so nobody needs a queue timer |
| `health` | trial slots, windows, cooldowns, reloads | 3 requests, one trial at a time, 2 objects (one reload under way), short cooldowns of different lengths so that each can outlast the others |
| `keys` | laps, first key of later laps, what a race keeps, termination | 2 scans or 1 race over 3 keys: either scan can overtake the other inside a lap; a race has a winner, a loser and a late one |
| `chat` | one record, one response, no mixed answers, no false success, refinement, budgets, termination | 2 channels, 2 attempts each, 2 pauses, a head buffer of 2 items: a retry, a switch, an injected channel, a second round, a dead channel met again |
| `chat_deadline` | *violated*: the deadline is signalled in the stream | 1 channel |
| `usage` | no double count, flush before read, exact unless torn | 3 days of which memory holds 2 and the window 2, so days are evicted, pruned and read again; 2 lines a day, one of which may fail; queries one after the other (with two at once the run holds too, but takes over 5 minutes) |
| `tasklog` | no line doubled, lost or forgotten; a rotation alone drops only the oldest file | 3 files of one line each, 5 lines: every archive moves and the oldest is dropped; 2 flushes, 2 objects, one exit at any point |
| `routing` | accounts, cooling last, pins, no starvation | 4 channels in two tiers, two of equal priority; three models with different pools, one of them with an explicit route; one request at a time; five scenes, one for each mechanism: accounts, turns, pins and blacklists share nothing but the health of the channels, which changes in all |
| `config` | memory against file, refused files, models, write-back | 2 names, 2 endpoints (one of an account), 2 tokens and a key in the environment; 2 edits, in the panel or by hand, beside a tick and a discovery: one before and one after each of their awaits, a removal and a new entry of the same name among them. Every edit by hand changes the routing too, so that parts of two files can be told apart |
| `embeddings` | abort against sockets, names of errors, termination | 2 requests for one slot; a tunnel first and the bare proxy next, one redirect, or a channel without a proxy |
| `embeddings_timeout` | *violated*: a time-out is the fault of a channel that was called | the same |

A type invariant is the first conjunct of one property of each module
(`NoSlotLeaks`, `UndisturbedLapIsFull`, `RaceKeepsTheBest`, `EveryExitSettles`,
`NothingIsCountedTwice`, `EveryLineIsInOnePlace`, `AccountsStayBounded`,
`InSyncUnlessPending`, `AbortReachesEverySocket`) or follows from a theorem.

Six more configurations reproduce behaviour that is described under
"Observations"; TLC finds the one property of each violated:
`ChannelHealthCooldown.cfg` (`MCChannelHealth`), `ChatRequestTruncated.cfg`
and `ChatRequestForced.cfg` (`ChatRequest`), `UsageStoreLost.cfg` (`UsageStore`), `ConfigEditsSwitch.cfg`
(`MCConfigEdits`) and `KeyRaceBadKey.cfg` (`KeyRace`).

Every property of a passing run has a mutant in `PROJECT.json`: a plausible bug
in one mapped definition under which TLC finds the property violated.

**Findings.** What the violated runs show, with the comments they contradict, is
listed under "findings" in `PROJECT.json`: when the total budget ends a stream
that has begun, a `ReferenceError` takes the place of the error frame
(`chat_deadline`); once the timer of an embeddings request has gone off, every
candidate that is left is noted as timed out without being called
(`embeddings_timeout`).

**Observations.** More that the models contain and that a comment or the README
of the gateway says otherwise, or that a reader would not expect. They are
modelled as the code has them, and the properties hold with them.

*Requests:*

- An ordinary failure, with the back-off it computes, cuts the long cooldown of
  an empty account or a bad key short (`lib/channels.mjs:512`,
  `ChannelHealthCooldown.cfg`).
- A short stream that ends inside the head buffer is sent before anybody asks
  whether it is complete, so no other channel can be tried
  (`lib/proxy.mjs:1605`, `ChatRequestTruncated.cfg`).
- A client that wants JSON from a channel with `forceStream` gets the upstream's
  stream in one piece. `aggregateStreamToCompletion()` asks for no terminal signal
  and puts in `finish_reason: 'stop'` where the upstream gave none
  (`lib/workbuddy.mjs:652`), so a stream that ends early becomes a whole reply, a
  success in the task log and a good mark for the channel. The comment at
  `lib/proxy.mjs:1916-1919` wants a `finish_reason` never made up, for just this
  reason. `ChatRequestForced.cfg` shows it; `SuccessIsComplete` and `AnswerContract`
  except such a reply and say so. The test for an empty result behind it
  (`lib/proxy.mjs:1436`) never holds: the function always returns an object.
- A race gives out the 401 of one key when every other key failed without a
  response, and with it the verdict on the whole channel
  (`lib/proxy.mjs:892-895`, `KeyRaceBadKey.cfg`); the README of the gateway
  (lines 427-428) wants no single bad key to do that. A rotation does the same
  when the bad key comes last.
- `cap()` in `acquire()` applies the remaining budget anew at each of three
  levels (`Cap`), so a call may queue for three times its `budgetMs`, and a spent
  budget arms no timer; `lib/concurrency.mjs:294-295` wants queueing within it.
- Two flushes of the task log that overlap (a slow one and the next timer, a
  reload's or the shutdown's `flushNow()`) can both find the file full. The
  second `rename()` of `tasks.jsonl` then overwrites the archive the first one
  has just made, though `lib/tasklog.mjs:277-281` has a rotation delete only the
  oldest file. A rotation that meets no other is safe
  (`AloneRotationDropsOldest`).
- The error of `Semaphore.drain()` has no `kind`, so an attempt that a reload
  turns away from the local queue reaches `markFailure()` as `error`
  (`ChannelHealth`'s `FailQueued`), although `lib/proxy.mjs:664-666` wants only
  the upstream's errors counted.
- A models probe that was sent before its channel tripped unfreezes it afterwards
  (`ProbeOk`), although `lib/channels.mjs:1720-1722` keeps models probes away
  from tripped channels.
- While two scans share the key cursor, each may send twice with one key and
  never with another, and report the whole pool as failed; the README of the
  gateway (line 394) promises a full circle. Undisturbed, it is one
  (`UndisturbedLapIsFull`).
- The terminal tracer stops at the first signal, so the `[DONE]` or
  `message_stop` that follows a finish reason in a later chunk is not noticed
  and the client gets a second one. For a converted stream that is always so.

*Files:*

- A query beside the first record after a restart makes memory forget that
  record until the day is loaded again (`lib/usage.mjs:327`,
  `UsageStoreLost.cfg`).
- An edit of anything else switches a channel on again that was switched off in
  the panel and has its key in the environment: `updateChannel()` deletes
  `enabled` of such a channel (`lib/channels.mjs:1567-1569`), though an edit is
  to touch only the fields it was given (1425-1426); `ConfigEditsSwitch.cfg`.
  And `addChannel()` writes `enabled: false` for such a key.
- A reload, rename or removal while the WorkBuddy tick renews an account leaves
  the tick with an object nobody uses: its renewed token reaches the file, if
  the entry is still there, and memory only with the next load, though the log
  says at once that it is in force (`lib/channels.mjs:1675`). A key that the
  panel sets meanwhile is overwritten by the renewed one, and if the entry was
  removed and another one added under its name, that one gets the key of the old
  account: `updateChannelFields()` looks for nothing but the name
  (`lib/channels.mjs:1597`). `RenewsWhatItAsked` excepts the entries that were
  edited since the tick began, and shows that these are the only ones. Where the
  entry is gone or the file does not parse, the renewed key is lost with the
  object, whatever the log says (内存态已生效).
- `saveDiscoveredModels()` goes by the name, too: when the endpoint of an entry is
  changed by hand and the models are saved before the watcher has looked, or while
  the file is refused, the models of the old endpoint go into the entry of the new
  one, and the next load adopts them as its whitelist (`lib/channels.mjs:1313`).
  `ModelsOfTheEndpoint` is stated with these two cases as its exception.
- `load()` does not ask whether the names in a route are channels
  (`lib/channels.mjs:691`, `738`). A channel that the operator removes by hand
  leaves its name in the routes, in the file and in memory. The panel does not
  (`OneConfiguration`).
- `load()` hands the models found at an endpoint on to an entry whose whitelist
  was just removed. config.json is written in place, so a crash in a write
  leaves half a file, and `fs.watch()` may lose a file that an editor replaces;
  both are outside the model.

*Candidate order:*

- The turn is one counter of all models, and among channels that compare equal
  `a.rr` gives a round robin per attempt. `lib/channels.mjs:25-26` has the
  strategy round-robin skip the stickiness of a model; the code applies it.
- The last good channel and an agent's channel are lifted to the front even when
  their half-open places are taken.
- The accounts of the weighted round robin move at every call, also when a later
  round of the same request asks again.
- A preferred channel that cools comes before a healthy one of the second tier:
  the tiers come first (`CoolingComesLast` is about each tier).
- A channel that `maxAttempts` cut off is not injected either.
- What is saturated or least loaded is read off the limiter: with its channel
  limit off, nobody ever is.

*Outbound proxy and embeddings:*

- A body of announced length, or in chunks, that ends early is delivered as a
  complete text; the header of `lib/outbound-proxy.mjs` (3-4) promises no
  difference from `fetch()`.
- A malformed chunk in the packet of the head closes the body before `text()`
  listens: the promise never settles, an abort no longer reaches it, and the
  slot is kept for ever. `EmbeddingsEnd` excepts exactly this state
  (`body = "unheard"`). Chat requests read through `watchdogBody()` and end.
- The end of a body that is not compressed does not destroy the pass-through
  stream, so the socket is left to the peer (`left`) until an abort; a
  `content-length: 0` waits for the peer's close.
- The queue of the limiter does not know the signal: a request that is aborted
  there waits for its slot, and only then ends.
- A success of the embeddings route closes the breaker of the chat route, with a
  latency of 0.

`SwitchesOnlyBeforeFirstByte` rests on more than the flag `responseStarted`:
every path that sets it has also ended the response, and the loop checks that
before the next attempt. The path that does neither is the time-out of a drain,
and it is safe because a client abort stops the loop; the mutant shows what
happens if that error gets another kind.

**Fairness.** *Semaphore*: whoever holds a permit releases it. A holder is an
upstream attempt, bounded by the header, first-byte and idle timers of
`attemptChannelInner()`, and the release is called in a `finally`. *Limiter*:
the same, and promise continuations run, as the event loop guarantees. *Keys*:
a fetch is answered, fails or is aborted by those timers, and a decided race
goes on. Nothing is assumed of queue timers (they may be switched off), of
reloads, of time or of clients.
*ChatRequest*: the process goes on where it awaits nobody, the limiter settles
its calls (that is `EveryCallIsSettled` and the queue time-outs), the deadline
passes, the drain timer goes off, and strongly the budget timer: Node runs due
timers before it reads the next data, so a stream that keeps the attempt busy
cannot put it off for ever. Nothing is assumed of the upstream, of the other
timers or of the client. *Routing*: clients keep
coming, and every request ends, at its total budget at the latest (`GiveUp`);
channels need not recover. *Embeddings*: the timer of a request goes off, a free
slot is given, and the gateway goes on where it waits for nobody; nothing is
assumed of the proxy, the upstream or the queue's timer. *UsageStore*, *TaskLog*,
*ConfigEdits* and *ChannelHealth* are checked for safety only: nothing there
waits for ever by itself, and whether a channel recovers depends on the upstream.

## 4. Proofs

`SemaphoreProofs` proves, for every finite set of callers and every maximal
limit (`ReqsAssumption`, `MaxLimitAssumption`), what run `semaphore` checks on
four callers.

The properties are not inductive one by one. That `active` is the number of
holders survives a handoff only if the head of the queue is a waiting call that
stands in it once, and that nobody waits beside a free slot survives a release
only if `active` is exact. So the invariant is the conjunction

    Inv == TypeOK /\ QueueIsTheWaiters /\ ActiveIsTheHolders /\ NoStrandedWaiter

The proof has one lemma per action; lemmas about `Handoff`, `Abandon`, `Resize`
and sequences without repetition come first. From `SemaphoreSafe` follow
`QueueExact`, `NoLeakedSlot`, `NoLostWakeup`, the action property `WithinLimit`,
and `SemaphoreImplementsPool`: with `holders` and `waiting` read off `status`,
each step is a step of `PermitPool` or a stutter. `FirstComeFirstServed` needs one
thing more: that the queue is in the order of arrival (`QueueOrdered`). A call
that comes is the newest of all, one that gives up leaves the others in order,
and `Handoff` lets in a first part of what is left, so whoever is let in came
before everybody who still waits (`NobodyJumpsTheQueue`).

`GatewayLimiterProofs` proves the three invariants and the action property of
run `limiter` for every finite set of calls and any channels, agents, limits and
budgets. `ReqsAssumption` makes the calls finite and tells them from `Nil`;
`IdsAssumption` is the bound on the objects that are reachable at one time, which
the proof takes as any positive number, however many the code allocates;
`InfinityAssumption` sets `Infinity` above every time a run can see, and
`LimitsAssumption` that limits are numbers and 0 means off. The property to
prove is a count per object, but the objects are reached through maps that
change while calls hold references. The invariant says of the heap that every
object is in good order (`Sound`: its queue has no repetition, and nobody waits
beside a free slot), that its queue is the calls that wait for it and its count
the calls that occupy it (`Heap`); of a call what it may hold at its place
(`Placed`), so that the slot it is about to be given is never one it has; that
an object serves one level only (`Apart`), without which a rollback that returns
a set of slots would return too few; and that a quota in use is the one in the
map (`Current`). A step settles calls of one object after another, so the lemmas
about releasing and draining are about a set of objects at once. The lemmas on
`SemaphoreOps` are stated anew here: an object of the heap may have any of the
configured limits, where `SemaphoreProofs` has one semaphore whose limit moves.

`ChannelHealthProofs` proves what run `health` checks, for every finite set of
requests, any number of reloads and any times (`TimesAssumption` only makes them
natural numbers: no order between the cooldowns is assumed, nor that there is a
half-open window). Here the work is in the count of trial slots. An attempt
that ends while others start and reloads replace the object gives its slot back
to the object it took it from; that the count stays exact needs two more facts,
that only attempts under way hold a slot (`TrialsAreUnderWay`) and that nobody
uses an object no reload has made yet (`ObjectsAreMade`). The windows and bounds
are properties of one object that every method keeps (`Sound`), shown in a lemma
per method. `HealthInv` is the conjunction; `TrialsExact`, `WindowFollows`,
`HealthTyped` and the action property `NoShortcutBack` follow. The last is about
the object in use: a step that ends its cooldown or its window is time that has
run out, a good answer through that very object, or a move; every other step
(`markFailure()` with its assigned back-off, a failed probe, a reload, reports to
a replaced object) leaves one of the two standing. It is stated for cooldowns and
windows that are not switched off.

`SelectionProofs` proves, for every number of keys and every set of requests,
that an undisturbed lap is a full circle (`LapIsFull`) and what a race keeps
(`RaceIsClean`). A scan counts the keys it has sent with, and the claim is about
which they are. So `Lapping` measures the ring backwards from the cursor
(`Back`): a scan that is alone has sent with exactly the keys at distance 1 to
`sent`, which `NextAfter` keeps because it moves every key one step back and the
one just taken to distance 1. `KeysRotate` says that a channel under either
strategy is a rotating one as far as cursor and scans go, so the two theorems
speak of the same specification as run `keys`. For races the invariant is
`Undecided` while they run (all responses open, or a 2xx among them) and
`Decided` afterwards, where only a race with a winner still has fetches under
way: that is what makes late answers harmless.

`ChatRequestProofs` proves the properties of run `chat`, all but its liveness, for
every finite set of channels (`ChannelsAssumption`, which makes an order of
candidates a sequence) and any number of attempts, pauses and items in the head
buffer. The invariant has two
halves. `AttemptInv` is what an attempt keeps true of the response: the head is
out exactly when the head buffer has been given up (`HeadInStep`); an end frame
that the attempt knows of is in the response or still on its way through
`head` and `out`, and as long as the tracer has seen no signal there is none
anywhere (`EndInStep`): that is what makes a success complete and an error frame
the last word; and an outcome tells the loop the truth (`OutcomeTrue`), where
the time-out of a drain and the budget that ends in a `ReferenceError` are the
two that say "not started" of a response that has begun. `LoopInv` is what the
loop adds: it goes on only with nothing sent or after the deadline (`GoesOn`),
which is why the second of these two cannot lead to another attempt. Each action
of `UpstreamAttempt` has a lemma that says it keeps `AttemptInv`, whatever the
loop does; `OverKeeps` is the common end of an attempt.

It ends with a refinement: `ChatRequest` implements `AnswerContract`
(`RequestKeepsContract`). The contract knows whom the gateway asks, what the client
has been sent (nothing, a reply, a refusal, part of a stream, a whole one, a broken
one), whether the response is ended, whether the client has left, and the record.
It asks nobody once a byte is out or the client has left, sends nothing to a client
that left, lets a stream end whole or with an error frame and never both, and has
the record follow from what was sent: "ok" only for a reply, whole or pieced together, or a whole stream,
"client_abort" only for a client that left or was slow to read. `Asked` and
`Answer` are the refinement mapping. Every step of an attempt except the client's is
one of four (`AttemptAdvances`): it goes on having sent nothing, its headers or its
end frame (`Proceeds`), ends with the response as it was (`Fails`), ends the stream
without success (`BreaksOff`) or with it (`Succeeds`); each of the four is one step
of the contract or none. `ContractInv` is what this needs beyond `Inv`: an attempt
that may still write has a client (`GoneIsNoticed`: every await but that of the
queue ends when the client leaves), and the response stays open until the request is
settled (`OpenBetween`, `OutcomeTells`), or the last answer would be written into an
ended one. `ErrorIsNotAnEnd` and `SwitchesOnlyBeforeFirstByte` follow from the
contract as well.

`StorageProofs` proves the three safety properties of run `tasklog` for any
number of lines, objects, flushes, restarts and files. `AloneDropsOldest` needs
`Rotating`: at
most one flush is alone, and it finds the number it moves a file to free, and
what it has opened still current (`Undisturbed`), because everything that could
have changed the files would have ended its solitude. `NoLineIsLostOrDoubled`
sees buffers, flushes, files and the reasons for a loss as containers, among
which the lines are dealt out (`Dealt`): every action pours some of them into
another one (`Poured`), and pouring neither loses nor doubles (`Pour`). `Kept`
adds that no container has a line twice and that an open file is there.
`AbsentAssumption` keeps the mark of a missing file apart from the contents of
one.

Its second half proves the three properties of run `usage` for any number of
days, any window, any number of records and failed lines, and any number of
queries at once (`DaysAssumption` and `BoundsAssumption` say that these are
numbers, and that there is a day, a line and a window). `UsageInv` balances, day
by day, what was recorded against the places where a record can be. On disk: the
lines, the lost ones and the records in the chain are all there are, until
`prune()` removes the file (`DiskIsExact`). In memory: a count and what is still
to be counted never exceed them (`MemoryIsNotAhead`), and reach them unless the
day is torn (`ExactUnlessTorn`). Between the two a load holds a number over an
await, and the balance must hold for it, too: for a record's load because nobody
else writes the file (`WriterIsExact`), for a query's load because no record of
the day waits, or else the day is torn (`QueriesAreExact`). A record comes to the
end of the chain, so what a query waits for keeps holding all that was recorded
before it (`FlushesWaitEnough`). `Behind` counts the records of a day behind a
place in the chain; its lemmas say how it changes when a record comes or is
written. That memory never has a day which is not loaded (`UsageTypeOK`), and so
no load adds to a count (`LoadsAreUnderWay`), is what keeps evictions and
clean-ups from doubling anything. `UsageInv` was found inductive with TLC first,
on the instance of run `usage`.

`ConfigEditsProofs` proves the four properties of run `config` for any names,
endpoints, keys, initial files, inputs and number of edits. The
memory is built with one routing
(`MemOK`); the tick finds in the memory, or in the array it walks along, every
account that is ahead of it (`Finds`), or it would write to an entry that is not
there; a discovery holds an object of the manager or knows that it does not
(`Holds`); and while the watcher is idle over a good file, memory and file agree
(`Matches`). From this invariant follow `InSyncHolds`, `OneConfigurationHolds` and
`ModelsStay`, the last two step by step; nothing is said of routes in it, because
`load()` takes any. `RenewalIsTrue` needs a second one, `Untouched`, on top of the
first: of every account that is ahead of the tick or under renewal and was not
touched, the entry has the endpoint and the key that the tick's picture has
(`EntriesUntouched`). Whatever changes an entry touches it, save for the tick
itself, which visits every account once, and for what changes only models.
`InitialAssumption` types the first file and no more, `InputAssumption` says that
an operator's list is `Listed`, and `NameAssumption`, `UrlAssumption` and
`TokenAssumption` only keep the special values apart.

`EmbeddingsProofs` proves the two safety properties of run `embeddings` for any
requests, candidate lists, slots and redirects. Here `Fit` is what every
exchange keeps true of itself, given whether its request has been aborted: after
an abort an open socket is only possible in the stage `connected`, where the
next step of the gateway looks at the signal; no other stage is left in which
nobody listens. `Queued` ties slots and candidates to the handler's place.

`SelectionProofs` also proves the safety properties of run `routing`, for any
channels, models, routes, priorities, weights and configurations. That the
channels come in a sequence without repetition (`ListedAssumption`), routes name no channel twice,
weights are natural numbers (`NumbersAssumption`; the code takes none below 0) and
the scenes are made of configurations and prompts is all that is assumed. The
argument follows `candidatesFor()` from the inside out. Whatever sorts a set, the
result lists each of its channels (`ChannelsListed`: an injection between finite
sets of one size reaches everything). Live channels, then cooling, then saturated
ones make a row in which nothing that could be tried follows a cooling channel
(`Ranked`, `RowIsRanked`); rotating the live ones (`RotatedLists`) or letting the
richest lead (`WeightedOpenLists`) leaves the row one. A lift to the front keeps it
`Ranked` if the lifted channel does not cool, and keeps the head `BestFirst` if it
is as good as the head was: both are what `Pins` and `Affine` ask
(`LiftKeepsPromises`), and why each needs its guard. A cut takes away at the end,
never the head (`CutFacts`), and the second tier comes whole behind it
(`OrdersFacts`). That only such a list is ever new (`NewListIsAnOrder`) needs the
invariant: the channels that `Inject` adds are none of those a request was given,
and it was given some (`RequestsAreListed` in `RoutingInv`).

Three definitions of `Routing` are computed along a sequence: the filter of a route
(`Among`), a sum over channels, and the winner, who is the first of the richest. What
they return is proved by induction over the natural numbers, stated of sets instead
of predicates (`Induction`, from the least element of a set of numbers) and of the
functions that a step function determines (`Recursion`).

The accounts of the weighted round robin are bounded for any weights, pools and
losses (`AccountsAreBounded`). A single account bounds nothing: a draw gives every
live channel its weight and takes the sum of the weights from the richest, whose
account may have grown in another pool. So `Balanced` is about every group of
channels, a group of k keeping within `Room(k)`, and `Room` bends downwards:
`Room(k)` exceeds the mean of `Room(k - 1)` and `Room(k + 1)` by the sum W of all
weights (`RoomFacts`). Let t draw and u be another channel of the pool. What a
group with t and without u can lose, what one with u and without t can gain, is
at most W beyond the mean of the group with the other added and with its own
taken away, since t was the richest (`DrawKeepsBalance`, from what a draw does to
a sum, `RaisedSums`); a group with the whole pool or none of it keeps its sum. A
channel that loses its account leaves its groups with the sums of smaller ones
(`EmptyingKeepsBalance`), and a tier, a list and a reload are made of these two
(`TierKeepsBalance`, `AccountsKeepBalance`). The bound for one channel among n is
2(n - 1) rounds. The two rounds one would expect are not an invariant: weights
8, 1, 1, 1 drawn in well-chosen pools exceed them. That two channels never share a
name (`IsInjective(Listed)`, which `load()` demands at `lib/channels.mjs:730-732`)
is needed, or one account would be raised twice by one draw.

Only model-checked: liveness, which is out of the prover's reach. Every safety
property that a run checks is a theorem.

## 5. Not modelled

Text processing (adapters, guards, error classification, SSE parsing, token
estimates): functions from text to text whose verdicts are inputs of the models.
What an adapter does to the order of a stream's items is in `UpstreamAttempt`
(`Offered`); how it renames their fields is not. Pricing (floating point),
presets (tables), logging, agent identity, the routes, the panel and the scripts
have no state that other parts depend on.

Left out of parts that are modelled: the effort tags, the unified model, the
fallback target of a model nobody serves and the size limits of the memory
(candidate order); channels of one model, a crash in the middle of a write, the presets' files and the
device authorization (configuration, WorkBuddy); the streamed body of chat
requests over the outbound proxy; a reload while keys are scanned; the successes
that the embeddings route reports, and the removal of a channel (health); the
cache of boundary days and the split by model (usage); the ring in memory and
the redaction (task log); statistics everywhere.

## 6. Plan

In order of importance:

1. How far the accounts really drift: the theorem's 2(n - 1) rounds are enough, the
   pools known here reach a little more than two.
2. The streamed body of `OutboundProxy` (`makeWebBody`) under `UpstreamAttempt`,
   and the block structure of a converted stream.
3. One module for a reload that meets everything at once: `ChannelHealth`,
   `StackedKeys` and `GatewayLimiter` over the same generation of objects.

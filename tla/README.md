# Verification of flagger-go

TLA+ models of the Go SDK in this repository, checked with TLC and, for its
concurrent components, proved with TLAPS.  Paths are relative to `src/`.

## 1. Inventory

| Component | State | Operations | Talks to |
|---|---|---|---|
| Group strategy, `ingester/group_strategy.go` | `isActive`, `ctx`/`cancel`, `sdkConfig`, `callCount`, `exposuresCount`, `accumulator`, wait group `wg`; one lock | `Publish`, `ingest`, worker goroutine, `Activate`, `ShutdownWithTimeout` | starts `retryPolicy.ingest` in a new goroutine per batch; the callback is `wg.Done` |
| Retry policy, `ingester/retry_policy.go` | `queue`, `currentMemorySize`; no lock | `ingest`, `putToQueue`, `shift`, `addToQueue`, `releaseWait`, `SetMaxSize` | the HTTP request function, the callbacks |
| Ingester facade, `ingester/ingester.go` | default entity, one group strategy | `Publish`, `Track`, `PublishExposure`, `SendEmptyIngestion`, `SetEntity`, `Activate`, `Shutdown` | group strategy |
| Flag core, `core/core.go` | `configuration`, `entity`; one mutex | `SetConfig`, `SetEntity`, `GetEntity`, `EvaluateFlag` | flag evaluation |
| Flag evaluation, `core/evaluate.go`, `core/hash_md5.go` | none | `evaluateFlag` and its helpers | filters |
| Filters and escaping, `core/filters.go`, `core/types.go` | the filters of the shared configuration, rewritten in place | `matchByFilters`, `FlagFilter.escape`, `escapeAttributes`, `EscapeEntity`, `EscapeEvent` | - |
| Flagger, `flagger.go`, `std.go` | `enabled`, `core`, `ingester`, `sse`; one RWMutex | `Init`, `silentInit`, `Shutdown`, flag functions, `Publish`, `Track`, `SetEntity` | all of the above |
| SSE client, `sse/client.go` | `changeURL` channel, context, connection, timers | `SetURL`, `Shutdown`, `infiniteLoop`, `reconnect`, `messagesReader`, `processMessage` | calls back Flagger with a new configuration |
| Configuration fetch, `internal/httputils` | none | `GetConfiguration`, three attempts per URL | `Init` |
| Argument validation, `config_validate.go` | none | `prepareInitArgs` | `Init` |
| `log`, `json`, `internal/utils`, `internal/sse_server.go` | none | wrappers and test servers | - |

How they interact: `Flagger.Init` fetches a configuration, stores it in the core,
activates the ingester and starts the SSE client.  Every later configuration
arrives in the SSE goroutine, whose callback sets it, shuts the ingester down
and activates it again, all without `flagger.mux`.  A flag function evaluates
and publishes an exposure under a read lock - unless it had to initialise
Flagger itself (`silentInit`): then it runs without one.

Where the difficulty lies, and what makes each component correct:

- *group strategy*: the flush is decided in one critical section and done in
  another; `wg.Add` happens outside the lock; the worker reads `callCount` and
  `ctx` unlocked; a shutdown may time out and be followed by an activation.
  Correct: no accepted item is duplicated or forgotten, a shutdown that reports
  completion leaves nothing behind, the wait group counts what is owed.
- *retry policy*: goroutines share a queue without a lock; sizes at the limit.
  Correct: the account equals the queue, the queue is bounded, what is reported
  as sent was acknowledged.
- *core*: three separate reads of shared state in one call.  Correct: an answer
  is that of one configuration and one entity, but for the hash key, which is read
  again.
- *evaluation and filters*: order of rules, boundaries of `<` and `<=`, early
  returns.  Correct: lists beat sampling, growing a share never takes a flag
  away or moves a variation, escaping twice is escaping once.
- *SSE client*: timers, reconnects, a reader goroutine that may outlive its
  connection.  Correct: messages are applied in order, a URL change is neither
  lost nor ignored, a silent connection is given up, a shutdown ends the loop.
- *Flagger*: `Init`, `Shutdown` and the SSE callback interleave, and the callback
  holds no lock.  Correct: between control calls Flagger works with one
  initialisation or with none, core and ingester know the same default entity, a
  use under the read lock is served, nobody keeps the mutex.
- *escaping and arguments*: what a caller may leave out.  Correct: escaping an
  entity again changes nothing, an argument given beats the environment.

`PROJECT.json` lists the hazards line by line.

## 2. Modules

| Module | Models | Kind |
|---|---|---|
| `GroupStrategy` | `group_strategy.go` and `sync.WaitGroup` | detailed specification |
| `IngestionContract` | what the ingester promises of an item | abstract specification |
| `MCGroupStrategy` | instance, a claim of a test | model checking |
| `GroupStrategyProofs` | theorems of `GroupStrategy` | proofs |
| `RetryPolicy` | `retry_policy.go` | detailed specification |
| `RequestDelivery` | what the retry policy promises of a request | abstract specification |
| `MCRetryPolicy` | instance, claims | model checking |
| `RetryPolicyProofs` | theorems of `RetryPolicy`, goroutines racing | proofs |
| `RetryTurnsProofs` | theorems of `RetryPolicy`, goroutines taking turns | proofs |
| `SumProofs` | finite sums, least counterexamples | proofs |
| `Flagger` | `flagger.go`, `ingester.go`, the attempts of `GetConfiguration` | detailed specification |
| `MCFlagger`, `FlaggerProofs` | instance; theorems | model checking, proofs |
| `SSEClient` | `sse/client.go` | detailed specification |
| `MCSSEClient`, `SSEClientProofs` | instance; theorems | model checking, proofs |
| `Filters` | `filters.go`, escaping of filters and attributes | operators |
| `Escaping` | `EscapeEntity`, `EscapeEvent` (extends `Filters`) | operators |
| `FilterLists` | a filter list that grows one by one (extends `Escaping`) | inputs, properties |
| `FlagEvaluation` | `evaluate.go` (extends `Filters`) | operators |
| `FlagEdits` | one flag edited step by step (extends `FlagEvaluation`) | inputs, properties |
| `InitArgs` | `config_validate.go` | operators |
| `InitSettings` | arguments of `Init` in a changing environment | inputs, properties |
| `MCFilters`, `MCFlagEvaluation`, `MCEvaluation` | instances of the three, one case at a time | model checking |
| `EvaluationProofs` | theorems of the three | proofs |
| `Core` | `core.go` (extends `FlagEvaluation`) | detailed specification |
| `MCCore`, `CoreProofs` | instance; theorems | model checking, proofs |

**GroupStrategy.**  A step is one critical section of `gs.lock`, one wait-group
operation, or one unlocked access of a shared field.  `Publish` is `Accept` or
`Reject`, then `PublishAdd`, `PublishIngest`; the worker is `Watch` (the select
evaluates `gs.ctx.Done()`), `Tick`, `TickAdd`, `TickIngest`/`TickIdle`, and
`CtxDone`, `FinalIngest`/`FinalIdle`; `ShutdownWithTimeout` is `Deactivate`,
`ShutdownAdd`, `Cancel`, and one of the two returns.  Items are model values; a
batch is the set of its items, because its bytes matter to no property; whether
`json.Marshal` fails depends on whether the batch holds a member of `Poison`.
`hollow` counts empty batches, `leaked` callbacks dropped by a failed Marshal.
The wait group is modelled from its documented behaviour, both panics included;
the window inside `Done` between the counter and the wake-up is merged into one
step.  `Settle` is the retry policy calling back; nothing forces it to, since a
request may be kept for ever.  The retry policy's own panics are in `RetryPolicy`.
`Overlap` chooses the environment: FALSE, control calls take turns (one
goroutine calls Init and Shutdown, SSE updates come between); TRUE, they
interleave as the missing lock in `flagger.go` 100-104 allows.

**RetryPolicy.**  A step is one read or write of `rt.queue` or
`rt.currentMemorySize`; `x += n` and `q = append(q, e)` are a read and a write.
A slice header is read in one piece (a torn header is not modelled), and the
backing array is not shared between two headers.  `MaxInFlight = 1` makes the
goroutines take turns, `> 1` lets them race.  A POST fails or succeeds freely;
`acked` counts the answers that were read, so a delivery whose answer was lost
counts as a failure here, as it does in the code.

**Flagger.**  A step is one critical section of `flagger.mux`, or one unlocked
access of a field that somebody else may write.  `Init` is `CallInit`, the
`Shutdown` it begins with, `InitLock` (lock, new ingester), one `Fetch` per
attempt and URL, `Connect` (activate, start the client, `enabled`, unlock).
`Shutdown` holds the lock throughout, also while it waits for the ingester.  A
flag function, `Track` or `Publish` is `Check` (read lock, `enabled`), then `Use`
under the lock or, if Flagger was not initialised, `Silent`: an `Init` of its own
and a use *without* the lock, each of its reads a step.  `Push` and `Callback` are
the SSE goroutine of client n: set the configuration, shut the ingester down,
activate it, with anything in between.  The core is its two fields and the
ingester is its default entity and the strategy's `isActive`, `url` and
`sdkConfig`; what lies below them is in `Core` and `GroupStrategy`.  An
initialisation's number stands for its ingester, client and arguments, so a
property can say that the parts in use belong together.  `overlapped` and `late`
are history variables: whether control calls have overlapped, and whether a
callback of a client already shut down has acted.

**SSEClient.**  A step is one channel operation, one return of `RoundTrip` or one
call of the callback.  `Select` has one disjunct per case of the select of
`infiniteLoop`, `Pause` one per case of the reconnect pause.  Each connection has
its own reader (`Read`, `Send`, `StreamEnds`) and data channel, and both outlive
the connection as they do in the code.  The keep-alive timer is `armed` and
`expired` (a value waits in its channel), so the missing drain of line 138 is
modelled.  `RoundTrip` may never return: it has neither a context nor a timeout.
How long a timer runs is left out.

**Filters, FlagEvaluation, Escaping.**  Strings are members of a set, `DateOf`
says which parse as dates and as which instant (two strings may be one instant),
`Lower` and `Folded` are the case conversions.  Probabilities, percentages and
hashes are integers on one scale: floating-point rounding of the cumulative sum is
left out.  `SamplingHash` and `VariationHash` are unspecified functions of what the
code concatenates; the instances make them reach both ends of the scale.  Of two
attribute names that collapse in lower case one is chosen by CHOOSE.

**InitArgs.**  `PrepareInitArgs(args, env)` is the result of `prepareInitArgs`: the
arguments in force, whether they are accepted, and the log level it leaves behind.  The
checks of `SDKInfo` (`config_validate.go` 72-80) are left out: it is the package's own
value, with a name and a version.

**FilterLists, FlagEdits, InitSettings.**  The code they are about has no state: its
operators are applied to inputs that change, so that a property can compare the answer
before and after.  `AddFilter` puts a filter behind the others; `Grow`, `Blacklist`,
`Whitelist` and `Kill` are the ways one configuration differs from the next; and
`SetVariable` is the application setting an environment variable.

**Core.**  One action per critical section or unlocked read of `EvaluateFlag`:
`Snapshot`, `DefaultEntity`, then `Reject`, `EvaluateFlag` or
`EvaluateFlagPanics`.  `configs` is a history variable: the configurations
current at some moment of the call.

Definitions marked `\* fault:` are plausible mistakes in the code.  No
specification uses them; putting one in place of the definition it stands next to
breaks the properties `PROJECT.json` names with it.

## 3. Runs

Passing runs:

| Run | Instance | Shows |
|---|---|---|
| `GroupStrategySerial` | 3 items, 2 activations, threshold 1, maximum 2, control calls take turns | `ShutdownComplete`, `NoNegativeCounter`, `FullBufferIsFlushed`, `FirstExposuresAtOnce` |
| `GroupStrategyRestart` | 2 items, 2 activations, control calls take turns | `AcceptedIsIngested` (liveness), `ImplementsContract` (refinement) |
| `GroupStrategyOverlap` | 2 items (one cannot be marshalled, one carries a detected flag), 2 activations, maximum 1 or 2, overlapping control | `TypeOK`, `Conservation`, `WaitGroupBalance` |
| `RetryPolicyTurns` | 5 requests, buffer 5, sizes 2, 2, 3, 5, 6, one at a time | `MemoryIsQueueSize`, `QueueIsBounded`, `NothingForgotten`, `EmptyShiftNeedsFullBatch`, `IngestEnds`, `ImplementsDelivery` |
| `RetryPolicyRaces` | 3 requests racing | `DirectIsToldOnce`, `SuccessesAreAcknowledged` |
| `Flagger` | 1 controlling goroutine, 1 that only uses flags (and may initialise silently), 1 entity, 2 initialisations, 1 configuration pushed by each client, 1 attempt per URL | `TypeOK`, `ShutdownIsComplete`, `InitialisationIsWhole`, `DefaultEntitiesAgree`, `HoldersProceed`, `LockedUsesAreServed` |
| `SSEClient` | 2 URLs (channel of 1), 2 connections of 3 messages (channel of 2) | `NoURLForgotten`, `MessagesInOrder`, `ShutdownEndsLoop`, `URLIsTakenUp`, `SilentConnectionIsLeft`, `ReaderIsReleased` |
| `Evaluation` | filter lists of up to 2; one flag, 2 subpopulations, 2 variations, scale 5; every setting of 4 arguments and any environment | `EscapeIsIdempotent`, `PresentIsConjunction`, `AppendingNarrows`, `OutcomeIsConsistent`, `ListsBeatSampling`, `GroupMembersAgree`, `GrowingKeepsEnabled`, `GrowingKeepsVariation`, `GivenArgumentsPrevail` |
| `CoreInterference` | 3 configurations and nil, 3 entities and nil | `AnswerOfOneButForKey`, `ListedAnswerIsAtomic` |

Runs that refute what a comment says (the findings):

| Run | Claim | What happens |
|---|---|---|
| `RetryPolicyLostUpdate` | `types.go` 68: callback(nil) means sent | the drain removes an element it did not send |
| `RetryPolicyNilCallback` | `types.go` 69: a shifted element is reported | one queued after an eviction has a nil callback |
| `FlaggerShutdown` | `flagger.go` 131: `Shutdown` stops the ingester | a callback under way activates it again after `Shutdown` has returned |

Other divergences the models show, without a run of their own.  Each is visible as
a disjunct, an exception or the weaker form of a property that does hold.

In the ingester:

- `group_strategy.go` 118: `wg.Add` outside the lock may come after the counter
  reached zero and before `Wait` returns, which panics (`crash = "reused"`);
  `group_strategy_test.go` 325 has a publisher run against a shutdown.
- `group_strategy.go` 52: a second flush decided before the first takes the lock
  posts a batch without items (`hollow`); `group_strategy_test.go` 115 says
  "Ingestion is not sent if there is no data".
- `group_strategy.go` 149: after a shutdown that timed out, the next call reports
  completion with requests still under way.
- `group_strategy.go` 87: one item `json.Marshal` rejects discards the whole
  accumulator and the callback (`lost`, `leaked`).
- `group_strategy.go` 65: with overlapping control calls two workers may end on one
  cancelled context and the wait group panics; `NoNegativeCounter` is checked, and
  proved, for control calls that take turns.
- `retry_policy.go` 37: a batch larger than the buffer is dropped without its
  callback, and one exactly as large makes `shift` index an empty queue
  (`EmptyShiftNeedsFullBatch`).

In the core:

- `core.go` 132: the hash key may be of a newer configuration than the flag; that is
  why `AnswerOfOneButForKey` lets the two differ.  When a `Shutdown` comes
  between the two reads the configuration is nil and the call panics; a use that had
  to initialise Flagger itself holds no lock against that (`flagger_test.go` 737
  expects a default variation after `Shutdown`).
- `filters.go` 38-46: an absent attribute under `IS_NOT` or `NOT_IN` ends the match
  with true, whatever the filters behind it say; `filters.go` 17 says "It returns true
  if none of the filters returns false".

In Flagger, all outside `Settled` or named as exceptions of `LockedUsesAreServed`:

- two `Init` calls that overlap may leak the first one's SSE client
  (`flagger.go` 66-76: `Shutdown` comes before the lock); and when the first succeeds
  and the second's fetch fails, Flagger stays enabled with the second's inactive
  ingester, which drops exposures silently (`overlapped`);
- a `SetEntity` between the two critical sections of `Init` reaches the core or the
  ingester but not both, and one before the first `Init` is undone by it;
- a callback of the old client between the critical sections of `Init` activates the
  old ingester, whose worker then runs for ever (`leaked`, `late`);
- while a callback restarts the ingester, exposures are rejected (`Restarting`);
- a `null` configuration from the server is dereferenced (`flagger.go` 96, 103).

In the SSE client, the exceptions of its liveness properties: a dial that never
returns keeps the loop, and `Shutdown` with it (`client.go` 199); a reader blocked
on a full channel is never released (233), although 118-119 say closing the body
aborts it; after a failed dial the pause is empty, since `connectedAt` is zero (159).

In `config_validate.go`, the log level of the process is set even when the
arguments are rejected for an empty API key.

And one no model is needed for: `defaultMaxMemorySize` is 2e8, its comment says
100 MB (`retry_policy.go` 8).

**Bounds.**  `MaxEpoch` (activations): the second is needed for a worker that
outlives its shutdown and for the overwritten cancel.  Three publishers and a
maximum of two give two concurrent flushes and an item between them.  Five
requests, one larger than the buffer and one exactly as large, reach every branch
of `putToQueue`, repeated eviction included.  One caller in `Core` is enough:
callers write nothing that another reads.  Two filters show every effect of their
order.  In `Flagger` two initialisations (`MaxInits`) give an old client and a new
one, and one of them may be silent, hence from the other goroutine; one pushed
configuration (`MaxPushes`) per client puts its callback anywhere, and one entity
and `Nil` suffice to tell two defaults apart; `DefaultAttemptsConnection` only
repeats a failed fetch.  In `SSEClient` two connections (`MaxConns`) give a reader
that outlives its own, three messages (`MaxMessages`) one more than fills the
channel, and a second URL (`MaxURLs`) fills the channel of URLs.  A timer that
fires is a step that is always possible, so the intervals need no bound.

**Fairness.**  `GroupStrategy`: weak fairness of each publisher past the lock and
of each worker - the Go scheduler runs every runnable goroutine, and the timer is
reset after each tick.  Nothing is assumed of the callers or of the server.
`RetryPolicy`: weak fairness of each goroutine, since every POST ends (the HTTP
client has a timeout).  `SSEClient`: weak fairness of runnable goroutines and
running timers, and strong fairness of the cases of a select, because Go picks
among the ready ones uniformly: a case that is ready again and again is taken.
Nothing is assumed of the server: neither that `RoundTrip` returns, nor that
messages come.  `Flagger` and `Core` have no fairness; that nobody keeps the mutex
is the invariant `HoldersProceed`.

A deadlock is reported by every run but `Evaluation`, whose inputs stop growing:
the instances stutter only where every goroutine is at rest (`AtRest`) or a panic
has ended the process.

## 4. Proofs

The assumptions of every theorem are those the modules state of their constants
(buffer sizes and bounds are numbers, items and requests are finitely many, `Nil` is
neither an entity nor an ingester, hashes are on the scale);
TLC evaluates them in the runs.  No theorem bounds the number of goroutines, items,
requests, connections or initialisations.  Theorems that need control calls to take
turns say so: `ASSUME ~Overlap`; those that need the goroutines of the retry policy to
take turns say `ASSUME MaxInFlight = 1`, which lets at most one be inside `ingest` at
a time while any number of requests come one after the other.

`SumProofs`: what a sum over a finite set is, for the sums of the properties
(`SumFunction`, `SumFunctionOnSet`).  Induction is done by a least counterexample:
`Least` (a non-empty set of numbers has a least member, from well-foundedness of <)
and `Fewest` (a smallest set among the finite ones) are first-order facts, so a
recursive function is unfolded once, at the least argument where the claim fails.
From them: a sum exists and is unique (`SumIs`), is a number, grows by one when one
term does (`SumGrows`) and by an element's term when the set gains it (`SumAdds`).

`GroupStrategyProofs` (control calls overlapping or not):

- `TypeCorrect`: `TypeOK`, one step per action.
- `ItemsAreConserved`: `Conservation`.  It is not inductive alone: that an item
  enters the accumulator once needs to know that an item whose publisher has not run
  was not accepted (`NewIsNotAccepted`).  `IngestConserves` covers the three actions
  that flush, `HandedAdd` and `HandedRemove` say what a batch more or less does to
  the union of the batches, and finite cardinalities give `callCount`.
- `FullBuffersAreFlushed`: `FullBufferIsFlushed`, inductive with `TypeOK`: only
  `Accept` makes the buffer fuller, and it looks at it first; a flush empties it.
- `FirstExposuresAreSent`: `FirstExposuresAtOnce`.  `exposuresCount` is the sum of the
  exposures accepted until it passes the threshold, so an item that leaves it at or
  below the threshold has a publisher past `shouldIngest` (`SumAdds`).
- `WaitGroupIsBalanced`: `WaitGroupBalance`, overlapping or not.  `Count(S, f, V)`
  is the number of elements of S that f sends into V; `CountChanges` says how it
  changes when f changes at one place, and `PublisherMoves`, `WorkerMoves` and
  `ShutdownMoves` apply it to the terms of the balance.  `IngestOwes` needs
  `Conservation`: a batch handed over is not already in flight, or the set would not
  grow.  `Fresh` (an activation to come has neither worker nor shutdown) makes
  `Activate` and `Deactivate` start from nothing.
- `CounterIsNeverNegative`: `NoNegativeCounter`, control calls taking turns.
  `SerialInv` is the reason: a worker watches its own context or a later one, and a
  cancelled context belongs to a shutdown that has made its `Add`; so a worker that
  makes its last `Done` has an `Add` of a shutdown of its own (`ExitedAreOwed`), and
  by the balance every `Done` finds the counter above zero (`DonesAreCovered`).
- `ShutdownIsComplete`: `ShutdownComplete`, control calls taking turns.  When `Wait`
  returns the counter is zero, so by the balance as many workers have exited as
  shutdowns have added, hence all of them, and no batch is out (`ReturnsAtRest`);
  nothing is accepted before the next activation, and what publishers still flush is
  empty (`CompleteInv`).

- `StrategyImplementsContract`: control calls taking turns, on top of these invariants
  and of `RejectedIsNotAccepted`.  There is a lemma per kind of step: a flush maps to
  one `HandOver` of everything buffered, or to a stutter when there is nothing, a
  shutdown's return to a `Claim`, a settled batch to a `Finish`.

`RetryPolicyProofs` (any number of racing goroutines): `StepEffect` says what a step
does to each variable and `StepArrives` where it leads; from them `TypeCorrect`
(with `CutsSome`: a goroutine about to cut a slice holds one that is not empty) and
`DirectIsReportedOnce`: a request whose first POST has not failed is nowhere in the
queue, in no copy of it and in nobody's hands (`Unseen`), so nobody else reports it.
`SuccessesAreOwed`: each goroutine that is about to report a success has had one POST
acknowledged that no callback has reported; the acknowledgements are the reports plus
these goroutines, two sums that change by one together.

`RetryTurnsProofs` (goroutines taking turns): one invariant, `TurnInv`, says for the
goroutine inside `ingest` how far `currentMemorySize` is off the queue (`MemoryAt`),
that it works on the queue as it is (`PlaceAt`) and that what it has cut off was not
reported (`HandAt`), and of the requests that each is queued once (`QueuedOnce`), has
no outcome before (`EarlyOnes`) and one after (`Finished`).  The lemmas on `SizeOf`
(`SizeOfAppend`, `SizeOfTail`) come from `Least`.  From it `MemoryAgrees`,
`QueueStaysBounded`, `EmptyShiftIsFullBatch`, `NothingIsForgotten`, and
`TurnsImplementDelivery`: what the goroutine inside shows (`ViewIs`) determines the
abstract state, most steps show nothing (`HiddenMaps`), and there is a lemma for each
action of `RequestDelivery` (`BeginMaps`, `PostMaps`, `AppendMaps`, ...).

`CoreProofs`: `AnswersOfOneButForKey`, from `AnswerInv` (the snapshot and the
current configuration are among those seen during the call); no lock is assumed, and
the hash key may be of another configuration than the rest.  Two theorems say when the
answer is of one configuration after all: `OneKeyAnswersAreAtomic`, when those current
during the call have one hash key, and `ListedAnswersAreAtomic`, when no hash decides, from the lemma that an outcome no hash takes part in does
not depend on the hash key (`OutcomeWithoutHash`).

`SSEClientProofs`: `TypeCorrect`, `URLsAreKept` (`NoURLForgotten`; before the first
dial the same holds of the channel alone, `URLInv`) and `MessagesComeInOrder`
(`MessagesInOrder`; `OrderInv` says what a reader holds and its channel contains are
consecutive numbers that continue those handled, and `OthersHandNothing` that only
`Receive` hands a message over).  The property constrains every step into
`processMessage`, so a message handed over twice breaks it too.

`FlaggerProofs`: `TypeCorrect`, `MutexIsReleased` (`HoldersProceed`),
`OneDefaultEntity` (`DefaultEntitiesAgree`) and `LockedUsesServed`
(`LockedUsesAreServed`).  All come from one invariant, `ServedInv`: who holds the
mutex and where (`LockInv`), that without overlap there is one controlling call
(`Alone`), what is torn down when Flagger is disabled (`Down`), what an enabled one
has (`Configured`, `Active`), that readers hold the lock only while it is enabled
(`ReadersEnabled`) and that a new ingester and a reset core have no default
(`DefaultsReset`).

On top of it `SettleInv` follows what one initialisation at a time leaves behind:
`ShutdownLeavesNothing` (`ShutdownIsComplete`) and `OneInitialisation`
(`InitialisationIsWhole`).  The two properties speak of moments when nobody is inside a
control call, and neither is inductive: what holds there is established inside the
calls.  `OneClient` says that without overlap the client of Flagger is the only one
connected, with its ingester, at every place of `Shutdown` and `Init`; `Fresh`, which
it needs, that a new initialisation has had no client before, and `OwnPush` that a
callback brings a configuration of its own client's initialisation.  `Clean` says what
is torn down at which place and that, without callbacks of former clients, it stays so;
`Whole` what the ingester and the core have of the client's initialisation, at each
place of the client's callback.

`EvaluationProofs`, about every filter, attribute, flag, entity and hash.  Its theorems
are those of `MatchingSpec`, `EditingSpec` and `SettingsSpec`; `MCEvaluation` runs the
three one at a time, with the variables of the others at `Nil`.

- `FiltersNarrow` and `PresentFiltersConjoin` (`AppendingNarrows`,
  `PresentIsConjunction`): the loop of `matchByFilters` is "all hold, or one is absent
  under a negative operator and those before it hold" (`MatchIs`); with all attributes
  present the second never happens, and a filter behind the others affects neither what
  holds before it nor where the loop ends before it (`LongerListNarrows`).
- `SecondEscapeIsNone` (`EscapeIsIdempotent`): one lemma per conversion.  The value of a
  filter gets a type that `escape` leaves alone (`ValueOnce`); escaped attributes are
  `Plain` (`EscapedIsPlain`), and plain ones stay as they are, propagated `id` and `name`
  included (`PlainOnce`, `PropagateOnce`); then groups, entities and events.  Assumed:
  converting to lower case twice is converting once, `id` and `name` are lower-case, and
  `Nil` is no attribute map.
- `ListsComeFirst` and `MembersGetOneVariation` (`ListsBeatSampling`,
  `GroupMembersAgree`) follow from `EvaluateIs`, the eight rules each with what keeps
  those before it away.
- `OutcomesAreConsistent` (`OutcomeIsConsistent`): `EditingInv` says that edits keep the
  variations and the keys; the probabilities add up to the scale (assumed of a
  configuration, as is that no variation is called "off"), so some cumulative sum
  reaches the hash, and by `Least` there is a first one (`ChosenIsOwn`).
- `GrowingIsMonotone` and `GrowingKeepsPlaces` (`GrowingKeepsEnabled`,
  `GrowingKeepsVariation`): growing changes one share (`GrowIs`), on which neither a hash
  nor a variation depends (`SampledStays`, `GrownSame`), so each rule that applied either
  still does or gives way to a sampling (`GrownOutcome`).
- `ArgumentsComeFirst` (`GivenArgumentsPrevail`): the arguments in force are the same
  for every key.

Only model-checked are the liveness properties, which are outside what the prover does:
`AcceptedIsIngested`, `IngestEnds`, `ShutdownEndsLoop`, `URLIsTakenUp`,
`SilentConnectionIsLeft` and `ReaderIsReleased`.  Every other property of a passing run
is stated by a theorem.  The claims the other runs refute are properties of an
instance.

## 5. Not modelled, and what is left

- The HTTP request of the ingester and the fetch itself are I/O; their only effect on
  control, success or failure, is in `RetryPolicy`, `GroupStrategy` and `Flagger`.  What
  a configuration that is decoded only in part leaves behind is left out.
- `MD5` is an unspecified function.
- `waitTimeout` is called by its own test only; `ShutdownWithTimeout` has the same code.
- Logging, the JSON wrappers, the test servers and utilities have no state of their own.
- `SetMaxSize` of the retry policy is called by tests only: `MaxMemory` is a constant.

Next, in this order: the composition of `GroupStrategy` and `RetryPolicy` (callbacks
that never come, panics that end both); the free choice between attribute names that
collapse.

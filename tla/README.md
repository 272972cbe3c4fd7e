# A TLA+ verification of goy-store

goy-store gives a service five storage contracts (key-value, relational, sorted
set, pub/sub, blob) in two independent implementations, Go (`src/go`) and Rust
(`src/rust`). Every contract can be decorated twice: by a resilience wrapper
(timeout, retries with backoff, circuit breaker) and by an instrumentation
wrapper (Prometheus). The code that is hard to get right is small and
concurrent: a breaker shared by every caller, retries of operations whose first
attempt may have taken effect, migrations raced by several instances,
subscriptions with background tasks, and files written in two steps.

## Inventory

| Component | State | Operations | Hard about it | What makes it correct |
|---|---|---|---|---|
| Go breaker and executor (`go/resilience.go` 1-195) | state, failure counter, failure time under one RWMutex; gauge and retry counter outside it | CanExecute, OnSuccess, OnFailure, StateCode, ExecuteWithResilience | goroutines interleave; the breaker is asked once per call and told once per attempt; context cancelled in the backoff | acts like an atomic breaker; closed exactly below the threshold; never half-open with no trial; every call returns |
| Rust breaker and executor (`rust/src/resilience.rs` 1-175) | two `tokio::sync::RwLock`s, an atomic counter outside both | can_execute, on_success, on_failure, current_state_code, execute | two locks, an atomic outside them, futures dropped at an await | an open circuit has a failure time; never left closed at the threshold; no deadlock (it has one) |
| Resilience wrappers (the rest of both files) | none | one per contract operation | which operations are retried, and what a second execution does | a retry must not change what the caller is told |
| Relational store (`go/postgres.go`, `rust/src/relational.rs`) | `schema_migrations`, transactions at the server | Query, Execute, Transaction, Migrate | instances migrate at once; COMMIT's answer is lost | each migration takes effect once, in order; success means all recorded |
| Key-value (`go/redis.go`, `rust/src/kv.rs`, `go/memory.go`) | keys, values, expiry | Get, Set, Delete, Exists, SetIfNotExists | a lost reply to a conditional write; TTL rounding | exactly one caller wins SetIfNotExists |
| Sorted set (`rust/src/sorted_set.rs`, `go/memory.go`, `go/redis.go`) | Rust memory: two indexes; Go memory: one map | Add, Remove, RangeByScore, Count, RemoveRange, Score | the two indexes must agree; float order; limits | both implementations answer alike |
| Pub/sub (`rust/src/pubsub.rs`, `go/redis.go`, `go/memory.go`) | subscriber tables, bounded buffers, a forwarder task per channel | Publish, Subscribe, Unsubscribe | forwarder ends while subscribers come and go; full buffers | a subscriber keeps receiving until it unsubscribes |
| Local blob store (`rust/src/blob.rs`, `go/blob_local.go`) | an object file and a metadata file | Put, Get, Delete, List, PresignURL | two files are written one after the other | an undisturbed Put or Delete is what later readers see, whatever was interrupted or overlapped before it |
| S3 blob store (`rust/src/blob.rs` 247-440, `go/blob_s3.go`) | none of its own | as above | lost and late replies | as for the other remote back ends |
| Metrics (`go/metrics.go`, `rust/src/metrics.rs`) | counters, gauges, histograms | record after each operation | readings stored out of order | samples and errors account for the calls; gauges show the last reading |
| Health (`go/store_impl.go`, `rust/src/health.rs`, `rust/src/lib.rs` 200-226) | health gauges | five probes at once, each with its timeout, worst-of aggregation | servers change, hang and come back during the check; checks overlap | neither a false alarm nor a false all-clear; every check returns |
| Configuration and construction (`config`, `lib.rs`, `store_impl.go`) | which back end serves which contract | New, from_config | defaults, sharing of Redis clients, unknown names | each contract is served by the server its configuration names |

Calls nest as resilience wrapper -> instrumented wrapper -> back end, so that
each attempt is measured. One executor, hence one breaker, is shared by all callers of a contract. The
hazards of this code, line by line, are listed in `PROJECT.json`.

## Modules and the code they model

| Module | Models | Extended by |
|---|---|---|
| `Breaker` | abstract circuit breaker: what CanExecute, OnSuccess and OnFailure promise if each were one step | instantiated by `GoResilience` |
| `GoResilience` | `CircuitBreaker` and `ExecuteWithResilience` of `go/resilience.go` | `MCGoResilience`, `GoResilienceProofs` |
| `RustResilience` | `CircuitBreaker` and `ResilientExecutor::execute` of `rust/src/resilience.rs` | `MCRustResilience`, `RustResilienceProofs` |
| `Migrate` | `Migrate` of `go/postgres.go` (and `migrate` of `rust/src/relational.rs`, which takes the same steps), its transactions at the server, the retries around it | `MCMigrate`, `MigrateProofs` |
| `StoreCalls` | a call of any contract through the layers `NewStoreWithMetrics` builds: resilience wrapper, instrumented wrapper, client, server | `MCStoreCalls`, `StoreCallsProofs` |
| `RustPubSub` | `RedisPubSubStore` and `MemoryPubSubStore` of `rust/src/pubsub.rs` | `MCRustPubSub`, `RustStoreProofs` |
| `GoPubSub` | `RedisPubSubStore` of `go/redis.go` and `memoryPubSub` of `go/memory.go` | `MCGoPubSub`, `GoPubSubProofs` |
| `SortedSet` | `memorySortedSet` of `go/memory.go`: one map, the abstract sorted set | instantiated by `RustSortedSet` |
| `RustSortedSet` | `MemorySortedSetStore` of `rust/src/sorted_set.rs`: two indexes | `MCRustSortedSet`, `RustStoreProofs` |
| `LocalBlob` | `LocalBlobStore` of `rust/src/blob.rs` and of `go/blob_local.go`: the system calls on an object file, its metadata file and the health probe | `MCLocalBlob`, `LocalBlobProofs` |
| `StoreHealth` | construction of a store and `health_check` of `rust/src/lib.rs` and `go/store_impl.go`, with the probes of the back ends and the instrumented wrappers | `MCStoreHealth`, `StoreHealthProofs` |

`PROJECT.json` gives the source lines of every definition. The `Slips` section
of a module holds mutated forms of its actions, each a plausible error of the
code that one of the properties has to catch; no specification uses them.

**GoResilience.** Each goroutine has a program counter; each action is one
lock operation or one assignment of the source (`AddFailure` is
`cb.failureCount++`, `SetOpenAtThreshold` the comparison and assignment after
it). The lock is `writer` and `readers`; the breaker is `state`, `failures`,
`last`. `last` is abstracted to `none`, `fresh`, `stale`: all the code asks of
the failure time is whether the reset timeout has passed, and `TimePasses`
lets it pass at any moment. An attempt (`RunOk`, `RunErr`) is the operation
with its timeout, so that its result is either outcome. `CfgThreshold` and
`CfgMaxRetries` go through the defaults of `NewResilientExecutor`
(`OrDefault`).

**RustResilience.** The same loop over two locks (`stW`, `stR` and `ltW`,
`ltR`) and a counter that is in neither. `Drop` abandons the future at an
await point: its guards are released and what it wrote stays. `abandoned` is a
history variable: the tasks dropped between counting the threshold failure and
opening the circuit; it is reset with the counter.

**Migrate.** `recorded` is the committed `schema_migrations`; `lock` and `mode`
are the server's transactions, at most one per version since the version is
the primary key. `Fail` is any failing or timed out call: a transaction whose
client has not sent COMMIT becomes `orphan` and the server aborts it; one whose
client has becomes `late`, and the server may commit it at any later moment,
also while the retry is under way. `effects` counts committed executions of a
version's UpSQL.

**StoreCalls.** A call is a process; callers that make several calls are a
special case. The language, the contract and the back end (a server, or the
in-memory store) are chosen initially. The tables `KV`, `Relational`,
`SortedSet`, `Blob` and `PubSub` say which operations the wrappers retry and
what the client of each makes of the one item the back end has: read, test,
write, erase, create if absent (SetIfNotExists), erase and report
(RemoveRange), append (Publish, Execute, Transaction). Every call writes its
own identity, so that a read shows whose write it saw. `wire` holds the
commands sent and not executed; a server executes one at any time, also after
the attempt that sent it was given up, and its reply counts only for the
attempt that still waits. An in-memory store executes a command only while its
attempt waits for the lock (`Executable`), and has no await behind that
(`Suspended`). Any attempt at a server may fail before or after its command was
executed. In Rust a timed out attempt is dropped with the instrumented wrapper
around it (`AttemptDropped`), the whole call may be dropped (`Drop`) and a TTL
of 0 is refused; in Go the context may end in the backoff and a TTL of 0 means
none (`Expiry`). `Timed...` are the operations an instrumented wrapper measures,
and `Observe` what it counts. Whether the breaker admits a call is left open,
which includes whatever `GoResilience` and `RustResilience` do. go-redis, whose
`MaxRetries` the code leaves at its default, and the AWS SDKs resend a command
inside an attempt: `Resend` sends another copy and forgets the reply to the one
before, which may still be executed (`copy` counts the resends of a call). An
attempt may thus execute several times and is one sample. `creators`,
`executed` (the attempts of which a command was executed) and `held` are
history variables.

**RustPubSub.** `table` is `channels`; a forwarder task and the ring it was
created with have the same name. A ring keeps everything ever sent, and
`Oldest` is the oldest message a ring of `Capacity` still holds. `Publish` is
the server handing a message to the connections that listen. A sender is held
by the table and by the task; a stream ends when both are gone (`Closed`). In
memory there is no task: `MemoryPublish` sends into the ring of the table, and
`unsubscribe` does nothing.

**GoPubSub.** A subscription is a connection over a set of channels, a
goroutine and the subscriber's channel `out`. `Subscribe` is the confirmation
by the server, `Register` the entry in the table and the start of the
goroutine; its `select` is `CtxDone`, `Take` and `SeeEnd`, and `Send` is the
blocking send behind it. A lost connection that the library makes again is a
message that does not reach a subscription (`Publish`). In memory a Publish
offers its message to one subscriber after the other while it holds the mutex
for reading, so that publishes overlap; `overlap` records which.

**LocalBlob.** One key, and calls that are each at some place between two
system calls. Writing a file is truncating it and filling it, each an action,
since a kill or a reader may come in between. `Drop` abandons a Rust call whose
write, once handed to the blocking pool, is carried out all the same; `Crash`
kills the process with all calls. `NoSuch` is a call taking a file for absent:
`Path::exists()` is false on any error of stat, and Go reads no metadata on any
error; `Overlook` is the same for the directories of a Rust list. Who so missed
a file that is there is in the history variable `blind`. A put or delete is
settled when it has returned without having overlapped another one that
mutates and without an error; the history variables keep what it should have
left, and for a reader which put or delete was settled when it began (`fixed`)
and which it has overlapped since (`rivals`). What it answers must be of
these.

**StoreHealth.** A setup gives the language and, for every contract, back end
and URL. `Serving` is the server that the code puts behind a contract, `Wanted`
the one that the configuration names. Servers are up, down or hung. An outage
leaves the clients with connections that are `broken` until they are replaced
(`Reconnect`), and other calls may hold every connection of a pool (`busy`;
`Exhaust`, `Release`). `Asking` is what a client can learn of a server: over a
broken connection an error too, and nothing while it hangs or no connection is
free; `WithTimeout` gives up then.
`Probe` is the answer of a back end, `Record` the instrumented wrapper setting
the gauge. Go combines statuses in the order they arrive, Rust in the order of
its vector. `wasUp` are the servers that were up at some moment of a check,
`wasOut` those that could not be reached at once at some moment of it.

**SortedSet, RustSortedSet.** A score is an integer in the order of
`total_cmp`, and `Value` gives the number the comparison operators see, or
`Nil` for NaN; two scores may have one value, as -0.0 and 0.0 do, and the NaNs
are at the ends of the order. The BTreeMap is a function from scores to
sequences of members; an entry is a place in it, and `Iteration` puts a finite
set of entries into the order in which the map is walked, by the number of
entries before each. `out` is the last call and its answer, which is what the
refinement compares. The order of members with equal scores is Go's map order,
so the abstract store allows any. `Disputed` are the listings on which the two
languages really differ (a limit of 0, an inverted range, a bound that
`total_cmp` and the operators place differently): the refinement leaves their
answer open. `RangeIsSound` is about every listing that does not panic and is
stated from `PRD.md:166`, in the order of the numbers; what it leaves open
(a limit of 0, a bound that is NaN, a zero of the other sign than a bound) is in
`RangeAsPromised`, which the code does not keep. The names of the
specification have `Set` in them (`SetInit`, `SetNext`, `SetSpec`), so that
`RustStoreProofs` can extend it together with `RustPubSub`.

## Runs

| Run | Result | What it shows |
|---|---|---|
| `go_breaker` | pass | Two goroutines, two calls of one and one of the other, one retry, threshold 2. The breaker implements `Breaker`; `ClosedBelowThreshold`; `HalfOpenHasTrial`; every ExecuteWithResilience returns. |
| `rust_breaker` | pass | With futures dropped anywhere: `OpenHasTimestamp`, `NotLeftClosed`. |
| `rust_deadlock` | violated | can_execute and on_failure take the two locks in opposite orders; both wait forever, and every later caller with them. |
| `migrate` | pass | Three instances, one with a shorter list, with failures, lost acknowledgements, late commits and one retry: `AppliedOnce`, `AppliedInOrder`, `SuccessMeansApplied`, and every Migrate returns. |
| `store_calls` | pass | Two calls of any operations of a contract, one retry, lost and late commands, both languages, server and memory: `RejectedHasNoEffect`, `TrueMeansCreated`, `ReadIsCurrent`, `SuccessHappened` (a call that succeeds was executed, in memory exactly once), `Accounted`, `EffectsAreMeasured` (in Go every attempt that took effect, also the second one of a retried Publish or Execute, is in the histogram, whatever the client library resends inside it). |
| `set_if_not_exists_false` | violated | A SetIfNotExists whose reply is lost is retried, finds its own key and returns false. |
| `pubsub` | pass | Redis and in memory: streams yield their channel's messages in order and once across unsubscribe and resubscribe, and what has reached the forwarder or the ring is delivered. |
| `pubsub_stream_ends` | violated | A stream whose forwarder has ended neither ends nor yields: the table still holds a sender. |
| `go_pubsub` | pass | Redis and in memory, two subscriptions that share a channel: `InOrderOnce` up to publishes that overlap, `UnsubscribeHolds` (nothing more of a channel after Unsubscribe), `Delivered`, and over Redis `StreamEnds` (a reader sees the end of its channel). |
| `local_blob` | pass | Three calls of any operations, failing, dropped and killed: `SettledIsStored` (an undisturbed put or delete leaves what it should, whatever was left before it), `ReadersSeeSettled` (a get or list sees nothing older than that, whatever it overlaps, and reports absence of what is stored only next to a delete or when it took an error for absence), `ProbeCleared` (a health check that returns has removed its probe file). |
| `store_health` | pass | Eleven configurations of both languages, two checks, a server that may be down at first, changes of servers, broken connections and pools that are used up: `ReadyMeansReachable`, `NoFalseAlarm` (only a server of its own that was out of reach makes a contract unhealthy), `GaugeShowsLatest`, and every check returns. |
| `sorted_set` | pass | Three members; the scores -1, -0.0, 0.0 and NaN, every range of them and the limits none, 0, 1 and 2: the two indexes agree (`IndexesAgree`), a listing shows what is between its bounds and within its limit (`RangeIsSound`), and the Rust store answers as the Go store may except on disputed listings (`ImplementsGo`). |

**Bounds.** Two tasks are enough for every ordering of two calls: a breaker
operation touches shared state only, and a third task adds no state a second
call of the other two does not produce. Three calls with one retry each give
six attempts against a threshold of 2, hence opening, probing, a failed and a
successful trial, and a failure recorded by a call admitted before the circuit
opened. `MaxCalls` is the bound on calls; the proofs have none. Migrate has two
versions, so that a failure can fall before, between and behind them, and three
callers, so that one may wait for a key while another's late COMMIT is decided.
`LocalBlob` needs three calls: one that is left half done, one that settles
over it and one that reads. `StoreHealth` needs two checks for gauges set out
of order. `MaxChanges` bounds the changes of servers and the pools that are
used up, for each setup: one falls before, between or behind any two probes,
and setups with one server have two, so that it goes away and comes back while
its connections are still broken. StoreCalls has two calls, of which either may
be over when the other starts, and one retry and one resend of a call
(`MaxRetries`, `MaxResends`), so that a late command meets the retry and the
resent copy of its own call, and the other call; the theorems are for any
number of these.
In pub/sub the capacity of 1 (1000 in the code) makes a stream lag at the
second message, and two forwarders allow one resubscription of a channel or two
channels at once. In `GoPubSub` buffers of 1 (100 and 1000 in the code) are full
with the first message, and two subscriptions, one over both channels, are
what Unsubscribe of one channel needs to close another's; which channels a
subscription asks for is a constant. The sorted set needs three members to have one moved between
two occupied scores, and -0.0, 0.0 and a NaN for the scores that `total_cmp`
and the operators tell apart; `BothKinds` of `MCRustSortedSet` says that the
run has disputed listings and others. The clock is not bounded: it is
three-valued.

**Symmetry** is used only in runs that check safety alone, for tasks or calls
that no action tells apart.

**Fairness.** A goroutine or task that can run runs (WF), because the Go and
tokio schedulers do not starve a runnable task and an attempt ends with its
timeout. Taking a lock is SF: `sync.RWMutex` and `tokio::sync::RwLock` queue
their waiters. In Migrate the server decides a transaction it was asked to
commit or whose client is gone. In pub/sub a forwarder with a message sends it
and a subscriber that has not left reads its stream. A health check's probes
run, and a probe of a remote server is over after its timeout (the local one
has none: `EveryCheckReturns` excepts a disk that hangs). Calls, cancellations, drops, failures,
connections and the clock are the environment's and have no fairness. The two
temporal violations are found under these assumptions: the deadlock is not a
task that is merely never scheduled.

## Proofs

The theorems hold for any set of tasks or callers and any values of the
constants that satisfy the `ASSUME`s of the module (a threshold and a retry
limit that are naturals; capacities that are not 0; a `None` outside the sets
it is added to; for the sorted set, an order of scores that refines that of
their values). Each proof module has the theorem `Inductive`, that the `IInv`
of its component holds always; `IInv` was first checked by TLC on the instance
of the run, and the other theorems follow from it. One lemma per conjunct of
`IInv` shows that the steps preserve it. (For the sorted set `Inductive` and
`IInv` are `AlwaysConsistent` and `Consistent`.)

- `GoResilienceProofs`: `TypeCorrect`, `TrialUnderWay` (`HalfOpenHasTrial`),
  `ClosedExactlyBelowThreshold`, `Refinement` (`ImplementsBreaker`). The
  inductive invariant `IInv` adds who holds the mutex (`MutexInv`) and what the
  holder has done so far (`CounterInv`): between `failureCount++` and the
  assignment of the state the breaker's own fields disagree, and only the
  holder's program counter tells how. The refinement maps OnSuccess to the
  step that stores the counter and OnFailure to the one that stamps the time;
  every other step is a stutter (`Stutters`, `StepRefines`).
- `RustResilienceProofs`: `TypeCorrect`, `OpenIsStamped` (`OpenHasTimestamp`),
  `NeverLeftClosed` (`NotLeftClosed`). `LockInv` gives the holders of the two
  locks, `TimeInv` that a task past the stamp has left one, `CounterInv` that
  whenever the counter is at the threshold and the circuit closed, or about to
  be closed by an on_success, some on_failure is on its way to open it. The
  case "about to be closed" is the strengthening: without it `SetClosed` breaks
  the invariant.
- `MigrateProofs`: `TypeCorrect`, `Idempotent` (`AppliedOnce`), `Ordered`
  (`AppliedInOrder`), `SuccessIsComplete` (`SuccessMeansApplied`). `KeyInv`
  says that a version with a transaction in progress is not recorded yet,
  `ClientInv` ties a client's place to the transaction it believes it has,
  `PassedInv` that everything before the loop index is recorded, and `OrderInv`
  that the same holds for transactions whose client has given up.
  `SchemaHasNoGap` draws the conclusion for a service whose releases each have
  a beginning of one list: the database is at every moment at a beginning of
  that list. Without the hypothesis it is false (two callers with different
  orders); `ReleasesOfOne` of `MCMigrate` has TLC evaluate it on the instance.

- `StoreCallsProofs`: `TypeCorrect`, `RejectionIsSafe` (`RejectedHasNoEffect`),
  `WinnerCreated` (`TrueMeansCreated`), `ReadsAreCurrent` (`ReadIsCurrent`),
  `SucceedsOnce` (`SuccessHappened`), `MetricsAddUp` (`Accounted`),
  `NothingUnmeasured` (`EffectsAreMeasured`).
  `SentInv` says that a call has nothing on the wire and nothing executed
  before it was admitted; `CreateInv` and `ReadInv` extend the two properties
  from what a call returned to the answer it holds, and `ReadInv` adds that
  while a read is under way the item's present value is among those it has
  seen. `RejectionIsSafe` rests on the breaker being asked once per call: if it
  were asked before each retry the theorem would fail (mutant `RetryAsks`).
  `OnceInv` says that an answer of success was executed, and that an in-memory
  command is executed in an attempt that then cannot fail, so that no retry
  follows it.
  `MeasuredInv` says of what may still be executed that it is measured already
  or that its attempt will come back to be; a late execution therefore changes
  no count. It counts attempts: a resent copy belongs to an attempt that is
there already. The sums are cardinalities: a sample moves exactly one call from
  those that wait to those that are counted.

- `RustStoreProofs`, pub/sub: `TypeCorrect`, `InOrder` (`InOrderOnce`). A channel may
  have several forwarders at once, since Unsubscribe leaves the old one
  running. `Carries` is the one channel of a ring; `TaskInv` says that a task
  sends into its own ring what its own channel was sent, `ChannelInv` that the
  table, the rings and the streams agree on the channel of a ring (from which it
  follows that a ring about to be handed out is empty), `QueueInv` that a ring
  followed by the feed of its task is increasing, and `GotInv` that what a
  stream has yielded lies in its ring behind its position.
- `RustStoreProofs`, sorted set: `SortedSetTyped` (`SetTypeOK`),
  `SortedSetIndexesAgree` (`IndexesAgree`), `SortedSetRangeIsSound`
  (`RangeIsSound`), `SortedSetImplementsGo` (`ImplementsGo`), for any members,
  scores, ranges and limits. `Consistent` says that a bucket is a non-empty
  sequence without repetition of just the members that have its score, and that
  the members are finitely many. What iteration, `retain` and `range` compute
  would be an induction over the map; `IterationFacts` replaces it by counting.
  The number of entries before an entry tells the entries apart and lies below
  their number, so by the pigeonhole principle every place of the sequence is
  taken, once, and in order. `RetainedFacts`, `UnlistedFacts` and `PushFacts`
  say from that what add and remove leave in a bucket; `AsManyEntries`, that a
  set of scores has as many entries as members, which is why remove_range
  counts as Go does. `StepImplementsGo` takes the operations one by one:
  `RangeIsListing` shows that an undisputed listing is one of those Go allows,
  and every other operation is Go's own with one map instead of two.
- `GoPubSubProofs`: `TypeCorrect`, `InOrder` (`InOrderOnce`), `UnsubscribeFinal`
  (the action property `UnsubscribeHolds`). Both rest on the lemma `StreamStep`:
  a step moves or drops messages on their way to a subscriber (`Thinned`), or
  gives it exactly one, by the server or by a Publish in memory that had still
  to offer it. `LinkInv` has what is left of a subscription that is not in the
  table: over Redis its connection is closed. `PublishInv` has why a late
  in-memory Publish is no exception: it holds the mutex, so whom it owes a
  message is still in the table, and whatever was published since has noted
  the overlap. `NumberInv` says that a message is not given before it is
  published, nor offered again.
- `LocalBlobProofs`: `TypeCorrect`, `Stored` (`SettledIsStored`),
  `ReadersCorrect` (`ReadersSeeSettled`), `ProbeRemoved` (`ProbeCleared`), for
  any number of calls. `OverlapInv`: two calls that mutate at once have spoilt
  each other, and while a result is settled nothing mutates. `StageInv`: what
  an unspoilt put or delete has achieved at each of its steps, so that it ends
  with both files right from any state. `ReaderInv`: while a reader is under way
  the files, and what it has read of them, are of the call that was settled when
  it began or of those it has overlapped since.
- `StoreHealthProofs`: `TypeCorrect`, `HealthyIsReachable`
  (`ReadyMeansReachable`), `AlarmHasCause` (`NoFalseAlarm`), `GaugesAreLatest`
  (`GaugeShowsLatest`), for any configurations, URLs and checks. The second and
  third have the hypothesis `Agreed(setup)`, that the configuration is served as
  written. Go makes no other store, so for Go it asks nothing; Rust also serves configurations with different Redis URLs, for
  which the theorems are false (see Findings). `SetupsAgree` of `MCStoreHealth`
  has TLC evaluate the hypothesis: the setups of the run satisfy it, those
  of the finding do not. `SeenInv` ties a probe's answer to the history of
  its server during the check, `OverallInv` the consolidated state to the
  statuses counted so far. `SeenInv` also has that a check has noted every server
  that cannot be reached, whichever of outage, broken connections and used-up
  pool it is.

Only model-checked is liveness (`EveryCallReturns`, `EveryMigrateReturns`,
`Delivered`, `StreamEnds`, `EveryCheckReturns`), which is out of the prover's
reach. Every invariant, action property and refinement of a passing run has its
theorem.

## Findings

Where code and documentation disagree, `PROJECT.json` has a finding with the
run that shows it: SetIfNotExists told false about its own write; the lock
order of the Rust breaker (a deadlock that stops all callers of a contract,
outside the operation timeout); a Rust subscription that stays silent after its
connection was lost. The models follow the code, so these behaviours are part
of them, and the other properties hold in their presence.

Further properties are defined in the modules and checked by no run; TLC finds
them violated by what the code does when they are added to a cfg:

- `GaugeShowsState` (`GoResilience`): the breaker's gauge is stored outside the
  lock, and an older reading may stay (`README.md:198`).
- `OpensOnlyAtThreshold` (`RustResilience`): on_failure opens the circuit on a
  count that an on_success has reset meanwhile (`PRD.md:229`).
- `MetadataIsOwn` (`LocalBlob`): an object put without metadata over one that
  had some is returned with the old metadata (`PRD.md:189`).
- `NoneMeansDeleted` (`LocalBlob`): an error of stat makes a Rust get answer
  that a stored object, or its metadata, is not there (`PRD.md:190`).
- `AppendsOnce` (`StoreCalls`): a Publish, Execute or Transaction whose reply is
  lost is retried or resent and takes effect twice
  (`adr/004-nats-as-pubsub-backend.md:41`).
- `RangeAsPromised` (`RustSortedSet`): a limit of 0 lists a member, NaN as a
  bound lists numbers, 0.0 as a bound loses -0.0, and an inverted range panics
  (`PRD.md:166`).
- `LocalCheckReturns` (`StoreHealth`): the local blob store's probe has no
  timeout (`PRD.md:291`).
- `ReadyMeansReachable` under `SplitSetups` of `MCStoreHealth`: with different
  Redis URLs, Rust serves all contracts from the first and reports the store
  healthy while the second is down.
`StreamEnds` of `GoPubSub` is about Redis only: the in-memory store forgets a
subscription on Unsubscribe and never closes its channel (`MemoryUnsubscribe`).

## Plan

Proofs that could follow: that `Migrate` implements an abstract log of
migrations appended atomically, and that the readings of `StoreHealth` implement
one check as a single step for a server that does not change meanwhile.

Modelling that is left: backoff arithmetic with its integer widths; keys of the
local blob store that alias metadata files; the pages of S3's list.

## Not modelled

Of the S3 blob store: the paging of list and the translation of metadata to
headers. Latencies, pool gauges and the labels of the metrics carry no protocol
state. Parsing of configuration files is plain deserialization. The protocol
definition (`proto/store.proto`) is not compiled into either package. Backoff
durations and jitter are abstracted to "the timer fires". The rows of a Go
Query are read after the call has returned, which the model of a call does not
reach. What SQL does inside a transaction, and everything inside Redis,
PostgreSQL and the file system, is external and modelled only by what the code
relies on.

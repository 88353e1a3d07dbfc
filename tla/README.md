# A TLA+ model of the BlueKing API Gateway operator

The operator (`src/`) copies the configuration of the API gateway's stages from
the etcd of the control plane ("apigw etcd") to the etcd that the data plane
reads ("APISIX etcd"). This directory holds TLA+ modules for the parts that do
so, TLC configurations that check them on small instances, and TLAPS proofs
for instances of any size. `PROJECT.json` ties every
definition to the source lines it stands for and lists the runs, the mutants
(small bugs each property must detect), the hazards and the theorems.

All paths below are relative to `src/`.

## 1. The system

```
 control plane's etcd                                        APISIX etcd
        | watch                                     watch per type |  ^ put, delete
        v                                                          v  |
 APIGWEtcdRegistry --retCh--> EventAgent --commitResourceChan--> Committer
 (registry/apigw.go)          (agent.go)                     (committer.go)
        ^                       |   ^                          |    |   |
        |                Update |   | due                Sync  |    |   | retry: Update
        |                       v   |                          v    |   v
        |                     ReleaseTimer <-------------------|----|---+
        |                     (timer.go)                       |    v
        +---- ListStageResources, per commit ------------------+  Synchronizer -> ApisixEtcdStore
                                                               |  (flushMux)      (differ, registries)
                                                               v
                                                    EventReporter -> core API
                                                    version probe -> APISIX
```

| component | source | state it keeps | operations | talks to |
|---|---|---|---|---|
| event agent | `pkg/core/agent/agent.go` | the watch channel it selects on | `Run`, `handleEvent`, `handleTicker`, `createWatchChannel` | takes events of the control plane registry, calls the timer, blocks on the commit channel; stops at the end of the leader's session |
| release timer | `pkg/core/agent/timer` | a `sync.Map` of pointers to `CacheTimer` | `Update`, `ListReleaseForCommit` | the agent and the committer's retries, without a lock |
| committer | `pkg/core/committer` | commit channel, one channel of capacity 1 per gateway | `Run`, `commitGroup`, `commitGatewayStage`, `commitStage`, `commitGlobalResource`, `retryStage`, `CleanupGatewayChannel` | lists the control plane, calls the synchronizer, the reporter and the timer |
| synchronizer | `pkg/core/synchronizer` | `flushMux` | `Sync`, `SyncGlobal`, `MakeConfiguration` of the virtual stage | the store |
| APISIX etcd store | `pkg/core/store` | one registry per resource type | `Init`, `Get`, `GetGlobal`, `Alter`, `AlterGlobal`, batches of puts and deletes | the differ, the registries' caches, etcd |
| config differ | `pkg/core/differ` | none | `Diff`, `DiffGlobal` | |
| APISIX registry | `pkg/core/registry/apisix.go` | cache of one type, revision, watch channel | `fullSync`, `incrSync`, `handlerEvent` | APISIX etcd |
| control plane registry | `pkg/core/registry/apigw.go` | revision, watch channel | `Watch`, the listings and other queries | apigw etcd, the agent |
| event reporter | `pkg/eventreporter` | queue, pool of posting goroutines, pool of probes | `addEvent`, `reportEvent`, `ReportLoadConfigurationResultEvent`, `Shutdown` | core API, version client |
| APISIX version client | `pkg/client/apisix.go` | `retry.Evaluator`, a variable of a package | `GetReleaseVersion`, `retryEvaluator` | APISIX |
| leader election | `pkg/leaderelection` | session, election, `leadingCh`, `closeCh` | `Run`, `elect`, `checkLeadership`, `WaitForLeading` | etcd, the runner, the agent |
| runner, start and stop | `pkg/core/runner`, `cmd` | the root context | start in order, stop by signal | all |
| validator | `pkg/core/validator`, `pkg/utils/schema` | none | `ValidateApisixJsonSchema` | called by the listings |
| HTTP API | `pkg/apis`, `pkg/biz` | none | queries of both sides | the control plane registry, the caches of the store |
| configuration, metrics, logging, tracing, utilities | `pkg/config`, `pkg/metric`, ... | | | |

### What is hard in it

* *Two copies that lag.* The store diffs against a cache fed by watches, and
  APISIX acts on what its own watches have brought it. A route and the service
  it names are on different watches.
* *Watches that break.* Both registries resume from a cached revision, and
  both have a path for a compaction. A value that lacks its labels, or a deletion
  whose old value is compacted, panics in a goroutine that nobody recovers.
* *Goroutines without a common lock.* The timer's map is shared by the agent
  and the retries; `retry.Evaluator` is shared by all probes; `WaitForLeading`
  reads a channel that `initElection` replaces.
* *Slots that are handed on.* A commit takes the slot of its gateway and may
  pass it to a version probe that outlives the commit's group; panics, errors
  and timeouts all have to leave it free.
* *Everyone waits for everyone.* Agent, committer, gateway slots, probes and the
  reporter's queue block on bounded channels. A commit and a probe wait for a
  place in the event queue with the gateway's slot in hand, and the queue empties
  only as fast as the core API answers.
* *Ids that nothing ties together.* A listing holds routes and services by the
  ids in their values, not by their keys.
* *Half-done work.* Alters fail or die between two keys; commits are retried
  through the timer; the process restarts.

### What makes each part correct

* timer: no update is forgotten, a stage that changes all the time is still
  committed, the release that labels a commit is the newest;
* pipeline: stages of a gateway are committed one at a time, a slot is always
  given back, a change is on its way until it is applied or given up, APISIX
  only moves forward, errors within the retry limit lose nothing;
* store: never a route without its service, nothing wanted or foreign removed,
  success means applied, no needless writes, the built-in routes stay;
* registries: the cache is one state of etcd, nothing is skipped when a watch
  is made anew, the cache catches up;
* election: one acting leader, a leader that loses its session stops, there is
  a leader in the end;
* probe and reporter: success is reported only of what was loaded, every probe
  ends with one verdict, an event is posted once, a shutdown flushes the queue,
  whoever waits to send to it gets a place in the end;
* listings: complete and sound, or an error.

Most of these hold under conditions. Where the code breaks one the property says
so in its own text (a disjunct, an excuse, "from the last new watch on"), and
section 6 collects them.

`PROJECT.json` lists the hazards one by one with their lines and the
properties that look at them; those without one have a note.

## 2. The modules

| module | models | notes |
|---|---|---|
| `ConfigDiffer` | `differ/diff.go` | operators: what to put, what to delete |
| `VirtualStage` | `synchronizer/virtual_stage.go` | extends `ConfigDiffer`: extra file and built-in routes |
| `ApisixStore` | `store/store.go`, `synchronizer.go` | extends `VirtualStage`: `Alter` key by key over etcd, cache and data plane |
| `StageStore` | | abstract: what an Alter promises its callers; `CommitPipeline` makes one step of an Alter |
| `ReleaseTimer` | `agent/timer/timer.go` | single map operations of the agent and the retries |
| `CommitPipeline` | `agent.go`, `committer.go`, `synchronizer.go`, slots of `reporter.go` | composition of agent, timer, committer, gateway slots and probes; instantiates `EventQueue` |
| `StageSync` | | abstract: what the pipeline promises |
| `EtcdLog` | external | etcd as its watchers see it: history, compaction |
| `ApisixRegistry` | `registry/apisix.go` | extends `EtcdLog` |
| `LaggingView` | | abstract: what a registry's cache promises of the keys in `Copied`; `ApisixStore` uses its caches as such views |
| `ApigwWatch` | `Watch` of `registry/apigw.go`, the agent's side of it | extends `EtcdLog` |
| `ResourceValidator` | `core/validator`, `utils/schema`, `NodesFormat`, `ToXVersion` | operators: which value may go to APISIX |
| `StageListing` | the listings of `registry/apigw.go` | extends `ResourceValidator`: what a commit takes for a stage's configuration |
| `LeaderElection` | `leaderelection/etcd_election.go`, `runner/etcd.go` | with an external model of sessions and campaign keys |
| `VersionProbe` | `ReportLoadConfigurationResultEvent`, `client/apisix.go` | instantiates `EventQueue` |
| `EventReporter` | the queue of `eventreporter/reporter.go`, `cmd/init.go`, `cmd/root.go` | implements `EventQueue` |
| `EventQueue` | | abstract: the event queue as its senders meet it |
| `MC*` | | instances for TLC |
| `CommitPipeline_proofs`, `ApisixStore_proofs`, `ReleaseTimer_proofs`, `ApisixRegistry_proofs`, `LeaderElection_proofs`, `VersionProbe_proofs`, `EventReporter_proofs` | | theorems about the module of that name |
| `ApigwRegistry_proofs` | | theorems about `ApigwWatch` and `StageListing` |

A definition that starts with "mutant" in its comment is not part of the model:
it is a form of the definition after it with a plausible bug.

### How state and actions correspond to the code

**`CommitPipeline`.** A configuration is its version number: `written` is the
version in the control plane, `synced` the one last applied. `watch`, `timer`,
`outbox`, `commitChan` and `batch` are the agent's channel, the timer, the list
`handleTicker` is sending, `commitResourceChan` and what `Run` has left of a
list after the segments it has cut off. `job[k]` is the goroutine of a key:
`lock` (find or make the gateway's channel), `enter` (send into it), `list`
(read the control plane), `flush` (wait for `flushMux`), `alter`, then `report`
or, after an error, `release`. `dead` is the global commit that has panicked:
its `wg.Done` is the last statement and not deferred (`committer.go:150`), so
the group never ends. `token` is the set of gateway channels whose one buffer
place is taken; `probes` are the version probes, which free the slot of the
commit they were started by. Channels have an identity, because
`CleanupGatewayChannel` (which has no caller at this commit) forgets one while a
commit may still hold it. `due` and `settled` are history: the version of the
last event that asks for a commit, and the version up to which changes are
applied or given up (given up is a change whose commit failed for the last time,
or panicked: nothing retries after a panic). Time is left out: any non-empty set
of waiting keys may be due at a tick.

`queue` is the reporter's event queue. A commit that is to be reported sends to it
before it lists (`ReportParseConfigurationDoingEvent`), before it syncs, and after
an error, when the info is in the timer again and before the slot is given back;
`CanReport` guards the step that follows each send. A probe that ends in an error
or a timeout has to send that verdict (`verdict`) before it gives back its slot
(`release`).

**`EventQueue`.** `open`, `full`, or `clogged`: full for good. Several events may
go in and out while it is `open`, and a send by a commit or a probe does not tell
whether it took the last place: that is `Fill`, at any time. `EventReporter`
implements it under the mapping `QueueState`: full is a channel with no place
left, clogged one whose forwarder holds an event for a pool that is full of
requests which hang, or the end of the process. That is checked with fairness
(`QueueRefines`), and proved without (`ReporterRefinesQueue`), and it is what the
fairness of `Take` in the two modules that instantiate `EventQueue` rests on.
Sends after `Shutdown`, on the closed queue, are in `EventReporter` only.

**`ReleaseTimer`.** `entry` is the map from keys to object addresses, `heap`
the objects. `Update` is `LoadMiss`/`LoadHit`, `Change`, `Store`;
`ListReleaseForCommit` is `Pick`, `Gather`, `Delete` per key. The object is
changed in place, so a retry can change what a listing is reading. The clock
ticks only between these operations (windows are seconds). Keys do not
influence each other.

**`ApisixStore`.** `etcd` is the newest state, `view["registry"]` the cache and
`view["dataplane"]` what APISIX has seen, with `feed` the writes on their way,
per type. `job` is the `Alter` under `flushMux`: `Begin` diffs against the
cache, then the phases of `StagePlan` or `GlobalPlan` run key by key in any
order. `FailPut` and `FailDelete` end the Alter; the request may have been
applied. `Restart` rebuilds the cache and drops the job. `SyncGlobal` goes on to
the virtual stage under the same lock (`Finish`), with an extra file that holds
any of `ExtraFiles` each time it is read.

**`ApisixRegistry` and `ApigwWatch`.** `pc` is where the goroutine is. A
response is handled event by event. The cache goroutine of APISIX resumes from
the revision of its last response's header. That repeats the response's last
event, or, if etcd had cut the response short and its header is ahead of its
events (`HeaderOf`), passes over the events in between; `stale` and `passed` are
the history of that. After a compaction it syncs fully, and if that fails it
goes on with the dead channel. The control plane's watch caches the header revision with the first
supported event of a response, starts from now on when it has none, and after a
compaction closes its channel, whereupon the agent calls `Watch` again. A
deletion whose old value is compacted (`PrevKv` is nil) panics in either, a value
without labels in the control plane's watch or in the agent, by its kind; the
process ends and the next one starts, with a full sync there and from now on
here. Keys of `Metadata` are global plugin metadata, those of `Releases`
`_bk_release` keys, whose deletion the agent looks into as well, the others
resources of stages. The agent is taken to come back to its `select`: what may
keep it from that, a full commit channel, is in `CommitPipeline`.

**`LeaderElection`.** Sessions and channels have generations. `elect` is the
goroutine of `elect` and `checkLeadership`, `main` that of `runner.Run`, which
calls `WaitForLeading` once. Keys and leases are etcd's. A process that ends is
started again by its environment (`Start`).

**`VersionProbe`.** The inner goroutine sets the evaluator, makes the request
with the evaluator of the moment, and judges each answer by it; the outer one
waits for the result or the timeout, sends its verdict to the event queue if that
is a failure (`failing`, until it is in), and then runs the deferred functions.
The slot is given back by the outer one, so that an inner goroutine may live on
after it. `errChan` is closed by the outer one, and a send on it after that panics
under `GoroutineWithRecovery`. What becomes of a request is what the code makes of
it: the evaluator's error only says whether to ask again; when the retries are
used up, `Send` fails only if the last request had no answer (`StopsOn`), and
otherwise `*retryError` decides, which a status of 5xx or 429 does not set. It is
the variable of the probe whose closure the request has, as is the answer that the
closure judges (`Judged`).

**`EventReporter`.** Producers, queue, forwarder, pool of posting goroutines,
the shutdown hook, and the two ways the process ends. A request may hang
(`Hang`), as the client sets no timeout.

**`ResourceValidator`** has the checks in their order: the schema's version, the
resource's schema, `checkConf`, then the plugins. What a JSON schema says of one
value is data (`fits`, the verdict on a plugin); what the code adds to it is
modelled: `checkUpstream`, the keys of consistent hashing, the variables, which
plugins need a schema, and a loop over the plugins in any order (a Go map).

**`StageListing`.** Keys are records, names are sequences, so that a query is
one for a prefix, as in the code. State is the control plane's etcd; the listings
of a commit are pure operators on it. A value has an id of its own, which is that
of its key (`SameId`), another one or none. A listing goes through the keys in the
order in which etcd returns them (`Rank`) and fills maps from those ids to routes
and services, so that of several with one id the last stays (`ById`). A value
without labels is a nil pointer to `ValueToStageResource`: the commit panics, and
there is no listing either (`Failed`).

## 3. The runs

`tlc -config X.cfg M`, for M and X as in the table. "mutant" runs are those of
`PROJECT.json`: for every property one definition is replaced by its mutant and
TLC has to report the property.

| run | module, cfg | distinct states | properties |
|---|---|---|---|
| `store` | `MCApisixStore` | 271 k | `RefIntegrity`, `KeepsWanted`, `NoNeedlessWrite`, `Refines` |
| `timer` | `MCReleaseTimer` | 58 k | `NoUpdateForgotten`, `WaitIsBounded`, `NewestRelease`, `EveryUpdateListed`, no deadlock |
| `commit` | `MCCommitPipeline` | 2.6 M | `SerialPerGateway`, `NoLeakedSlot`, `ChangesNotLost`, `Refines` |
| `commit_live` | `MCCommitPipeline_live.cfg` | 96 k | `NothingGivenUp`, `EveryChangeSettled` |
| `registry` | `MCApisixRegistry` | 1.8 M | `CacheIsOneState`, `WatchMeetsCache`, `Refines`, `CatchesUp` |
| `watch` | `MCApigwWatch` | 1.7 M | `NoEventSkipped`, `OrderKept`, `EveryEventTaken` |
| `watch_lost` | `MCApigwWatch_lost.cfg` | | `NothingLost` is violated |
| `election` | `MCLeaderElection` | 27 k | `AtMostOneLeader`, `StopsOnLoss`, `ElectionCompletes` |
| `probe` | `MCVersionProbe` | 606 k | `WrongHasCause`, `OneVerdict`, `EveryProbeEnds` |
| `probe_race` | `MCVersionProbe_race.cfg` | | `SuccessMeansLoaded` is violated |
| `reporter` | `MCEventReporter` | 102 k | `PostedOnce`, `FlushedBeforeExit`, `EveryEventPosted`, `QueueRefines` |
| `listing` | `MCStageListing` | 671 k | `CompleteOrError` |

Each passing run but `commit_live` and `listing` also checks the `TypeOK` of
its module. `CHECK_DEADLOCK FALSE` stands in every cfg but that of the timer,
because there the changes, errors and events are bounded and the system stops
when they are used up; in `VersionProbe` and `EventReporter` it stops by design.
In the timer every state has a step, and TLC checks that.

### What the runs show, and their bounds

* **store.** One stage whose route moves between two services, the virtual
  stage with one built-in route, and one plugin metadata; resources that change
  in `spec` or only in bookkeeping (`meta`); three Alters, one error, one
  crash. Three Alters are enough for: set up, an Alter broken in any place,
  one that repairs it. `KeepsWanted` has two parts: nothing of another owner and
  nothing wanted goes, and the built-in routes stay whatever the extra file says;
  each part has a mutant. `Refines` is the refinement of `StageStore`: an Alter
  moves its owner's resources, one at a time, towards what is wanted, may break
  off anywhere, and ends without an error only when it has brought them there.
  Two named assumptions: `RegistryInTime` (the cache has caught up when an Alter
  begins) and `SleepCovers` (the two sleeps of an Alter, `putInterval` and
  `delInterval`, outlast the lag of the data plane). The code ensures neither;
  see section 6.
* **timer.** One key (keys are independent), three objects, windows of 2 and 4
  clock units, releases told apart modulo 2, any number of events and retries.
  A second key in the liveness run would allow one key's retries to fail
  infinitely often in no time, which no real commit does.
* **commit.** Two stages of one gateway and the global resources, channel of
  one, segments of two, one probe, three events, one error, one retry, a panic of
  a stage and a cleanup, and an event queue that may fill up, empty and clog at
  any time. Two stages are what it takes to compete for a slot; three events let a
  change arrive before, during and after a commit of its stage while another
  waits. A panic of the global commit is in `commit_live`.
* **commit_live.** Two events, three errors and two retries: retries are used
  up and are not. A panic of a stage must not stop the committer. A panic of the
  global commit does (`CommitterStuck`), and so does a queue that is clogged, with
  commits and probes waiting at it; both are in the run. They, and a cleanup
  during a commit, which is in the first run only as nothing calls it, are the
  only excuses of `EveryChangeSettled`.
* **registry.** Two keys, one of which may hold values that cannot be parsed;
  four writes, a compaction, two failures, one crash besides the panics. Four
  writes are enough for a response cut short, a watch made anew behind it and a
  write after that. The refinement to `LaggingView` is for the keys whose values
  can be parsed and whose last write was not passed over.
* **watch.** A stage's key, its release, a plugin metadata and an ignored key,
  values with and without labels, three writes, a compaction, two failures, channel of two.
  `NoEventSkipped` and `EveryEventTaken` count from the last watch that was made
  from now on, which is what the code does, and leave out what a header ahead of
  its events passes over (`passed`); `watch_lost` shows the gap before it.
* **election.** Two instances and two troubles (lost session, error of etcd,
  signal or crash, in any combination); three troubles were explored too (439 k
  states, no error). `AtMostOneLeader` and `StopsOnLoss` speak of agents that
  hold the `closeCh` of the session they waited for, and `ElectionCompletes` has
  the case of expired sessions as an alternative; section 6 says why.
* **probe.** Two publications, one slot, one retry, all five kinds of answers.
  Success is wrong only when two requests share a closure, or the last answer was
  5xx or 429, or the status was unknown. The mixing needs only one slot, as the
  inner goroutine outlives it. `OneVerdict`: one, but for the case that the answer
  and the timeout meet, in which failure and success are both sent.
  `EveryProbeEnds` asks nothing once the event queue is clogged. `probe_race` has
  two slots and answers that tell the version or ask for a retry only.
* **reporter.** Three producers with two events each, queue and pool of two: both
  fill up. Two requests may hang, which is what it takes to fill the pool with
  them and then to clog the queue. `QueueRefines` is the refinement of `EventQueue`
  with its fairness. The signal, the hook's timeout and the end of the process may
  come at any time.
* **listing.** Two stages one of whose names is a prefix of the other's, two
  ids in the same relation; for each kind the values the validator tells apart,
  each breaking one check, or with an inner plugin beside a faulty one, and values
  without labels, without an id or with the id of another key; at most three keys,
  enough for a good and a bad one, for two of one stage that share an id beside a
  third, and for both stages.
  `CompleteOrError` has two mutants, one in the listing and one in the validator.
  It is not the plain "every route of the stage or an error": that is false in the
  code (section 6), and the property says what a listing leaves out and what not.

## 4. Fairness

* `CommitPipeline`: weak fairness of agent, sends, committer and probes, which
  are goroutines that go on when they can. Strong fairness of a tick for each key
  (Go's `select` picks at random among ready channels, so a ticker is not
  starved by events, and the timer gives every key in the end, as
  `EveryUpdateListed` shows), and of the steps of each key's commit and of the
  probes (channel sends, to the event queue as to a gateway's channel, and mutexes
  are first come first served in Go's runtime). A probe ends because it has a
  timeout (`EveryProbeEnds`). A queue that is full gets a place free (weak fairness
  of `QueueTake`) unless it gets clogged first, as `QueueRefines` shows of the
  reporter; no step frees a clogged queue, and nothing is said of the commits and
  probes at it. Errors, panics, changes, and the filling and clogging of the queue
  are never fair.
* `ReleaseTimer`: weak fairness of the goroutines' steps, strong fairness of
  listing and clock for the same reasons.
* `ApisixRegistry`, `ApigwWatch`: weak fairness of the goroutine and the agent;
  none of etcd's writes, failures or compactions. That the agent goes on rests on
  the pipeline: it can be blocked at the commit channel (`agent.go:108`, `165`) for
  as long as the committer is, and for good in the two cases and with the clogged
  queue that `EveryChangeSettled` names. The same goes for `EveryUpdateListed` of
  the timer and `StopsOnLoss` of the election.
* `LeaderElection`: weak fairness of both goroutines, of lease expiry, of
  `session.Done()` and of the environment that starts processes.
* `VersionProbe`: none of the answers, as requests have no timeout; the timeout
  of the outer goroutine is fair. Strong fairness of taking a slot and of the sends
  to the event queue (FIFO), weak fairness of `QueueTake` as above.
* `EventReporter`: weak fairness of the goroutines. A request to the core API
  either ends or hangs (`pkg/client/core_api.go:85` sets no timeout);
  `EveryEventPosted` asks nothing once hung requests fill the pool.
* `StageListing` has no liveness.

## 5. What is proved

The theorems hold for all values of the constants that meet the `ASSUME`s of
the module: any number of stages, keys, instances, producers, probes, values,
writes, errors and crashes, and any size of a channel or a bound. The
assumptions are that sizes are naturals (and positive where the code makes a
channel of them or divides by them), that `Nil`, `None` and the like are not
values, that some constant sets lie within others (`Unparsed` in `Values`,
`Bare` in `Values`, the built-in routes among the ids of the virtual stage), and
what section 2 says of the data: a resource carries the label of one owner, and a
route names a service of the configuration it comes with (`OwnerAssumption`,
`ConfigAssumption`). Four theorems of `ApisixStore` have hypotheses besides; they
are named in the table.

| theorem | of | statement |
|---|---|---|
| `PipelineTypeOK`, `PipelineNoLeakedSlot`, `PipelineChangesNotLost`, `PipelineNothingGivenUp`, `PipelineSerialPerGateway` | `CommitPipeline` | `Spec => []TypeOK` and so on |
| `PipelineRefines` | `CommitPipeline` | `Spec => Refines`, that is `StageSync!Spec` |
| `PipelineNeverWedged` | `CommitPipeline` | `Spec => []NeverWedged`: commits, probes and the event queue never wait in a circle |
| `StoreTypeOK`, `StoreKeepsWanted` | `ApisixStore` | `Spec => []TypeOK`, `Spec => KeepsWanted`, an action property |
| `StoreSuccessMeansApplied`, `StoreNoNeedlessWrite` | `ApisixStore` | if `RegistryInTime`: `Spec => []SuccessMeansApplied`, `Spec => NoNeedlessWrite` |
| `StoreRefines` | `ApisixStore` | if `RegistryInTime`: `Spec => Refines`, that is `StageStore!Spec` |
| `StoreMovesOnly` | `ApisixStore` | `Spec => [][Entries(etcd)' # Entries(etcd) => Promise!Move]_vars` |
| `StoreCopiesLag` | `ApisixStore` | for each view and type: `Spec => LaggingView!Spec` |
| `DiffIsEnough`, `DiffIsMinimal`, `BuiltinsAlways` | `ConfigDiffer`, `VirtualStage` | what the comparison and the virtual stage's configuration promise, for all configurations |
| `StoreRefIntegrity` | `ApisixStore` | if `RegistryInTime` and `SleepCovers`: `Spec => []RefIntegrity` |
| `TimerTypeOK`, `TimerNoUpdateForgotten`, `TimerWaitIsBounded`, `TimerNewestRelease` | `ReleaseTimer` | `Spec => []NoUpdateForgotten` and so on |
| `RegistryTypeOK`, `RegistryCacheIsOneState`, `RegistryWatchMeetsCache` | `ApisixRegistry` | `Spec => []CacheIsOneState` and so on |
| `RegistryRefines` | `ApisixRegistry` | `Spec => Refines`, that is `LaggingView!Spec` |
| `RegistryCaughtUp` | `ApisixRegistry` | `Spec => []CaughtUp`: with all events seen the cache is what etcd holds |
| `ApigwTypeOK`, `ApigwNoEventSkipped`, `ApigwOrderKept` | `ApigwWatch` | `Spec => []NoEventSkipped`, `Spec => OrderKept`, an action property |
| `ListingCompleteOrError` | `StageListing` | `ListingSpec => []CompleteOrError` |
| `ElectionTypeOK`, `ElectionAtMostOneLeader`, `ElectionWatched` | `LeaderElection` | `Spec => []AtMostOneLeader`, `Spec => []Watched` and so on |
| `ElectionNoWayBack` | `LeaderElection` | `Spec => NoWayBack`, an action property |
| `ProbeTypeOK`, `ProbeWrongHasCause`, `ProbeOneVerdict` | `VersionProbe` | `Spec => []OneVerdict` and so on |
| `ReporterTypeOK`, `ReporterPostedOnce`, `ReporterFlushed`, `ReporterNeverWedged` | `EventReporter` | `Spec => []PostedOnce` and so on |
| `ReporterRefinesQueue` | `EventReporter` | `Spec => AbstractQueue!Spec`, that is `EventQueue!Spec` under `QueueState` |

Each module `X_proofs` extends `X`; `ApigwRegistry_proofs` extends both
`ApigwWatch` and `StageListing`, the two halves of one source file.

Every safety property the runs check is among them. Few are inductive; the
arguments, with the names of the strengthenings:

**`CommitPipeline`.**

* *No leaked slot* is inductive with `TypeOK`: every action that puts a token
  into a channel puts its key into the jobs that hold one, and a job gives up
  its place only with the token or to a probe. It needs no assumption on
  cleanups, as these only take tokens away.
* *Changes are not lost.* `ChangesNotLost` alone is not inductive: a commit that
  has read its configuration may end with `due` ahead of it. The strengthening
  says that versions in events and in `due` are not ahead of `written`
  (`VersionInv`), that an entry of the timer carries its own key (`TimerInv`, or
  what is taken for one key would be queued for another), and that an event which
  came after a commit had begun has a commit of its own ahead (`BeganInv`), which
  is what makes it right to count a change as given up when its commit is.
* *Nothing given up.* An info is retried only after an error, so that wherever
  one is, it counts no more retries than there were errors (`RetryInv`).
* *Serial per gateway.* While no channel was cleaned up, a gateway has one
  channel which all its commits and probes use (`ChannelInv`), and the token of
  that channel belongs to exactly one of them (`TokenInv` and the statement
  itself). `CleanupsGrow` carries "no cleanup so far" through the induction.
  With a cleanup the statement is false, and the property says so.
* *Never wedged.* A commit that waits for its gateway's slot waits for the one
  whose token it is, which by *no leaked slot* is a commit past its entry or a
  probe; that one can go on, or waits for `flushMux`, whose holder can, or for a
  place among the probes, each of which ends, or for one in the event queue. There
  a send goes on when the queue is open, and when it is full the reporter's take is
  to come (`SomeoneReady`). So there is no circle. The theorem's excuses are those
  of `EveryChangeSettled`: the two of `CommitterStuck` and the clogged queue.
* *Refinement.* `SnapInv`: what a commit has read is not older than what was
  applied and not newer than what was written. It is inductive because a key has
  one commit at a time and no other one applies to it. Each step is then a write,
  a `SyncTo` or a stutter of `StageSync`.

**`ApisixStore`.**

* `IndInv` needs no hypothesis. A view and the feed on its way to it make up
  what is in etcd (`LagInv`, by the last change of each id); a job still has to
  write only what it wants and to remove only what is its owner's and unwanted,
  and the phases behind it are done (`JobInv`); the built-in routes are as they
  were built in (`BuiltinInv`), because the virtual stage's configuration holds
  them whatever the extra file says. `KeepsWanted` is a step of that.
* *Success means applied, no needless write.* With `RegistryInTime` the diff of
  `Begin` is one against etcd, which gives `TimeInv`: what differs in etcd from
  what is wanted is in `put`, what is unwanted is in `del`, and nothing else is.
  When the plan is through, both are empty.
* *Refinement of `StageStore`.* Seen as the set of its entries (type, id and what
  APISIX acts on), etcd changes only by a put or a deletion. By `JobInv` alone,
  and so however far the cache lags, each is a `Move` of the Alter in progress
  (`StoreMovesOnly`). That an Alter is through only when it has arrived takes
  `TimeInv`, hence the hypothesis of `StoreRefines`. `CommitPipeline` has an Alter
  in one step that sets `synced`; this theorem is what that step stands for.
* *The copies.* Of the cache and of the data plane `ApisixStore` assumes that each
  is brought the writes of its type in their order, or all at once
  (`StoreCopiesLag`), which is what `RegistryRefines` proves of the registry.
* *The comparison.* What `Diff` and `DiffGlobal` say is enough to bring any
  configuration to any other (`DiffIsEnough`), and no less is (`DiffIsMinimal`).
* *No route without its service*, in etcd or in the data plane. `NamedInv`:
  a service that a route names, be it in etcd, in the data plane or on its way
  there, is in etcd and stays in the data plane, which means that it is there and
  nothing on its way takes it out (`Stays`). A route names only services of its
  own owner (`OwnInv`), so an Alter of another owner does not matter. `SleepInv`
  carries what the two intervals have waited for: after the first, the services
  of the configuration stay in the data plane, and so a route may be put; after
  the second, no old route is on its way to the data plane, and so a service may
  be deleted. The proof fails, as does the run, when either interval is missing,
  and an Alter that breaks off or a crash at any key leaves `NamedInv` intact.

**The registries.** For `ApisixRegistry`, the state of etcd is what its log says
(`LogInv`), the place where a watch goes on and the response in hand fit
together (`WatchInv`), and the cache is the state at the place `pos`, key by key,
except for keys passed over (`CacheInv`). `RegistryRefines` then maps each step to
one of `LaggingView`: an event that is handled is a `Deliver` of one or more
events of the feed, a full sync is a `FullSync`. This is what entitles
`ApisixStore` to treat a cache as a view with a feed. For `ApigwWatch`, events sent are in order and
neither the cached revision nor the watch lies before one of them (`OrderInv`);
before the position all supported events have been sent, and before the cached
revision all but those in hand or cut off (`GoneInv`). `OrderKept` follows from
`OrderInv`, `NoEventSkipped` from `GoneInv`.

**`StageListing`.** That a query for a prefix finds the keys of one stage only,
though one name may be the beginning of another, is a lemma on sequences
(`PrefixStage`). The invariant is that a key of etcd has one value (`KeysOK`). Of
several routes with one id the listing holds one, which is the last in the order
of etcd (`LastStands`, by the least number of keys that come after one; `MapIs`),
and `ListingIs` says with that what a listing without an error is. `AcceptedFits`:
an order of the plugins that lets a value through has looked at each of them.

**`ReleaseTimer`.** A goroutine that holds an object for a waiting key holds the
one in the map, and a waiting key's object is at least as old as its wait
(`AgeInv`). Two keys never share an object (`Own`), so that what is written for
one is not listed for another; and the newest release is wherever the agent has
got with it (`NewInv`), for keys that no retry writes.

**`LeaderElection`.** Creation revisions are those the instances remember and no
two keys have the same (`KeyInv`), a session that is kept alive has its lease and
its key (`LeaseInv`), and no key is older than a leader's (`LeaderInv`). Two
leaders with leases would then have the same key. That a leader stops on the loss
of its session is liveness; what can be proved is that it has a goroutine that
waits for the loss and closes the very channel it acts on (`Watched`), and that an
agent that is told to stop, or has lost its session, does not get back into office
(`NoWayBack`), for which the generations of channels are compared (`HeldInv`).

**`VersionProbe`.** `VerdictInv` has, for each pair of places of the two
goroutines, what has been sent and what is in `errChan`; `HeardInv` has why a
probe that is about to report success may: alone with its closure, and with a last
answer that is neither 5xx, 429 nor unknown, its `*retryError` is what that answer
left there. The number of probes under way is that of the slots taken.

**`EventReporter`.** The queue is in the order of each producer, and an added
event is waiting or has been handed out once, none of a producer's after an
earlier one of it that waits (`CountInv`); the forwarder leaves only a queue that
is closed and empty (`StopInv`). As many slots are taken as requests are under way
(`SlotInv`), so that of a full pool one request ends, or hung ones have filled it
(`NeverWedged`). A request that hangs keeps its slot (`HungInv`): once all slots are
those of hung requests and the forwarder has an event in hand, no step of the
forwarder or of a request is possible, and a full queue stays full
(`CloggedStays`). Every other step fills, takes or clogs the queue or is not seen
by its senders, which is `ReporterRefinesQueue`.

Model-checked only: liveness (`EveryChangeSettled`, `EveryUpdateListed`,
`CatchesUp`, `EveryEventTaken`, `StopsOnLoss`, `ElectionCompletes`,
`EveryProbeEnds`, `EveryEventPosted`), because fairness and `ENABLED` are out of
the prover's reach. The safety half of four of them is proved
(`PipelineNeverWedged`, `RegistryCaughtUp`, `ElectionWatched` with
`ElectionNoWayBack`, `ReporterNeverWedged`): that the step which must come is
there to be taken, or has come, though not that it is taken. The two
statements that are violated are counterexamples and need no proof.

## 6. What the model found

Two statements of the repository are refuted by a run:

* `watch_lost`: after a compaction the control plane's watch logs "need full
  sync to recover" (`pkg/core/registry/apigw.go:142`), and nothing syncs.
* `probe_race`: two version probes share `retry.Evaluator`
  (`pkg/client/apisix.go:100`), and success is reported of a stage whose version
  is too old, contrary to the comment at line 162.

Other behaviours that the model has and that a reader should know of. No text of
the repository promises the contrary, so they are conditions in the properties
or assumptions rather than findings:

* An Alter that begins before the cache has seen the writes of the last one
  diffs against the past. With `RegistryInTime = FALSE` `RefIntegrity` and
  `Refines` fail in the `store` run (`store.go:218`).
* A watch that breaks before its first supported event restarts from now on
  (`apigw.go:114`); that is why `NoEventSkipped` counts from `anew`.
* `WaitForLeading` may return the channel of a later session than the one it
  waited for (`etcd_election.go:128`, `167`): without `Heard`, `AtMostOneLeader`
  fails. And `Campaign` is retried with an expired session for ever
  (`etcd_election.go:106`): without `Stuck`, `ElectionCompletes` fails.
* A status code that `retryEvaluator` does not know counts as success
  (`client/apisix.go:180`). So does a 5xx or 429 that lasts until the retries are
  used up: the evaluator returns an error (`client/apisix.go:128`), which makes the
  transport ask again and which it then drops, and `*retryError` is not set. With
  the shared closure these are the three causes in `WrongHasCause`.
* A listing holds routes and services by the ids in their values
  (`apigw.go:381`, `390`), which for these kinds are not taken from the keys
  (`apigw.go:302`) and which no check requires. Of two keys of a stage whose values
  have the same id, or none, one is left out without an error, and the store then
  deletes it from the data plane, or never writes it. `CompleteOrError` says so; a
  listing is complete whenever the ids are those of the keys. A value without
  labels is a panic, not an error (`apigw.go:366`), which for a stage ends in a
  change that is given up without a retry.
* The answer of a probe and its timeout may be ready at once, or the answer may
  come before `errChan` is closed: failure and success are then both reported of
  one publication (`reporter.go:258`), as `OneVerdict` says.
* Requests to the core API have no timeout (`core_api.go:85`). Hung ones fill the
  pool, then the queue; then every commit that is to be reported blocks before it
  lists (`reporter.go:297`), every probe that has a failure to report before it
  gives back its slots (`reporter.go:269`, `282`), and with them the gateways, the
  committer and the agent, for good: `queue = "clogged"` in `EveryChangeSettled` and
  `EveryProbeEnds`.
* A commit that sends an event after `Shutdown` panics on the closed queue
  (`reporter.go:101`), and `main` may return before the hooks are through
  (`cmd/root.go:78`): `FlushedBeforeExit` speaks of a hook that came to its end.
* The global commit's `wg.Done` is not deferred (`committer.go:150`), and a
  cleanup during a commit takes its token: either stops the committer for good.
* The routes of a stage are put in the order of a Go map, so the version route
  may be written, and success reported, before others of its publication.
* An ssl key makes a listing fail, as there is no event type for it
  (`apigw.go:275`, `constant/apisix.go:63`).
* A retry puts its own release info back into the timer, over that of a newer
  event if one came during the commit (`timer.go:89`): `NewestRelease` is about
  keys that no retry has written.
* Plugin metadata is compared byte by byte (`diff.go:275`) and written as it is, so
  that a change of its layout alone is written too; `NoNeedlessWrite` is about
  routes and services.
* `currentRevision` is the header's revision of a response
  (`registry/apisix.go:258`, `apigw.go:167`). For responses that etcd cuts short
  that is ahead of the last event, and a watch that breaks then skips the events
  in between: the key stays as it was in the cache until its next write.
* `PrevKv` of a deletion and the labels of a value are used unchecked
  (`registry/apisix.go:289`, `apigw.go:286`); the panic ends the process.

## 7. What is not modelled

* Configuration is parsed once and its values are CONSTANTS. Metrics, logging and
  tracing change no state the others read.
* The HTTP API: its queries (`pkg/biz`, `GetStageResourceByID`, `Count`) read the
  listings and the caches and change nothing. What they find by name depends on
  letters: names are lower-cased, `_` is mapped to `-`, and long ones are hashed or
  cut off (`biz/common.go:41`, `47`), so that different names may have one key. The
  server, router and clients and the output of the commands move data.
* An event whose labels name no gateway and no stage, which the agent skips
  (`agent.go:149`): every key of `CommitPipeline` has both. Sends on the event queue
  after `Shutdown` are in `EventReporter` and not in `CommitPipeline` or
  `VersionProbe`, where the process does not stop.
* Several ways of a panic: `Panic` and `PanicGlobal` stand for one at any place
  between the first read and the end of the sync.
* The validator's checks of kinds the operator never lists, and
  `APISIXSchemaValidator`, which has no caller. What a JSON schema says.
* `DeleteResourceByKey` and `ForceCommit` have no caller. `Close` of the
  registries ends goroutines together with the process.
* Whether a publication that only deletes resources writes anything that is
  committed (`agent.go:141`) is up to the control plane.
* Conversions between JSON and Go values are abstracted to `spec` and `meta`.

## 8. Plan

Done, in this order: `ConfigDiffer`, `ApisixStore` and `VirtualStage` (what
reaches APISIX), `ReleaseTimer`, `CommitPipeline` with `StageSync` (the path
there), `EtcdLog`, `ApisixRegistry` with `LaggingView`, `ApigwWatch` (the views it
rests on), `LeaderElection`, `VersionProbe`, `EventReporter`, the proofs of the
pipeline, then the fault models (responses cut short, panics, crashes, hung
requests, a stuck committer), `ResourceValidator` and the listings in
`StageListing`, then the proofs of all other safety properties and of the
refinement of `LaggingView`, `StageStore` with the proof that `ApisixStore`
implements it, the theorems on the operators of `ConfigDiffer` and
`VirtualStage`, the safety halves of four liveness properties, and the event queue
as a component of its own (`EventQueue`), on which commits and probes wait.

Next: state for `ReleaseTimer` joined to the pipeline that a retry never hides the
release of a newer event (`NewestRelease` excepts the keys that were retried).

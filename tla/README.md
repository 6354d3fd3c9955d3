# TLA+ models of istio/mixer

These modules model the concurrent and algorithmic parts of the Mixer
sources under `src/`. The Mixer server receives attribute
bags from proxies over gRPC streams and dispatches them to aspect managers and adapters. Some adapters
batch their output in background goroutines. Each module below is
translated from the code it names. `PROJECT.json` maps every definition to its lines.

## Parts and modules

| Part | Code | Modules |
|---|---|---|
| Streaming gRPC dispatcher | `src/unnamed/part_010` 75-155 (`grpcServer.dispatcher`) | `StreamDispatcher`, abstract `RequestStream`, `MCStreamDispatcher`, proofs in `StreamDispatcherProofs` and `StreamDispatcherViewProofs` |
| Stackdriver batching | `src/adapter/stackdriver/stackdriver.go` (factory, `sd`, `Record`, `pushData`, `toTypedVal`) | `SdBatching`, abstract `MetricsExport`, `MCSdBatching`, proofs in `SdBatchingProofs` |
| Stackdriver DELTA coalescing | `src/adapter/stackdriver/delta.go` | `Coalesce`, `MCCoalesce` |
| Kubernetes builder (mutex) and generator | `src/adapter/kubernetes/kubernetes.go` 42-376 | `KubeGen`, `KubeBuilder`, `MCKubeBuilder` |
| Kubernetes builder (sync.Once) | `src/unnamed/part_001` 121-211 | `KubeBuilderOnce` |
| API handler | `src/pkg/api/handler.go` 62-160 (`execute`, `Check`, `Report`, `Quota`, `ConfigChange`) | `ApiHandler`, `MCApiHandler` |
| Handler configurer | `src/unnamed/part_016` 196-358 (`ConfigureHandlers`) | `HandlerConfigurer`, `MCHandlerConfigurer` |

### StreamDispatcher

The model follows `dispatcher` for one stream of `N` request messages.
- **Reading goroutine.** `rpc` is its program counter. `RecvValid`, `RecvInvalid`, `RecvEOF` and `RecvError` are the outcomes of `RecvMsg` and `ApplyProto`. `AcquireInvalid` and `SendInvalid` are the path on which the reading goroutine answers an undecodable request itself, under `sendLock`. `Return` is the deferred `wg.Wait()` followed by the two deferred `Tracker.Done()` calls, which run in LIFO order.
- **Work items.** Each one passes through `phase[r]` on a pool goroutine `running[w]`: `PoolTake`, then `Execute` (the handler fills the response bag), then `Acquire` (`sendLock.Lock`), then `ApplyBag` (`respTracker.ApplyBag`, which computes the delta against the last encoded bag), then `Send` (a send error is only logged, then unlock), then `Finish` (the bags' `Done`, then `wg.Done`).
- **Transport.** `Disconnect` breaks the transport at any point.
- **Client.** The client applies the deltas it receives in order, in `clientView`.

The goroutine pool and the attribute Tracker are not under `src/`. `PoolTake`, `Delta` and `ApplyDelta` are therefore modelled from `spec.md`.

`RequestStream` is what the dispatcher promises:
- requests arrive in order;
- each is answered at most once, or its answer is lost;
- the stream closes only when every arrived request has been dealt with.

`StreamDispatcher` maps to it through `AnsweredReqs` and the message kinds on the wire.

### SdBatching

- **Factory.** The factory's `sync.Once` creates **one** `time.Ticker`, which every aspect's daemon shares. `NewMetricsAspect` runs the once first and then either builds the aspect or fails in `createClient`.
- **Record.** `Record` converts the value with `toTypedVal` and appends under `s.m`. `ToTypedVal` follows the code's switch on `labelMap`: a label type's value has its Go type (`GoTypeOf`), Time and Duration values are divided down to microseconds, and then `val.(int64)` or `val.(bool)` is asserted. For Float64 (a `float64`) and Time (the division yields an `int`) the assertion fails and the process panics. The run's third series is a Float64 one, so the panic is reached.
- **Daemon.** Each daemon ranges over `ticker.C`. `Receive` is a tick taken, plus the locked part of `pushData`: the early return on an empty buffer, or the swap of `toSend`. `Push` is `coalesce` and `CreateTimeSeries` outside the lock. On a closed client or on error, the batch goes into `failed`.
- **Close.** `Close` is `sd.Close`. `FactoryClose` is `f.t.Stop()`, which does not close the channel. Before any `NewMetricsAspect`, `f.t` is nil and `Stop` panics.
- **Panics.** After a panic nothing runs. `RecordedEventuallyPushed` is therefore stated for a live process: a recorded series is eventually pushed, unless the ticker was stopped or the process crashed.
- **What it promises.** `MetricsExport` is the abstract specification of the batching. It has three sets of series: `pending`, `accepted` and `lost`. `Take(p)` adds a series never seen before to `pending`. `Export(B)` moves a set `B` of pending series into `accepted` or into `lost`, all of `B` to the same one. `SdBatching` maps onto it as follows:
  - `pending` is `Pending`, the union of every `toSend[s]` and `batch[s]`;
  - `accepted` is `delivered`;
  - `lost` is `failed`.
  `RefinesMetricsExport == Export!Spec` is checked on the run. Under this mapping, `Record` is a `Take`, `Push` is an `Export`, and every other step is a stutter: the swap in `Receive`, `Close`, the ticker steps and the panics. The abstract spec has no fairness; the liveness is `RecordedEventuallyPushed`.
- **Abstraction.** A time series is a point identity with a value type. Labels (`toStringMap`), the metric type name and the resource are formatting and are left out.

### Coalesce

- **Scan.** `ScanDelta` and `ScanOther` are the scan loop. A DELTA series is grouped under its key and its kind is set to CUMULATIVE; if its start and end agree to the microsecond, its end is moved by `usec`.
- **Walk.** `StartGroup` chooses a key, as Go's map iteration does. It also chooses any order that `sort.Sort` with `Less` may produce, since ties are unordered because the sort is not stable. `MergeNext` and `AdvanceNext` are the two branches of the walk, which uses `compareUSec(...) >= 0`. `FlushGroup` appends the last series of a group.
- **Helpers.** `Merge` is `merge`, by value type. `ToUSec` and `CompareUSec` do integer division as the code does.
- **Time units.** These are constants (`NanosPerUSec`, `USecPerSec`). The model keeps the shape of the arithmetic with small values.

### KubeBuilder and KubeBuilderOnce

- **KubeBuilder.** `BuildAttributesGenerator` is split at its blocking points:
  - `Lock` and the `needsCacheInit` test;
  - controller creation, which succeeds (`CreateOK`, and the daemon is scheduled) or fails (`CreateFail`);
  - `WaitForCacheSync`, which returns true (`SyncOK`) or false (`SyncFail`), the latter only once `stopChan` is closed;
  - the send on `stopChan` (`SendStop`);
  - `Build`.

  `RunStart`, `CacheSync` and `Close` are the daemon, the informer and `builder.Close`.
  `GenerateCall` is a call of `Generate` on a built generator, over the pod cache as it is (all of `Cluster` once synced).
- **KubeGen.** The pure part of the generator, as operators: `ValidateConfig` (an ASSUME on the constants), `Generate`, `addValues`, `keyFromUID`, `addPodValues` and `canonicalName`.
  - A DNS name is the sequence of its labels, and a port suffix is a flag.
  - An attribute name `valueName(prefix, value)` is the pair of its two parts, so collisions of the concatenation are abstracted away (listed as a hazard).
  - UIDs that are IP addresses are left out.
  - `DefaultConf` is the adapter's `conf` (input names, prefixes, value names, cluster domain), and `MCKubeBuilder` uses it. `ValidConfigAssumption` therefore checks that the default parameters pass `ValidateConfig`.
  - `GeneratedAttributesOfNamedPods` compares every `Generate` result with a reference written from the pods directly: a UID `name.namespace` gives exactly that pod's non-empty fields and its service's full name under the role's prefix. The inputs include a missing role, an empty string, a non-string value and a one-label UID.
  - `CanonicalNameDocumented` checks the ten name forms listed above `canonicalName` (every prefix of `svc.ns.svc.cluster.local`, with and without a port) against the full name.
- **KubeBuilderOnce.** This is the older version, built on `sync.Once`.
  - `Enter` runs the once, or waits on it while another call runs it, or skips it once it is done.
  - `clientErr` is local to each call.
  - The result of `WaitForCacheSync` is ignored.

### ApiHandler

- **Calls.** Each call is a goroutine with a program counter `pc[r]`. `StartFail` is a failed `tracker.StartRequest` (INVALID_ARGUMENT). `Load` is a successful `StartRequest`, then `h.cfg.Load().(*config.Runtime)` into `snap[r]`. `Resolve` is `cfg.Resolve` on that snapshot. `Execute` is one iteration of the executor loop, with its three outcomes: OK, another code, or an error. `ExecDone` is the OK return. `Return` is the return together with the deferred `EndRequest`.
- **Configuration.** `ConfigChange(c)` is `h.cfg.Store`, at any time, up to `MaxChanges` times. A configuration is a model value, and `ResolveOf` says what `Resolve` returns for it.
- **Panic.** A type assertion on the empty `atomic.Value` panics, and the model stops there.
- **Responses.** `Response` is what `Check`, `Report` and `Quota` put in the response. Quota's `newQuotaError` keeps the code and drops the message.

### HandlerConfigurer

- **Steps.** `ConfigureHandlers` is sequential, and one call is modelled:
  - `InferType` is one iteration of `inferTypes`, which succeeds or fails.
  - `Group` is `groupHandlerInstancesByTemplate`, computed by `InstancesOf` and `TemplatesOf`.
  - `NextHandler`, `ConfigureType`, `TemplatesDone` and `HandlersDone` are the two loops of `dispatchTypesToHandlers`.
- **Order.** Each loop takes any element it has not visited yet, as Go's map iteration may.
- **Outcomes of `ConfigureType`.** It has the three outcomes of `ConfigureTypeFn`: nil, an error (returned at once), or a panic. The deferred closure of the current iteration recovers the panic, sets `isBroken`, and the function returns nil.

## Runs

| Run | Result | What it shows |
|---|---|---|
| `dispatcher` | pass | N=3, two pool goroutines. `DrainedBeforeClose`, `ClientSeesResponseBag` and refinement of `RequestStream` hold, and `Termination` holds under weak fairness of the reading goroutine and of each pool goroutine. No symmetry is used, since it is unsound with a liveness property. |
| `dispatcher_index_echo` | violation | The invalid-argument response carries RequestIndex 0 (finding). |
| `sd_batching` | pass | Two aspects, three series (Int64, Duration and Float64 values). No series is lost or duplicated by the swap. Every recorded series is eventually pushed while the ticker runs and the process lives. The adapter implements `MetricsExport`. The Float64 series and an early `factory.Close` crash the process. |
| `coalesce` | pass | Up to three series on two keys. The output of one key never overlaps, and per-key sums are kept. |
| `coalesce_stream` | violation | Series of one metric stream are never merged, because the key is made of pointers (finding). |
| `coalesce_cover` | violation | `merge` can shrink the end of the merged interval (finding). |
| `coalesce_time` | violation | The munge produces Nanos outside the valid range (finding). |
| `kube_builder` | pass | Three concurrent builds with retries and Close, and Generate calls: one controller at most, no generator before a sync, the attributes of a named pod are exactly its fields and its service's canonical name, and every documented name form canonicalizes to the full name. |
| `kube_panic` | violation | A build that races Close sends on the closed `stopChan` (finding). |
| `api_handler_panic` | violation | A call reaching `execute` before the first `ConfigChange` panics on the type assertion. The `cfg == nil` branch, which was meant to answer UNAVAILABLE, is never reached (finding). |
| `configurer_panic` | violation | After one handler's configure code panics, `ConfigureHandlers` returns nil with the handlers later in map order unconfigured and not marked broken (finding). |
| `kube_once` | violation | A failed first build leaves later builds with a nil controller and an unsynced generator (finding). |

### Bounds

- **Dispatcher.** Three requests and two pool goroutines are enough to have two work items in flight while a third is read, with an undecodable request interleaved. One attribute with two values gives deltas that are empty or non-empty.
- **Stackdriver.** Two aspects make ticks compete. Three series let a Record fall between a swap and the next tick.
- **Coalesce.** Three series on one key cover every shape of the walk: merge, advance, flush and tie orders. Two keys test the grouping. In the main run the time units are `NanosPerUSec = 2` and `USecPerSec = 3`, so that two series can be distinct in nanoseconds and equal in microseconds, which is when `AdvanceNext` and the munge happen. `Secs={0,1}` in the cover run lets intervals cross a second.

### Mutants

Each property of a passing run is broken by one plausible bug in the code:

| Property | Bug |
|---|---|
| `DrainedBeforeClose` | wg.Wait missing |
| `TypeOK` | double `wg.Done` |
| `ClientSeesResponseBag` | unlocked encode/send |
| `RefinesRequestStream` | queue not dequeued |
| `Termination` | pool goroutine never idle |
| `PointsAccountedOnce` | buffer not reset |
| `RefinesMetricsExport` | buffer not reset: a pushed series stays pending |
| `RecordedEventuallyPushed` | daemon leaves after one push |
| `NoOverlapPerKey` | `> 0` instead of `>= 0` |
| `ValuePreserved` | merge drops the sum |
| `OneController` | no lock |
| `GeneratorOnlyAfterSync` | sync result ignored |
| `GeneratedAttributesOfNamedPods` | `keyFromUID` swaps namespace and name |
| `CanonicalNameDocumented` | domain loop starts one label late |

## Fairness

- **Dispatcher and builders.** The Go scheduler eventually runs every runnable goroutine, hence `WF` on the reading goroutine and on each pool goroutine. The transport is not obliged to fail, so `Disconnect` has no fairness.
- **SdBatching.** A running ticker keeps firing (`WF_vars(Tick)`). Go wakes the receivers blocked on a channel in FIFO order, so a daemon that keeps waiting while ticks keep arriving is eventually served: `SF_vars(Receive(s))`. With only weak fairness on `Receive`, TLC finds a behaviour in which the other daemon takes every tick. The guarantee therefore rests on Go's FIFO wake-up and not on the code. This matters because the code shares one ticker among all aspects, while the comment at `stackdriver.go:40` describes one ticker per aspect.

## Proofs (TLAPS)

`StreamDispatcherProofs` proves these for every `N`, every pool, and every set of attributes and values, under `Assumptions` (N ≥ 1, a non-empty pool, `Absent` not a value):
- `TypeCorrect`: `Spec => []TypeOK`.
- `Drained`: `Spec => []DrainedBeforeClose`.

`DrainedBeforeClose` is not inductive, because `Return` tests only the counter. The inductive invariant `IInv` is the conjunction of the following:
- `CountInv`: `wg` equals the number of requests between `wg.Add(1)` and `wg.Done()`.
- `QueueInv`: the pool queue holds, once each, exactly the queued requests.
- `RunInv`: a busy pool goroutine runs an active request that no other goroutine runs. Without uniqueness, `Finish` could not be shown to keep the other goroutines' requests active.
- `LiveInv`: a request's bags are live exactly while its item is outstanding.
- `ReadInv`: unread requests are idle, and the invalid request being answered has been read.
- `CloseInv`: `trackerDone` holds exactly when the handler has returned, and then `wg = 0`.

TLC checks `IInv` on the liveness instance before it is proved. `InitIInv` and one theorem per action prove that it is inductive. Lemmas `SameCount`, `SameQueue`, `ReaderFrame` and `WorkerAdvance` cover steps that leave the counter and the queue alone. The finite-set cardinality theorems give the counter steps. `IInvDrained` derives the property: `wg = 0` means no outstanding request, which means no running goroutine and no live bag.

`StreamDispatcherViewProofs` proves `ClientView`: `Spec => []ClientSeesResponseBag`, under the same assumptions. The invariant `VInv` adds two conjuncts to `IInv`:
- `LockInv`: `sendLock` is held exactly by the one request in `apply` or `send`, or by the reading goroutine while it answers an invalid request.
- `ViewInv`: after a result, the client's view is that request's bag. While the transport works and no request is between `ApplyBag` and `Send`, the client's view equals the tracker's last encoded bag. While one request is there, the tracker holds its bag, and its pending delta takes the client's view to that bag.

`DeltaRoundTrip` (applying `Delta(v, n)` to `v` gives `n`) makes `Send` preserve `ViewInv`. `OnlyHolder` follows from `LockInv`: no other step can touch the tracker between `ApplyBag` and `Send`. One theorem per action, then `NextVInv`, gives the induction.

`SdBatchingProofs` proves `Accounted`: `Spec => []PointsAccountedOnce`. It holds for every set of aspects and series and every `ValueTypeOf`, with no assumption on the constants. `PointsAccountedOnce` is not inductive on its own, because `Receive` overwrites `batch[s]` with `toSend[s]` without looking at it. The inductive invariant `IInv` is the conjunction of the following:
- `TypeOK`.
- `Located`: the union of the places, stated pointwise.
- `Disjoint`: the disjointness conjuncts.
- `BatchOnlyWhilePushing`: a daemon that is not pushing has an empty batch, because pushData gives its batch back before it waits again.
- `NoDaemonUnborn`: no daemon runs for an aspect that has not been built. `NewMetricsAspect` needs this to start a daemon with an empty batch.

TLC checks `IInv` on the `sd_batching` instance. One theorem per action, then `NextIInv`, gives the induction. The panic branches of `Record` and `FactoryClose` leave every place unchanged. `LocatedIsUnion` turns `Located` back into `recorded = UNION Places`.

`SdBatchingProofs` also proves `Refinement`: `Spec => RefinesMetricsExport`. Like `Accounted`, it holds for every value of the constants, with no assumption on them. It rests on the same `IInv`, and the proof goes step by step:
- `RefineInit`: every buffer and batch starts empty, so `Pending` is empty.
- `RecordRefines`: the non-panicking `Record(s, p)` is `Take(p)`. `Located` says that a series not yet recorded is in no buffer or batch and has no outcome.
- `ReceiveStutters`: the swap leaves `Pending` unchanged. It moves `toSend[s]` into `batch[s]`, and `BatchOnlyWhilePushing` says that `batch[s]` was empty.
- `PushRefines`: `Push(s)` is `Export(batch[s])`. After the push, `Pending` is exactly `Pending \ batch[s]`, because `Disjoint` says that no other buffer or batch holds a series of `batch[s]`.
- `ExportStutter`: every other step leaves `toSend`, `batch`, `delivered` and `failed` unchanged, and is therefore a stutter.
The refinement is thus a second use of `IInv`. Without `BatchOnlyWhilePushing`, a swap could overwrite a batch and drop pending series. Without `Disjoint`, a push could leave a copy of a series pending after its outcome.

`StreamDispatcherRefinement` proves `Refinement`: `Spec => RefinesRequestStream`, under `Assumptions`. The mapping is the one `StreamDispatcher` gives to `RequestStream`:
- `arrived <- next - 1`.
- `answered <- AnsweredReqs`.
- `out <-` the request and kind of each wire message.
- `closed <- rpc = "closed"`.

Reading a request (`RecvValid`, `RecvInvalid`) maps to `Arrive`. `SendInvalid` and `Send` map to `Answer`. `Return` maps to `Close`. Every other step leaves the mapped state unchanged. The step proofs need one invariant beyond `IInv`. `RInv` says that exactly the valid requests already read have left the idle phase, and that the request the reading goroutine is answering is an invalid one. Without it, `AnsweredReqs` could not be shown to grow by exactly the request that `Send` answers. TLC checks `IInv /\ RInv` on the dispatcher instance before it is proved. `RInvariance` proves it inductive. `AnsweredFrame`, `OutAppend` and `OutSame` describe how each step moves the mapped `answered` and `out`. `RefineStep` and `RefineInit` combine them, and `PTL` gives the temporal theorem.

`KubeBuilderProofs` proves three theorems for every set of calls, inputs and cluster, and a fourth one, `DocumentedNames`, described below:
- `OneControllerThm`: `Spec => []OneController`.
- `SyncedGenerators`: `Spec => []GeneratorOnlyAfterSync`.
- `NamedPodAttributes`: `Spec => []GeneratedAttributesOfNamedPods`.

They rest on three assumptions, each evaluated by TLC on the `kube_builder` run:
- `CallsAssumption`: `None`, which marks a free `b.Lock`, is not a call.
- `InputsAssumption`: the UIDs mixer passes are strings split at the dots, so they are sequences of labels.
- `NamesAssumption` (in `KubeGen`): the cluster domain is a string split at its dots. Each pod's service name is a single DNS label, which is what a Service object's name is.

The inductive invariant `IInv` is the conjunction of the following:
- `TypeOKB`.
- `LockInv`: a call in a locked section holds `b.Lock`.
- `CreateInv`: a call creating the controller sees `needsInit` and no controller yet.
- `CtrlInv`: at most one controller exists. While `needsInit` is still set, the controller belongs to the lock holder, which is syncing it, sending on `stopChan` or panicking.
- `SyncInv`: `needsInit` is cleared only after a sync, and a call builds a generator only once it is cleared.
- `OutInv`: every output is `Generate` of a real input.

The data lemmas are:
- `KeyFromUIDNames`: the key of a UID names the pod exactly when the UID is `<<name, namespace>>`.
- `CanonicalOneLabel`: the FQDN of a one-label service.
- `PodValuesExpected` and `GenerateExpected`: `Generate` computes `ExpectedAttributes`.

`DocumentedNames` proves `Spec => []CanonicalNameDocumented`. This property reads no state but `synced`, so it is a fact about `canonicalName` and the cluster domain. It is proved for every domain, the empty domain included. `CanonicalArm1`, `CanonicalArm2`, `CanonicalArmFull` and `CanonicalArmMissing` give `canonicalName` arm by arm. `DocumentedForms` then splits on the prefix length `n`:
- one label;
- two labels;
- the whole name;
- a prefix missing domain labels. In this case the labels appended from the domain are shown to be, pointwise, the rest of the full name.

With an empty domain, both the two-label arm and the complete-name arm of the switch apply, and they return the same name.

`CoalesceProofs` proves `NoOverlap`: `Spec => []NoOverlapPerKey`. It holds for every set of keys, every value type, every timestamp range and every batch length, under `CoalesceAssumptions`. It also covers every order that `sort.Sort` may choose among equal starts. `NoOverlapPerKey` says nothing about the series still being merged, so it is not inductive. The inductive invariant `IInv` is the conjunction of the following:
- `TypeOK`.
- `GroupsInv`: every group is non-empty and holds CUMULATIVE series of its own key.
- `OutVisited`: a returned CUMULATIVE point belongs to a group the walk has started.
- `CurInv`: `current` and `rest` are the remainder of one started group.
- `SortedInv`: `rest` is sorted by start, and `current` starts no later than `rest`. This is stated for consecutive elements only, because the prover cannot do induction along a sequence.
- `BeforeInv`: every point already returned for `current`'s group ends before `current` starts.
- `KeyApart`: `NoOverlapPerKey` at every step.

TLC checks `IInv` on the `coalesce` instance, which has 6.5M states. The argument uses the following lemmas:
- `CompareTrans` and `CompareTransStrict`: microsecond comparison is transitive.
- `MergeKeeps`: every arm of `merge` keeps `a`'s key, kind and start.
- `SortedOrderProps`: a sorted order is a permutation of the group, sorted between neighbours.
- `AppendCurrent`: returning `current` keeps the points apart.

To make this proof possible, `ScanDelta` writes the group update as `byMetric[k] = append(byMetric[k], ts)` with a missing key read as nil. This is exactly what the code does. The earlier form used TLC's `@@` and `:>` operators, which `tlapm` cannot expand.

Only TLC checks the following:
- **Liveness.** `Termination` and `RecordedEventuallyPushed` need fairness and ENABLED, which the prover does not handle.
- **`ValuePreserved`.** This property compares two `SumFunctionOnSet` sums, which are folds over sets. Relating a fold over `S \cup {x}` to the fold over `S` is induction over data, which the installed provers cannot do. It is checked by TLC only.
- **Other components.** The properties of `KubeBuilderOnce`, `ApiHandler` and `HandlerConfigurer`, and `SdBatching`'s liveness, are model-checked only.

## Not modelled

- **Unary API.** The unary gRPC API in `part_010` (lines 300-478) is not modelled yet.
- **Aspect managers and wrappers.** `pkg/aspect/manager.go` holds interface declarations and a constructor. The template repository (`part_018`) is lookups. The aspect wrappers (access logs, attribute generation) evaluate expressions per call. None of them keeps state across calls.
- **Configurer I/O.** The CRD store and validation webhook of `part_016` (lines 15-180) are Kubernetes and HTTP I/O.
- **Handler and configurer pass runs.** All twelve runs are in use, so `ApiHandler` and `HandlerConfigurer` are checked only by their violation runs.
- **Stateless code.** Formatting helpers (`toStringMap`, `metricType`, `toOpts`) are single-call conversions with no concurrency; unit tests reach them.
- **Example client.** `parseAttributes` in `src/example/client/cmd/util.go` switches on the position of `=` rather than on the attribute list, because an inner `i` shadows the loop counter. This is listed as a hazard. Checking it against a reference would need a violation run, and all twelve runs are in use. Interface declarations, registrars, clients and examples have nothing to check.
- **Non-running code.** Tests, generated code, templates, Bazel files and scripts are not part of the running system.

See `PROJECT.json` for every component and its status.

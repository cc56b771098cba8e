# Verification of vsan-integration-for-prometheus

TLA+ models of the daemons of this repository, TLC runs over small instances of them, and TLAPS
proofs about them for every instance.

## 1. The system and its parts

vCenter serves, for each vSAN cluster with a metrics token, a *service discovery* document: a list of
targets, each a host, a port, a metrics path and a `cluster_name` label. Everything else carries that
document, or the metrics it points to, to Prometheus.

| part | state it keeps | operations | interacts with |
|---|---|---|---|
| `vsan-prometheus-operator` (one daemon, `vsanPrometheusOperator.py`) | hash of the last text; in a pass, the listed Endpoints and what is left to do; in Kubernetes, one Service and one Endpoints per cluster and one ServiceMonitor | query, list, create, update, delete per cluster, write the monitor, sleep; a SIGTERM handler that deletes everything | vCenter (HTTP), the Kubernetes API, kubelet (SIGTERM, restart, rollout), its successor pod |
| `vsan-prometheus-servicediscovery` (sidecar, `vsanServicediscovery.py`) | hash of the last body, the bearer token; on disk, the list file and temporary files | read the token, query, write a temporary file, rename, chmod; print and exit when standalone | vCenter, the mounted secret, Prometheus through the shared file, kubelet |
| `vsan-prometheus-exporter` (HTTP server for vSphere before 7.0: `server.py`, `vsanPrometheusStats.py`, `connectUtils.py`) | the vCenter session, the token requests need, the table `hostMos` of connected hosts (each with a stub that holds the host's secret and session), the time of the last check | `/vsan/metrics/serviceDiscovery`, `/vsan/metrics`, `/vsan/metrics/<host>`; a consistency check every 5 minutes, inside a discovery request | vCenter, each host, Prometheus; gunicorn runs one process with 16 threads |
| exporter, conversion (`prometheus.py`, and `_IterateAndFormatStats`) | per request: the samples of the path that is worked on, the page streamed so far | walk the table of paths, call a converter per entity, record samples, format and stream each path | the report of one host, Prometheus |
| `vsan-prometheus-setup` (a command, `vsanSetupToken.py`, `vsanapiutils.py`) | none that lasts; in vCenter, the accepted token, the task, a session and a property filter | log in, check cluster and capability, generate a token, reconfigure, wait for the task, print the token, log out | vCenter; an administrator who puts the token into the secret |
| API bindings (`vsanmgmtObjects.py`, twice) | none | generated type declarations | |
| Helm charts, manifests, dashboards | none | configuration | they fix thread counts, mounts and names |

What is hard in each part, and what makes it right:

* **operator**. A pass is a sequence of some dozen API calls, any of which may fail or take effect and
  lose its answer; it decides by the listing made at its start. The process may die, be told to stop
  (the handler runs *between two calls of the pass*, which then resumes), or work beside its successor
  during a rollout. Right: the objects are those of vCenter's present answer whenever the daemon rests;
  a failure on one cluster costs no other cluster; nothing that is advertised is dropped; after a crash,
  everything comes right by itself.
* **service discovery**. The file is written in five system calls, under the eyes of a reader; the
  process may die or be told to stop between any two; the token is replaced while the daemon runs.
  Right: what Prometheus reads is always a whole document; between two updates it is the last one acted
  on; in the end Prometheus scrapes the present list.
* **exporter**. Sixteen threads use one table without a lock. Two consistency checks may overlap, each
  with its own idea of the cluster; a listing may meet a table that changes size; a host may disappear
  between the test for it and its use. Right: overlapping requests do not undo each other for good, a
  request is refused only for a reason, and in the end the table holds the cluster's hosts. A connected
  host is never connected again: its sessions end, its secret may be replaced, and all threads log in
  through one stub. Right: a page without metrics has a reason, and a lost session is made up for.
* **setup**. The token is replaced by a task in vCenter, which goes on beside the command and may be over
  before the command begins to wait; a call may take effect and lose its answer; two administrators may
  run the command at once. Right: a printed token was accepted, an accepted one is printed or a call
  failed, the command ends and leaves nothing behind.
* **conversion**. Some 270 keys of 27 nodes become samples of 68 metrics. `-1` stands for a key an
  old host does not report and is dropped by its sign; a converter that meets something unexpected
  raises, half way, inside a try per entity, while an assertion on labels fails outside of any. Right:
  every reported value is on the page, nothing else is, and whatever goes wrong with one entity
  costs no other.

## 2. Modules

| module | what it is |
|---|---|
| `Operator` | the operator: state, one action per API call, handler, crash, rollout |
| `OperatorProperties` | type invariant, invariants, action and liveness properties, the refinement mapping |
| `Reconciler` | the abstract specification the operator implements: a set of published names, and who may add or drop one |
| `OperatorProofs` | type correctness; the lemmas about texts, listings and history; a pass synchronises what it can vouch for; only what is obsolete is dropped; the operator implements `Reconciler` |
| `OperatorRestProofs` | the ServiceMonitor; what the objects are when all pods rest; what a handler leaves |
| `ServiceDiscovery` | the sidecar, the list file, the secret, Prometheus as reader; with its properties |
| `ServerList` | the abstract specification the sidecar implements: the list as a register written in one step |
| `ServiceDiscoveryProofs` | its type invariant, three safety properties and the refinement |
| `Exporter` | request threads over the host table |
| `ExporterProperties` | what is claimed of it |
| `HostTable` | the abstract specification the exporter implements: a set moved towards the cluster as some request saw it |
| `ExporterProofs` | its type invariant, four safety properties and the refinement |
| `HostSession` | the exporter and one host over time: worker, token, secret, stub, sessions; with its properties |
| `HostSessionProofs` | its type invariant and two safety properties |
| `TokenSetup` | runs of the setup command, vCenter's tasks, the administrator; with its properties |
| `TokenGrant` | the abstract specification the setup implements: which token is accepted, and what is told of it |
| `TokenSetupProofs` | its type invariant, three safety properties and the refinement |
| `TokenChain` | the setup and the sidecar composed, from a rotation to Prometheus; with its properties |
| `TokenChainProofs` | the composition is a behaviour of each of its parts, and its two safety properties |
| `Conversion` | the walk of the exporter over a host's report, for any tables; with its properties |
| `Metrics` | the tables of the code: converters, paths, keys old hosts lack |
| `ConversionProofs` | type correctness, and that nothing is made up or lost and no series streamed twice, for any tables |
| `MCOperator`, `MCServiceDiscovery`, `MCExporter`, `MCHostSession`, `MCMetrics`, `MCTokenSetup`, `MCTokenChain` | the values of the constants for TLC |

`Operator` and `ServiceDiscovery` do not call each other: both read vCenter's answer, an operator
deployment uses the first, a sidecar deployment the second, and the setup changes the token under
either. `ServiceDiscovery` leaves it open when vCenter begins to accept another token and when another one
is put into the secret (`Rotate`, `Publish`: any number of times, in any order, and the secret need not get
the token that is accepted). `TokenChain` instantiates it with what `TokenSetup` calls `accepted` and
`secret`, so that these two change by the steps of the setup and the administrator only; each such step is
one `ServiceDiscovery` allows, and what is proved of the sidecar alone holds in the chain. `Exporter` and `HostSession` look at the same process from two sides:
many hosts and a changing table without sessions, and one host with sessions, secrets and restarts.

Definitions whose comment begins with "Mutant" are slips a programmer might make in the definition
that follows them. No specification uses them; replacing the definition by its mutant makes the
property named beside it in `PROJECT.json` fail, which shows that the property depends on that code.

### Operator

`vc` is the body vCenter serves. `services`, `endpoints` and `monitors` are the labelled Kubernetes
objects. Each pod has the locals of `main`: `hash`, the snapshot `endpointDict`, the clusters `todo`,
the names `doomed`, and `pc`; and those of `cleanServiceEndpoints`: `hpc`, `hdoomed`, `hcur`. Each API
call is one action with three outcomes: it is answered, it is refused without effect, or it takes
effect and the answer is lost. `stale` says that the monitor was written after the pod listed it (the
listed object, with its `resourceVersion`, is the body of the patch). `disturbed` is history: the names
for which a call of the pod's last pass failed, or which somebody else touched since its listing.

The cluster loop is unordered, as the code goes over a dict. The existing Endpoints of a cluster are
never changed: `updateEndpointIfNeed` puts bare strings where the API client expects records, the
client raises while serialising, and the exception is logged (run `op_addresses`).

`Lower` is `str.lower`, and two cluster names may be one object name. A provider without a
`cluster_name` gives the key `None`, which has no `lower()` and ends the pass.

`Sigterm` hands the main thread to the handler; `MainAt` keeps the pass still meanwhile. A failure of
the handler's first call surfaces in the interrupted code (`HandlerListFails`), which ends the pass,
one call of it (`SkipCall`), or, asleep outside the try, the process.

### ServiceDiscovery

`pc` goes through `token`, `resolve`, `query`, `create`, `write`, `rename`, `chmod`, `sleep` or `print`.
`tmp` is the temporary file, `file` the list with its mode, `litter` the temporary files left behind,
`loaded` what Prometheus scrapes. `mode` is the configuration: a CA certificate (then the host name is
looked up), a token in the environment (then it is never read again), a standalone run. `failed` is
history: a step of the update that recorded `hash` failed. SIGTERM raises `SystemExit` wherever `main`
stands; only the bare `except` around the host name look-up catches it.

### Exporter

`hostMos` is the set of keys of the table, `cluster` the hosts vCenter would list, `th[t]` what a
request thread holds: the snapshot `seen`, what a loop has left (`todo`), the hosts to connect
(`missing`), what it has collected (`out`) and the size the table had when the loop began. A step is
what a thread does between two points where another thread makes a difference. A dict that changes size
raises `RuntimeError` in the next round of a loop over it; one that kept its size may end the loop early
once it has changed. `touched` and `lost` are history: the hosts other threads connected or dropped,
and the calls of this request that failed.

`connectOnStart` runs before the first request and is not repeated; without it there is no `authToken`
and every request is refused.

### HostSession

`secret` is what the host would answer to `FetchVsanSharedSecret`; `stubs` are those made in this life of
the worker, each with the secret its login method was given, the state it believes in (`authed`) and
whether the host knows its session (`live`); `entry` is the one in the table. `Login`,
`CaptureInternalStats` and `Renew` are the loop of pyVmomi's session stub, which the code only
configures: it logs in before the first call and whenever a call is answered with `NotAuthenticated`, a
limited number of times. The login method logs a refusal and returns, so the stub takes itself for logged
in. `Drop` stands for a consistency check that found the host gone, before it came back. `token` is 0 for
`BEARER_TOKEN`, else named by the life that generated it.

### TokenSetup, TokenGrant and TokenChain

A token is named by the run that generated it. A run goes through `main`: `new`, `about`, `find`,
`capability`, `reconfigure`; then, in `WaitForTasks`, `filter`, `wait`, `handle`, `destroy`; then `check`,
`leave`, `over`. `task` is vCenter's side and moves between any two of these. `WaitForUpdates` without a
version answers at once with the whole `info`; with one it answers once something changed since, with the
*present* `info.state`, so states may be skipped, or with a change that is of no interest. An exception
passes through the `finally` (`raised`) and is reported as a failure; one before the `try` ends the
process, and `Disconnect` runs at exit either way. `site` is what the arguments name: an ESX host, no
such cluster, a cluster without the feature, or one that is ready. `Save` is the administrator.
`crossed` and `lost` are
history: a run asked for its token while an earlier one was not settled; the stages at which a call of the
run failed. `TokenGrant` says,
without calls and tasks, that a token is told only after it was accepted, and one thing per run.

### Conversion and Metrics

A converter is a pure function that records values in the order of its text until it raises, so it is
modelled as the sequence of its *rows*: `rec` with the key it reads and the labels it adds, `get` with
default 0, a read whose value is used later, or a check of the entity's shape. `Metrics` has these
sequences, one operator per converter, its loops as `Each`; a key that the code composes of words
(`'%sLeafOwnerCount' % key`) is the tuple of the words. `Conversion` is the machinery, with the tables as
constants: `path`, `node` and `todo` are the three loops of `_IterateAndFormatStats`, `out` the path's
dictionary, `page` what was yielded. A sample is its entity and row. The name of an entity is the tuple of
the parts the converter takes it apart into, and its series (`Series`) is the metric with the labels of the
row and those taken from the name (`NameLabels`, in the code's tables `TableNameLabels`). These are not the
whole name: `vcpuMetrics` drops the id of `NicWorld`s, of those `NetworkWorld`s that are not of the storage
stack and of disk worlds named `VSAN_0x...` (`ByName`). `Identity` is what the page does tell entities
apart by: the name, without the id of these. `Value` is what the converter finds
under a key: the reported value, the sentinel, or nothing. On a node whose converter takes a prefix off
the keys (`elevStats/memP`) the look-up for the sentinel sees the prefixed names only (`Overlaid`).
`Yield` is `generatePrometheusFormat`: labels that name another host than the connected one fail an
assertion that nothing catches (`foreign`: a host that was set up anew under its old name while its
`hostInfo` is from before), and the stream breaks off.

## 3. Runs

| run | question | instance | states |
|---|---|---|---|
| `op_faults` | With calls failing, deaths and SIGTERM anywhere: what can a pass vouch for, what may be dropped, what does a handler leave? While no call fails, do the objects come to match? | 1 pod, fault, crash, 2 changes, SIGTERM, 6 texts | 1,735,321 |
| `op_rollout` | Two pods on the same objects: do they leave the objects right while no handler has begun, and is the pair a reconciler? | 2 pods, change, SIGTERM | 2,140,988 |
| `op_lost_update` | *violated*: one failed call, and the pod rests with the wrong objects | 1 fault | |
| `op_addresses` | *violated*: the Endpoints of a cluster that got a host keep the old addresses | no fault | |
| `sd_faults` | Is the list always whole and current, is it a register, and is litter bounded, when any call fails and the process dies anywhere? Does Prometheus end up with the present list? Does a standalone run end? | 3 configurations; 2 faults, 2 crashes, 2 changes, a SIGTERM, any rotations | 2,373,248 |
| `sd_error_page` | *violated*: after a rotation the error page becomes the list | 1 rotation | |
| `ex_requests` | Overlapping requests on one table: do checks converge, are refusals and omissions justified, is the table moved only towards the cluster, does it come to match the cluster? | 2 threads, 2 hosts, change, fault | 562,015 |
| `hs_session` | Sessions end, the secret is replaced, the worker restarts: has every empty page and refusal a reason, and does it pass? | 2 threads, 1 host, 2 expiries, rotation, drop, restart, fault | 2,433,680 |
| `mx_scrape` | Is each value a host reports on the page, under a series of its own and in one group per metric, whatever else is wrong with the report? | the full tables, 57 entities, 3 generations of hosts, one oddity | 130,204 |
| `mx_sentinel` | *violated*: a value reported under a prefixed name is replaced by the sentinel | 6 plain reports | |
| `ts_setup` | Overlapping runs of the setup with failures: what is printed, what is accepted, what is left, does it end? | 2 runs, 2 faults, a rejected task, a kill, 4 sites | 117,129 |
| `tk_chain` | With a failing call, a rejected task and deaths: is the sidecar refused only because it is late, does it leave the present list once it has the token of the secret, and does Prometheus get that list? | 2 runs, a fault, a rejected task; a crash of the sidecar | 1,528,362 |

Bounds. The *texts* of `MCOperator` are chosen for what a pass distinguishes: `two` (two clusters, one
in upper case), `grow` (the other one gone, a host more, another path), `twin` (two names that are one
object name), `none` (nothing at all), `anon` (no cluster name) and `bad` (cannot be parsed). Two names suffice to tell a failure
on one from a failure on the other. Two faults allow a failure inside the recovery from another.
Two changes allow going back to an earlier answer, which is where a hash that survives would go wrong.
`sd_faults` has two texts and an error page, both ways of getting the token, and two tokens that follow each
other without bound (a third would be just as different from the one the daemon holds); its three
configurations have each of the options that change the control on and off; its liveness properties have the absence of what they exclude as their premise, so that one instance serves them and the invariants. Two threads
and two hosts give every race between a pair of requests, and a host that is removed while another one is
added; the proofs carry the operator and the sidecar beyond these bounds (`PassSynced` of several pods, and
`QuietSynced` with deaths, are among what is proved and not run). `CHECK_DEADLOCK FALSE` stands
where a terminated process, or a finished page, does nothing more.

In `hs_session` a stub tries a call twice (pyVmomi: more often), so that two expiries can exhaust it; one
rotation and one drop let two requests connect with different secrets. Two runs of the setup are enough
for the second to overtake the first anywhere. `tk_chain` has one fault in the setup, enough for an
accepted token that nobody was told, and none in the sidecar, where a failed update is `sd_faults`'
business, as a SIGTERM and a change of the list are; the proofs cover all three in the chain.

`mx_scrape` uses the tables of the code whole. Its reports are those of a host before 7.0, of 7.0, and
since 7.0 U1 (which names the node of the network's worlds anew, so it has one of two nodes), with
bare or prefixed keys, and at most one oddity: a node that is not there, an entity with an unexpected
name, type or sum, a foreign UUID, or any single key missing. A node that lists several has two
to four entities, enough for one to spoil another: those of every form of name that has labels of its own,
and for each part of such a name (the id, the instance, the disk, the nic) two that differ in it only. So two
worlds of one name with different ids are there for each kind of world that may have them. The theorems hold
for reports with any number of entities.

## 4. Fairness

* `Operator!FairSpec`: each pod's main loop and handler take steps. The code never waits but for
  `time.sleep` and for calls, and a call is assumed to be answered or to fail in the end. That is an
  assumption about `requests.get`, which has no time-out. No fairness for crashes, changes or SIGTERM.
* `ServiceDiscovery!FairSpec`: the same for `Main`, and Prometheus reloads the file again and again
  (file-based discovery re-reads periodically and on notification).
* `Exporter!FairSpec`: an accepted request goes on until it is answered; time passes; discovery requests
  are served again and again. The last is strong fairness over the threads: Prometheus polls its
  targets, and its request waits in gunicorn's queue until a thread is free, so threads that are free
  again and again serve it in the end.
* `HostSession!FairSpec`: an accepted request goes on until it is answered, and the start comes to its end.
* `TokenSetup!FairSpec`: a run that has logged in goes on until it ends, and vCenter ends each task. None for kills, nor for a run to begin.
* `TokenChain!ChainFairSpec`: the above for the runs, tasks, the sidecar and Prometheus, each by itself;
  an administrator who was told a token saves it, with which the mounted file has it.

## 5. Properties

Operator: `QuiescentSynced` relates Kubernetes to vCenter whenever every pod sleeps on the present
answer (then nothing will act until the answer changes, so a difference would last); `PassSynced` says
what a pass guarantees name by name, in the presence of failures; `MonitorSynced` likewise for the
monitor; `DropsOnlyObsolete` who may remove Endpoints; `CleanupComplete` what a handler leaves;
`RefinesReconciler` the implementation of `Reconciler`; `QuietSynced` and `EventuallySynced` that changes
and deaths alone never leave the objects wrong: at no rest, and not for good. That each Endpoints has
its Service both say of one pod alone: of two that work on different texts, one may delete the
Service of a cluster, having deleted the Endpoints before, just after the other has created both.

ServiceDiscovery: `NeverTorn`, `UpdatePublishes`, `LitterBounded`, `EventuallyLoaded`, `StandaloneEnds`;
`RefinesServerList`: five system calls that may be cut short anywhere are one write of a register or
none, by the process that decided on the body, and Prometheus loads nothing else.

Exporter: `CheckConverges`: what one check promises per host although others interfere;
`NotFoundJustified` and `ErrorsJustified`: no refusal without a cause outside the request;
`DiscoveryJustified`: what is listed is the table, unless a call failed or another request changed it;
`RefinesHostTable`: whatever overlaps or breaks off, a host is connected or dropped only by a request that
was told so by vCenter and still goes by it; `EventuallyConnected`: overlapping checks with stale snapshots do not fight for ever.

HostSession: `EmptyJustified`: neither an expired session, nor another thread that logs in on the same
stub, nor a replaced entry makes a page empty; only a failed call, a replaced secret or sessions that end
one after the other do. `RefusalJustified`: who may be refused, and until when. `SessionRecovers`: an
entry with the host's present secret never stays without metrics.

TokenSetup: `UntoldJustified`: the order of a task's updates alone never hides an accepted token;
`NothingLeft`: no session and no filter outlives a run whose logout was answered,
whichever other call of it failed, and the filter is gone before the logout, when the wait is over for
whatever reason, unless its own creation or removal failed; `SecretCurrent`: what
the administrator holds is what vCenter accepts, or it is known which run is to blame; `RefinesGrant`;
`SetupEnds`: no update is missed for good.

TokenChain: `RefusedOnlyLate`: in the order of task, print-out, secret and query no step overtakes another,
so the sidecar never asks with a token before vCenter accepts it, and a refusal it turns into the list is
not one that waiting would have avoided; `Delivered`: the settled setup and the resting sidecar agree, with
deaths of the sidecar in between; `RotationSurvived`: in the end Prometheus has the present list, in
whatever order the rotations and the sidecar's steps came.

Conversion: `OnlyReported`: what is streamed was reported; `NothingLost`: what a complete entity
reported is streamed, whatever others lack; `WellFormed`: a series on the page is one row of
one entity, as far as the page tells entities apart (`Identity`), and a metric is in one group, across all
nodes, loops and converters that share a metric.

## 6. Proofs

`tlapm` proves, for all values of the constants that meet the named assumptions
(`LowerAssumption`, `TextAssumption`, `AbsentAssumption`, `MonitorAssumption`, `BoundAssumption` of
`Operator`; `BodyAssumption`, `AbsentAssumption`, `ConfigAssumption`, `BoundAssumption` of
`ServiceDiscovery`; `HostAssumption`, `BoundAssumption` of `Exporter`;
`RetriesAssumption`, `NoneAssumption`, `BoundAssumption` of `HostSession`; `RunsAssumption`,
`NoneAssumption`, `BoundAssumption` of `TokenSetup`; `BodiesAssumption`, `TokensAssumption` of `TokenChain`
(neither the error page nor `None` is a list, and `None` is no token); `PathsAssumption`, `EntitiesAssumption`, `RowsAssumption`, `ReportsAssumption` of
`Conversion`; TLC evaluates them in every run):

| theorem | statement |
|---|---|
| `OperatorProofs!TypeCorrect` | `Spec => []TypeOK` |
| `OperatorProofs!PassesSync` | `Spec => []PassSynced` |
| `OperatorProofs!DropsAreObsolete` | `Spec => DropsOnlyObsolete` |
| `OperatorRestProofs!MonitorSyncs` | `Spec => []MonitorSynced` |
| `OperatorRestProofs!QuietSyncs` | `Spec => []QuietSynced` |
| `OperatorRestProofs!CleanupIsComplete` | `Spec => CleanupComplete` |
| `OperatorProofs!OperatorRefines` | `Spec => RefinesReconciler` |
| `ServiceDiscoveryProofs!TypeCorrect` | `Spec => []TypeOK` |
| `ServiceDiscoveryProofs!ListNeverTorn` | `Spec => []NeverTorn` |
| `ServiceDiscoveryProofs!UpdatesPublish` | `Spec => []UpdatePublishes` |
| `ServiceDiscoveryProofs!LitterIsBounded` | `Spec => []LitterBounded` |
| `ServiceDiscoveryProofs!SidecarRefines` | `Spec => RefinesServerList` |
| `ExporterProofs!TypeCorrect` | `Spec => []TypeOK` |
| `ExporterProofs!ChecksConverge` | `Spec => []CheckConverges` |
| `ExporterProofs!NotFoundIsJustified` | `Spec => []NotFoundJustified` |
| `ExporterProofs!ErrorsAreJustified` | `Spec => []ErrorsJustified` |
| `ExporterProofs!DiscoveryIsJustified` | `Spec => []DiscoveryJustified` |
| `ExporterProofs!ExporterRefines` | `Spec => RefinesHostTable` |
| `HostSessionProofs!TypeCorrect` | `Spec => []TypeOK` |
| `HostSessionProofs!EmptyIsJustified` | `Spec => []EmptyJustified` |
| `HostSessionProofs!RefusalIsJustified` | `Spec => RefusalJustified` |
| `TokenSetupProofs!TypeCorrect` | `Spec => []TypeOK` |
| `TokenSetupProofs!AcceptedIsTold` | `Spec => []UntoldJustified` |
| `TokenSetupProofs!LeavesNothing` | `Spec => []NothingLeft` |
| `TokenSetupProofs!SecretIsCurrent` | `Spec => []SecretCurrent` |
| `TokenSetupProofs!SetupRefinesGrant` | `Spec => RefinesGrant` |
| `TokenChainProofs!SetupInChain` | `ChainSpec => Spec` of `TokenSetup` |
| `TokenChainProofs!SidecarInChain` | `ChainSpec => Spec` of `ServiceDiscovery` |
| `TokenChainProofs!RefusalsAreLate` | `ChainSpec => []RefusedOnlyLate` |
| `TokenChainProofs!RotationsAreDelivered` | `ChainSpec => []Delivered` |
| `ConversionProofs!TypeCorrect` | `Spec => []TypeOK` |
| `ConversionProofs!SamplesReported` | `Spec => []OnlyReported` |
| `ConversionProofs!NothingIsLost` | `Spec => []NothingLost` |
| `ConversionProofs!PageWellFormed` | `Spec => []WellFormed`, if `KeptApart(e, f)` of any two entities `e`, `f` some report has |

*The pass.* `PassSynced` speaks of the end of a pass only and is not inductive. The inductive invariant
`PassInv` says, for each stage, what has been established of the names nobody disturbed: while clusters
are handled, an object exists just if the snapshot has it or its cluster has been handled, and each
handled cluster that was not in the snapshot has its Service and the hosts and ports of one of the
clusters of that name; between the two creations the Service is there; while names are deleted, those
of the snapshot that are obsolete are gone unless still `doomed`. A step of another pod or of a handler
preserves it because whatever it changes becomes `disturbed` for all the others; that is the lemma on
which every case rests.

*The refinement* uses `PassInv`'s static half: what a pass creates is a cluster of its text, and what
it dooms is not. *The monitor* needs that the two names of the monitor are one, and that a pod whose
listing is stale is refused.

*At rest.* `QuietSynced` cannot go by what each pod vouches for: two pods disturb each other all the time.
Its invariant (`QuietInv`) is about all of them at once: while no call failed and no handler began, and
all pods that run work on one usable text, every name that differs from that text is still on the list
of some pod, to be created or to be deleted (`NamesInv`), and likewise the monitor once all are past their
deletions. A pod that begins with another text, or dies, makes the premise false; the one that
starts again lists the objects as they are, and every difference is on its list from then on.

*The handler.* `CleanupComplete` rests on two facts about a pod that is alone and whose calls are answered
(`CleanInv`): a Service without Endpoints is the one its pass or its handler is between two calls on, and
the list the handler works off has all Endpoints there are, because the main loop stands still meanwhile.

*The sidecar.* Its invariant adds, stage by stage, that `tmp` holds the whole body before the rename,
that the file holds `hash` before the chmod, and that each file left behind was paid for by a fault, a
crash or a SIGTERM. The refinement maps the rename to the write of the register, the chmod to opening it,
and every other way out of an update to giving it up; it needs of the invariant that what is renamed is
what was decided on.

*The exporter.* The properties speak of the end of a request. The invariant says for every thread and
every point of its request how what it holds relates to the table as it is *now*, host by host, for the
hosts other threads did not touch. Only `Write` changes the table, and it puts what it changes into the
`touched` of all others, so one lemma carries every thread over the steps of the others. The refinement
maps `snapshots` to what the threads between asking and writing were told; only `Write` moves the table, by
the writer's own snapshot, and the steps of the others leave what each thread was told as it is.

*One host.* `EmptyJustified` speaks of the last try only. The invariant counts (`Tries`): while the secret
of the stub is the host's, the tries a thread has used are at most one more than the sessions that ended
since its request began, and no more than these when another try is about to be lost. It holds although
threads share the stub because a login with the host's secret leaves a session the host knows, so no step
of another thread makes a stub worse (`Onward`). `RefusalJustified` needs who has which token (`AccessInv`).

*The setup.* Per run, the invariant says what it knows of its task (a success it saw is one, since a task
that is over stays so) and what it holds in vCenter. `SecretCurrent` needs one about all runs: as long as
they do not cross, at most one is not settled, and the secret is what the settled ones left. The
refinement maps `granted` to the runs whose task succeeded.

*The chain.* That each part behaves as it does alone is a step simulation: a step of one leaves the
other's variables alone, but for `accepted` and `secret`, and a step of the setup or the administrator that
changes one of them is `Rotate` or `Publish`. For the safety of the whole, `ChainInv` adds to the setup's
invariant who may hold which token (`Held`: the secret and the sidecar have the first one or such as were
told and saved, and what was told was accepted), that a token once refused is never accepted again
(`Refused`: every run has its own, and a task that is over stays so), and what the sidecar has of the list
at each of its stages while its token is the accepted one (`Served`). `Delivered` then follows from
`SecretCurrent`, the setup's theorem: if no run crossed or failed, the secret has the accepted token.

*The conversion.* Its properties speak of the finished page; the inductive invariant says of every
entity the three loops have passed that its whole conversion is in `out` or in its place on the page,
and of every sample that it belongs to the conversion of its entity. The theorems hold for any tables:
a converter or a list of missing keys that is added later is covered, as long as it is made of these rows.
`WellFormed` does not hold of all tables. It follows, for every table and every finite report, from
`KeptApart`, a condition on pairs of entities; the invariant adds that a sample is in a path that lists
its node (`Placed`), and the counts are compared by bijections. `KeptApart` is
stated with the labels a sample has, so it is not for the names of the entities that it holds: two worlds
of one name meet it because their `Identity` is one. That the tables of the code meet the condition is
what `mx_scrape` shows: its plain reports of the hosts since 7.0 have all entities of the instance but
one node's, with all their rows, so that `WellFormed` says the same of these pages as `KeptApart` of their pairs.

The inductive invariants were checked by TLC on the instances above, or on smaller ones, before they were
proved.

With these every invariant and every action property of the passing runs is proved, `WellFormed` under
`KeptApart`. Only model-checked is all liveness
(`EventuallySynced`, `EventuallyLoaded`, `StandaloneEnds`, `EventuallyConnected`, `SessionRecovers`,
`SetupEnds`, `RotationSurvived`): it rests on fairness, that is on `ENABLED`, which is out of the prover's
reach.

## 7. Where the code falls short

The violated runs show disagreements between the code and its own documentation, listed as findings in
`PROJECT.json`. Others met while modelling, which no run shows:

* `vsanPrometheusOperator.py:189`: when the deletion of the Endpoints fails or loses its answer the
  Service is skipped; with the Endpoints gone it is never listed again. `PassSynced` therefore says
  nothing of Services that should be gone.
* `:297`: the monitor is created under `SERVICEMONITOR_NAME` but looked up, patched and deleted under
  `LABEL`. If they differ (`docs/getting-started.md:205` tells the user to match them) it is created
  once and never updated. `MonitorSynced` and `CleanupComplete` assume that they are one.
* `:332`: the handler returns, and the interrupted pass creates objects after the clean-up.
  `CleanupComplete` speaks of the moment the handler returns.
* `vsanServicediscovery.py:138`: as in the operator, a body counts as done before the list is written;
  a failed rename is only printed. `UpdatePublishes` and `EventuallyLoaded` exclude it by `failed`.
* `:99`: between the rename and the chmod the list is unreadable for a reader that is not its owner.
  Prometheus keeps its targets then, so nothing is lost in the end.
* `vsanPrometheusOperator.py:310`: during a rolling update the old pod's clean-up removes what the new
  pod has published; the new one has recorded the text as done and notices nothing. `QuiescentSynced`
  fails of such an instance (two pods, a SIGTERM) as it does in `op_lost_update`.
* `vsanServicediscovery.py:54`: SIGTERM during the look-up of the host name raises `SystemExit` inside a
  bare `except`, which swallows it: the daemon goes on. The model has this step (`TerminateContainer`).
* `prometheus.py:214` and `:220`: the help line is for `vmware_vsan_disk_drain_total`, the samples are
  `vmware_vsan_disk_drain_bytes_total`; `vmware_esx_pnic_pkt_err_total` (`:676`) has none.
* `prometheus.py:49`, `:53` and `:58`: network worlds, and disk worlds named `VSAN_0x...`, are labelled without
  their id, so two of one name give one series twice, with two values, although the help line (`:69`) says
  that a sample refers to a single world except when noted; worlds of the storage stack do get their id
  (`:62`). Whether a host reports two such worlds is not in this repository, and no text says that it does
  not. `WellFormed` allows a series to come from these worlds, which `Identity` takes for one, and from
  nothing else.
* `server.py:34`: an exception in service discovery, also the `RuntimeError` of a table that changed size
  under the loop, is answered as an empty list with status 200, which Prometheus takes for the
  disappearance of all targets. `DiscoveryJustified` names the two causes.
* `connectUtils.py:56`: the secret is fetched when a host is connected and never again; once the host
  replaced it every page of this host is empty until a consistency check drops the host or the worker
  restarts. `EmptyJustified` and `SessionRecovers` exclude it by `asof`.
* `vsanPrometheusStats.py:258`: a failed connection on start is final; every request is refused until
  somebody restarts the container (`RefusalJustified`).
* `vsanSetupToken.py:90`: a run that reports a failure may have replaced the token, at once or later
  (`TokenGrant` allows it); then nobody has the token vCenter accepts. Of two runs at the same time the
  one that printed last need not be the accepted one. `SecretCurrent` says that there is no other way.
* `vsanSetupToken.py:156`: the result of `main` is dropped, so the exit status is 0 after every failure
  that is caught.
* `vsanapiutils.py:244`: when the versions cannot be read the API version falls back to one of another
  namespace; what pyVmomi then makes of the metrics configuration is beyond this repository.
* `prometheus.py:945`: one entity with another host's UUID ends the stream of all hosts.

## 8. What is left

Not modelled, and why:

* the generated bindings, Helm charts, manifests, dashboards and guides: they have no behaviour;
* field layouts of Kubernetes objects, TLS, logging, numbers, units and help lines of the metrics: no
  property tells them apart;
* the labels a sample gets from the host's inventory (`augmentLabels`), which is read when the host is
  connected (`vsanPrometheusStats.py:125`): the repository says nothing of how fresh they are, and they
  follow from labels the model has, so they tell no series apart;
* `GetLatestVmodlVersion`, whose effect is inside pyVmomi, the parts of `vsanapiutils.py` that nothing
  calls (`GetVsanEsxMos`, `GetVsanEsxStub`), and the Wavefront format nothing uses;
* calls that never return: `requests.get` (`vsanPrometheusOperator.py:99`) and the connection to a host
  (`vsanPrometheusStats.py:157`) have no time-out, and the fairness above assumes that every call ends.

Further work: the operator in the place of the sidecar in `TokenChain`. It reads the token once
(`vsanPrometheusOperator.py:329`), so that after a rotation its queries are refused until the pod is
restarted. `Operator` has such an answer (a text that cannot be parsed), and its theorems say that nothing
advertised is dropped for it; but its `vc` is one answer for all pods, while after a rotation a pod that
started before is refused and one that started later is served. Liveness stays with TLC.

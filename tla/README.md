# A TLA+ model of the Kubernetes deployment orchestrator (kdo)

kdo installs charts into a Kubernetes cluster. A chart is a directory with a
`Chart.star` (a Starlark class with `init`, `apply`, `delete`), a `values.yaml`
and templates; it may contain sub charts, depend on charts that others share,
and own "jewels": contents made up once and kept in a secret. Charts are
installed by `kdo apply`, `kdo delete`, or by a controller that watches
`KdoChart` resources.

This directory models what of that has state. The models are translated from
the Go sources (`PROJECT.json`, "map", gives file and lines of every
definition); Kubernetes' API server, controller-runtime, kubectl, kapp and
service brokers are external and modelled from the calls made to them.

    tlc -config KdoController.cfg KdoController      # model-check one component
    tlapm KdoControllerProofs.tla                    # check the proofs

## 1. Inventory

| Component | Sources | State | Operations | Hard behaviour | What makes it correct |
|---|---|---|---|---|---|
| KdoChart controller | `controllers/kdo_chart_controller.go`, `cmd/controller.go`, `api/v1alpha2` | the resource (spec, finalizers, deletion timestamp, status), informer cache, work queue, Reconcile's copy | Reconcile, progress callback, event filter | stale reads, conflicts, dropped errors, crashes, other finalizers | no orphans, no forgotten event, status belongs to its phase, convergence |
| Apply and delete of a chart | `pkg/kdo/chart.go`, `chart_init.go`, `cmd/apply.go`, `cmd/delete.go` | record (config map), objects | apply, delete and their wrappers, sub charts | partial failure, order of objects, kill between two calls | a record stands for a whole chart; objects come and go in install order |
| Dependencies | `pkg/kdo/dependency.go`, `chart.go`, `repo.go`, `delete_options.go` | references in config maps | depends_on, addUsedBy, removeUsedBy, `--force`, `--recursive` | two commands at once, kills, listed charts without a namespace | a used chart stays; references go with their users |
| Options and values | `pkg/kdo/chart_options.go`, `chart_init.go`, `struct_property.go`, `property.go` | dictionaries of options, the chart's values | flags, `init`, `chart()`, SetValue | dictionaries shared by parents and sub charts | what the user sets is what the chart gets |
| Jewels | `pkg/kdo/jewel.go`, `user_credential.go`, `certificate.go`, `config_value.go` | secrets, contents in memory | read, ensure, template, write, delete | made up lazily, while rendering; errors in between | made up once; rendered is stored; signed by the stored signer |
| Service bindings | `pkg/extensions/osb_binding.go` | broker's instances and bindings | Apply, Delete with polling | asynchronous broker, refusals, a secret deleted first | secret and broker agree; what is bound exists |
| Tool driver | `pkg/k8s/k8s.go`, `object_stream.go`, `object.go` | handles and their progress, a tool process | Apply, Delete, progress, run | reports in any order, more clones than announced, a tool that dies half way | above 100, back or early at 100 only for a reason; done is 100, success is honest |
| Calls and watches of a script | `pkg/k8s/k8s_value.go`, `k8s.go` | the call that is made, its attempts and their time; two channels, a goroutine, a pipe | get, patch, delete, apply, rollout_status, wait; next, done | others write between read and write; what is waited for comes late; cancellation racing a hand-over | the contract of the interface `K8s`; waits end in time; nothing watched is lost, the goroutine ends |
| Cache of charts | `pkg/kdo/dir_cache.go`, `repo.go` | metadata file, a directory per generation | WrapDir, load, extract; the chain of openers | crash between two file operations, failing loads, an index and an archive of different ages | an open returns the whole version the server had; catalogs in order |
| API server client | `pkg/k8s/k8s_client.go`, `k8s.go` | a request and its answer | GET, PATCH, POST, PUT, DELETE; CreateOrUpdate, fallback to kubectl | get and put are two requests; a request or its answer is lost | a call takes effect at once, and at most once |
| In-memory cluster | `pkg/k8s/k8s_in_memory.go`, `cmd/test.go`, `pkg/kdo/test` | a map of objects | the same calls | namespaces and missing objects as in a cluster | keeps the contract the cluster keeps |
| Repository config | `pkg/kdo/repo_config.go`, `repo.go` | credentials, catalogs | longest prefix, catalogs | pointer to a loop variable | the first catalog that has the chart, unless the wrong credential is sent |
| Helm charts | `pkg/kdo/helm_chart.go` | `/tmp/values` | runs helm | - | - |
| Rendering | `pkg/kdo/renderer/*`, `injected_files.go` | output stream | go templates, helm, ytt | - | data |
| Packaging, metadata, conversions, command line, generated code | `chart_package.go`, `chart_class.go`, `pkg/starutils`, `cmd/*.go`, `fake_k8s.go` | none or data | - | - | - |

How they interact. The controller and the commands build a chart through the
repository (which may download it through the cache), pass the options to
`newChart`, and call `Apply` or `Delete`. These walk the sub charts, ensure
dependencies, render templates (which makes up jewels), and hand a sorted
stream of objects to kubectl or kapp, whose output comes back as progress
through the tree of handles to the command line or to the status of the
resource. Charts installed by different commands meet only in the cluster: in
the config maps `kdo.<genus>` and their annotations.

The full list of what is hard to test, with the line where it bites and the
property that watches it, is "hazards" in `PROJECT.json`.

## 2. Modules

    KdoChartLifecycle      what the controller promises (abstract)
      ^ implemented by
    KdoController          Reconcile, informer, queue, users        <- KdoControllerProofs
    ObjectStore            the contract of the interface K8s (abstract)
      ^ implemented by
    K8sCalls               API client, kubectl, double of kdo test
      ^ composed with Watch in                                      <- ScriptProofs
    Script                 a Chart.star that watches and calls
    Dependencies           charts that use each other               <- DependenciesProofs
    Install                a tree of charts, object by object       <- InstallProofs
    Jewels                 contents made up once                    <- JewelsProofs
    OsbBinding             the backend of a binding                 <- JewelsProofs
    ChartOptions           flags, init, arguments                   <- ChartOptionsProofs
    Openers                composes the steps of DirCache           <- OpenersProofs
    Progress               percents and the tools' output           <- ProgressProofs
      ^ MCDependencies, MCInstall, ... give the constants for TLC

**KdoController.** The resource is kept as the API server's revision log: each
write makes a version at the next resourceVersion (`Commit`), an update with an
old resourceVersion is refused (`Refused`), and a resource marked for deletion
vanishes with its last finalizer (`Settled`). The informer's cache is a
position in the log (`seen`), so Reconcile reads any version not older than
what it has read; `Deliver` moves it and asks the event filter (`Passes`)
whether the key is queued. controller-runtime never runs two workers on one key
and re-queues a key that changes meanwhile: with one resource `queued` and `pc`
are the work queue. Each API call of Reconcile is an action, `copy` is its
local `kdoChart`, with the resourceVersion it goes stale by. Users create,
update and delete; another controller adds and removes its own finalizer; calls
fail; the process dies anywhere and lists afresh. `deployed` abstracts the
chart's objects to `Nothing`, `Partial` or the specification they come from.
A `chart.Delete` that returns success is taken to have deleted everything (what
it forgives is in `Install`); all specifications of one resource address the
same installation.

**KdoChartLifecycle** is the abstract specification: objects are only created
under the finalizer, only removed after deletion was requested, and the
finalizer goes last. `Lifecycle == INSTANCE KdoChartLifecycle WITH phase <-
res.phase, guarded <- Guarded, spec <- res.spec, deployed <- deployed`.

**Dependencies.** A command is a stack of frames (`chart.Apply` and
`dependency.Apply` call each other); every call to the API server is a step:
list, patch of an annotation, get and put of the config map, delete. What is
stale between two of them stays in the frame. The model keeps what the code
does with names: an installed chart is listed by its config map and rebuilt
without its namespace (`ListedKey`), so a reference to a found chart goes to
the default namespace.

**Install.** The default `apply` and `delete` through a tree of charts: wrapper,
sub charts in any order, rendering document by document (a blank one is
skipped), sorting by kind, kubectl object by object, with objects it refuses,
and the config map before or after. What `sort.Slice` makes of the objects is any
permutation of them that is sorted (`Permuted`, `Sorted`), as it is not stable.

**Jewels** and **OsbBinding.** A jewel is read from its secret, made up when a
template or the secret itself asks for it, and written with the other objects.
A certificate asks its signer first. Contents are told apart by an id, 0 being
the placeholder a binding shows to templates. If nothing can be made up (the user
breaks off, the broker refuses), an attribute in `Chart.star` and the secret report
it, but a template shows None and goes on (`ShowNothing`; `blank` is what it did
this to): the jewel is asked for again later, and may be made up then. `OsbBinding`
is the binding's backend in detail: catalog lookup (with the pointers to loop
variables as they are), provision, poll, bind and back. As in the program, the
secret is deleted before the backend's `Delete` is called (`DeleteSecret`, `Delete`;
finding 3): the binding is then in `forgotten`. `Delete` only does something where
the deletion of the secret has failed and was taken for a success, which kapp's is.

**ChartOptions.** `heap` holds the dictionaries, a chart keeps a pointer to one.
Copying options for a sub chart copies the pointer; a nil pointer is filled by
the first argument that is set. A value is what it comes from. `SameBranch` says of two
charts that they belong to the same sub chart of the root, in a tree of any depth.

**Progress.** Every handle averages its own share with its clones', rounds to
five, drops what is no news and reports to its parent. A dependency that is not
found is applied through one more clone of its user's handle; an apply function may
make any call again (`Repeats`), report progress and change the tool. Nothing keeps
the number of clones at the number a handle was announced with. The tool's output is
read by a goroutine that goes on after a write error (`abandoned`). What one
report does to the tree is a chain of `Tell`s, one for each handle on the way to the
subscriber; chain and sums are recursive functions, so that they can be proved about.

**ObjectStore** is what the interface `K8s` promises a script, whoever
implements it: calls are made one at a time, each takes effect at one moment, at
most once, on the object its namespace addresses, or fails; others change objects
as they like. An error says nothing of the effect. "Not found" and nothing
(`ignore_not_found`) are only returned if the object was not there. What
`CreateOrUpdate` writes keeps what others have written (`theirs`) up to the
moment of its effect. `apply` may merge with what is there, as kubectl, or
replace it, as the double does.

**K8sCalls** is both implementations, chosen by `backend`. For the cluster, a call
becomes a request (`GET`, `PATCH`, ...) or a command of kubectl (`verb`), which
the cluster serves in a step of its own; `CreateOrUpdate` is a `GET` and then a
`POST` or a `PUT` with the resourceVersion it has read. A kind the client does
not know is looked up with kubectl, or an error. A request, or the answer to it,
may be lost (`Breaks`). `rollout_status` tries again after a pause while its
object is missing; `since` is the time of the attempt or the pause and `elapsed`
the time since the call began. A command is not started when the context is done
(`Expire`). For the double, each call is one step on the map; its keys are
`K8sInMemory.key`, with the namespace of the handle, the option or the object,
in the double's own order. `AnswerTo` is what k8s_value.go and `ignoreNotFound`
make of an answer. An object is abstracted to what the caller writes (`mine`)
and what it leaves alone (`theirs`). `Store == INSTANCE ObjectStore WITH objects
<- Held, result <- Result`: the objects without their versions, and what has
come back as far as the call will return it.

**Watch** and **Script.** `Watch` is `k8s.watch`: the goroutine that decodes, the
two channels of capacity one, and the loop that may leave at any time. `Script`
puts it and `K8sCalls` on the same objects: what a call or somebody else does to
the watched object is an event kubectl may print, calls are made in the body of
the loop, after it, or without one, and the loop waits while a call is made. kubectl
may not start (`StartFails`), and what it prints may be no object (`DecodeFails`,
after which the goroutine waits for kubectl, `Waited`): the goroutine ends with an
error that nobody reads. With the double, the stream of the watch holds the object
that was there, an error, or with `ignore_not_found` a nil object, which `Next`
cannot convert (`NextPanics`).

**DirCache.** WrapDir step by step, for entries of several names: read the
metadata, load into the next generation (a directory that is there is not
emptied) from a server or from a local archive, compare tags, create and encode
the metadata file, remove the old generation. Crashes come between any two, and
loads and writes fail. Which credential a load sends follows from the list that
is configured (`Sent`); a server may refuse it. A crash or an error between the
creation of the metadata file and the end of its encoding leaves it unreadable (`Broken`).

**Openers.** `repoImpl.Get` and the chain of openers that `NewRepo` builds, on
top of the actions of `DirCache`: it tries the catalogs in turn, and for a helm
URL opens the index, decodes it from the directory it got, and opens the archive
it names. `Candidates` is what each URL stands for, one candidate for every
catalog; `request` is the chain's position, with the candidates that failed for a
reason of their own (`excused`). `CatalogsInOrder` says that every other one that was
passed over lies behind one of two failings of kdo's own (`InTheWay`): an unreadable
metadata file, which no later open gets past, and a credential that is sent in place
of the one that would do. It has the specification of both
modules, and its run checks the properties of both.

## 3. Runs

Every run ends in under five minutes with two workers. Deadlock is not checked:
users, commands and events are bounded and stop.

| Run | States | Shows |
|---|---|---|
| `controller` | 158 k | `NoOrphans`, `NoLostWork`, `StatusFollowsPhase`, refinement of the life cycle, `Converges` if calls return |
| `controller_url` | violation | a specification with a ChartURL never converges |
| `dependencies` | 194 k | `DependenciesHeld`, `NoDanglingReferences`, `RecursiveDeleteCleans` with applies that overlap |
| `dependencies_parallel` | violation | an apply and a delete at once break `DependenciesHeld` |
| `install` | 141 k | `RecordHonest`, `PrerequisitesFirst` |
| `options` | 879 k | `CommandLineWins`, `ArgumentsStayInTheirBranch` |
| `progress` | 1.4 M | `ProgressTypeOK`, `InPercent`, `DoneMeansDone`, `SuccessIsHonest`, `NeverBackwards` |
| `script` | 307 k | `ImplementsStore`, `InTime`, `WaitsEnd`, `NothingLost`, `Delivered`, `GoroutineEnds` |
| `openers` | 1.1 M | `OpenedIsServed`, `CatalogsInOrder`, `MetadataHonest` |
| `jewels` | 2.4 M | `ContentsKept`, `RenderedIsStored`, `SignedByTheSigner`, `ProvisionedOnce` |
| `jewels_delete` | violation | a delete leaves the service instance at its broker |
| `osb` | 268 k | `BoundInstancesExist`, `SecretAndBrokerAgree` |

Every property comes with a mutant ("mutants" in `PROJECT.json`, the operators
marked *variant* in the modules): a plausible bug in the code it is about, under
which TLC finds it violated. So no property holds by the shape of the model.

Bounds, and why they are enough:

- `controller`: four user writes allow create, update or foreign finalizer,
  delete and one more in any order (a resource deleted and created again
  included); one fault is a failing call, a failing apply or a crash at any
  place; one progress report per pass races everything else. Two
  specifications, one of them with a ChartURL, suffice as specifications are
  only compared for equality. Proofs lift these bounds.
- `dependencies`: two users of a shared chart that itself has a dependency,
  five commands (install both, delete both, and one more), two at a time, one
  kill or failing call.
- `install`: a chart with two sub charts, one of which has one of its own (a record
  stands for the whole tree below it), objects out of order, two of a kind,
  one of a kind the order does not know, blank documents; four commands and two
  faults are a failed apply, its repetition, and a failed delete and its.
- `options`: three charts are both nestings (two siblings, child and
  grandchild), two keys told apart as the user's and an argument's.
- `progress`: a root with an apply function of its own that makes each call up to
  twice, two sub charts, a dependency of the root and one of a sub chart that has
  objects itself, reports of 50 and of 100, both tools. So handles do get more
  clones than they were announced with, a tool does start again on a handle, and 100
  is set before the end: the conditions of the properties are met and not met.
- `script`: one call is made, from any objects in two namespaces and while
  others write twice. Calls share nothing but the objects, so this stands for
  each call of a longer script: others can bring about any state of the objects
  that earlier calls can. The calls cover every operation with every option that
  changes its way through the code. An object that is there, two changes by
  others and one by the body are four events, more than the two channels, the
  goroutine and the pipe need to block on each other. Timeouts are none or one
  unit, as is the pause: a timeout that is over before, at and after the end of an
  attempt. A script with a loop starts with an empty other namespace, which its
  calls have nothing to do with.
- `openers`: a chart in three catalogs (a URL, a helm repository, a directory),
  a helm URL alone, a local archive, and a chart in two catalogs of which the first
  is private; two credentials that both fit the chart, and one of them also the
  private archive, for which the other one is sent; an index
  with three versions, two of them without a tag, so that two versions get the
  same tag from the clock. Four opens of entries are two chains through the helm
  repository, or an open after two that failed; one fault at any step.
- `jewels`: one of each kind of jewel, and a signer; three commands reach
  apply, apply again, delete, apply after delete; one fault.
- `osb`: five catalogs (the service offered alone, with another plan, absent,
  among several, in the last place), four applies, three refusals.

Fairness. `KdoController!Fairness` is weak fairness of `Deliver` (a watch that
is connected delivers), `Restart` (the deployment restarts the process) and
`Begin` (an idle worker takes a key from the queue). Users, faults and progress
reports are not fair, and neither is anything that happens within a pass: requests
carry no context and no deadline (`k8s_client.go:147`) and the poll of a broker does
not end (`osb_binding.go:165`), so an apply need not return. `Converges` therefore
says that the controller converges *if* its calls return (`CallsReturn`: a pass
stays at no place for ever), and so does `URLConverges`, whose counterexample is a worker
that panics and is restarted for ever. `ScriptSpec` is weak
fairness of kdo's own steps (`Proceed`, the double, the goroutine, the loop:
goroutines are scheduled, and a body of a loop ends if its calls do), of time,
and of a kubectl that has reached its `--timeout` or whose context is done. A
request to the API server is *not* fair, which is why
`WaitsEnd` speaks of kubectl's waits only and `Delivered` supposes that calls
return. kubectl need not start, need not print what happens, and need not end, and
`cmd.Wait` waits for it. The goroutine decodes what is in the pipe or fails to: which
of both is not fair. No time passes while kdo handles an answer.

## 4. Findings

Three runs end in a violation of what the repository says of itself:

1. `controller_url`: `GetFromSpec` (`pkg/kdo/repo.go:216`) tests `err != nil`
   where it means `err == nil`. A KdoChart with a ChartURL is never installed;
   Reconcile panics and the process restarts.
2. `dependencies_parallel`: `wrapDelete` reads the references and deletes the
   config map in a later call (`pkg/kdo/chart.go:547`); an apply in between is
   left without the dependency it has just found.
3. `jewels_delete`: `deleteLocal` (`pkg/kdo/chart.go:465`) deletes the secret
   before the jewel reads it to deprovision, so the broker keeps the instance.

Facts outside the runs' bounds, met while modelling:

- Progress passes 100 when a chart applies more charts than its handle was
  announced with: a dependency is one more clone (`k8s.go:296`), and so is a sub
  chart that is applied again, as in `doc/user_guide.md:112-116` and
  `charts/example/simple/cf/Chart.star:20-24`. In the run TLC finds more than 100
  at once if the condition of `InPercent` is left out.
- 100 is shown before the end when the dependency of the root is there, as it reports
  its end on the handle of the chart that asked for it, and when an apply function
  reports 100 (`doc/reference.md:252`). Progress goes back when `__apply` is called
  again on the same handle (`k8s.go:275`), when kapp counts anew, and after a value
  that was set this way. `DoneMeansDone` and `NeverBackwards` name these cases and
  exclude every other.
- The cache has no lock. With two processes TLC violates `OpenedIsServed` and
  `CatalogsInOrder`; the run has one.
- A local archive that is written between `os.Stat` and `os.Open` is cached under
  its old modification time. The next open loads it again, unless the archive
  that had this time is put back: the model's archives only get newer.
- Two first applies of one chart at once make up its jewels twice. With two
  processes TLC violates `ContentsKept` and `RenderedIsStored`; the run has one.
- The controller is started without leader election; `charts/kdo` deploys one
  replica, and the model has one process.
- The poll for an asynchronous broker never ends on success, as `break` leaves
  the switch only (`osb_binding.go:165` and `:262`). `OsbBinding` models it so:
  such an apply stores nothing, and its instance is known to nobody. The same goes for
  an instance whose bind fails.
- The service and the plan that are sent are the last ones the catalog lists with
  the names that are asked for, or behind them (pointers to loop variables,
  `osb_binding.go:120`). `SecretAndBrokerAgree` says that they are the ones asked for
  if nothing is listed behind them.
- A template shows None for a jewel that cannot be made up (`jewel.go:194`), and
  the secret may get a value later in the same apply (`jewel.go:159`).
- The pipe of a watch is never closed (`k8s.go:532`): a script waits for ever
  when kubectl ends. It also does when kubectl cannot be started (`k8s.go:535`) or
  prints something that is no object, as nobody reads the goroutine's error. With the
  double and `ignore_not_found`, the loop panics on the nil object. `Delivered` asks
  only for what kubectl has printed, and `GoroutineEnds` allows the wait for kubectl.
- `kubectl delete` errors that mention NotFound are forgiven even if objects
  were refused (`k8s.go:344`): the record is gone then and objects may stay. `kapp
  delete` gets no input, so that every failure of it is taken for a success
  (`k8s.go:339`, `:696`), and everything may stay.
- A recursive delete goes on to delete a dependency whose reference could not be
  removed, as zero references come with the error (`dependency.go:152-156`). Only the
  check of references in the dependency's own delete holds it back
  (`RemoveUsedByFails`, `ReleaseFailed`).
- A record that cannot be written is not an error of the apply (`chart.go:513`):
  the chart is there, and no one finds it.
- `rollout_status` hands each attempt of kubectl its whole timeout and looks at
  its own limit only when an attempt has failed (`k8s.go:385`): it may take twice
  the timeout and one pause of ten seconds. `InTime` states this bound.
- `k8s.list` (`doc/reference.md:187`) passes no label selector and
  dereferences it: it always panics in a cluster; the double says "Not
  implemented". `k8s.patch` with `ignore_not_found` of an object that is not
  there converts a nil object, which panics (`k8s_value.go:193`; `get` looks first).
- `namespace` of `k8s.apply` overrides the chart's according to
  `doc/reference.md:156`. The object gets the chart's namespace first and `-n` is
  the other one: kubectl refuses it. The double takes the other one.
- `ignore_not_found` becomes `--ignore-not-found` for every command;
  `kubectl apply`, `rollout` and `wait` do not know this flag. `kubectl get` does,
  and then prints nothing, which cannot be decoded: the fallback for unknown
  kinds returns an error instead of nothing.
- The double answers what may be missing in a wait with success, refuses a patch
  of it, replaces on apply, and takes everything that is there for ready.
- helm charts write their values to `/tmp/values` (`helm_chart.go:100`), whoever
  else does at the same time.
- The install order has "namespace" in lower case (`object.go:89`), so a
  Namespace among the objects of a chart comes last. `Install` has no such object:
  kdo makes the chart's own namespace before.
- A clone always has kubectl as its tool (`k8s.go:316`). A chart that is opened
  twice while its server changes loses the directory it was first opened in
  (`dir_cache.go:86`).
- The credential that is sent is the last one of the list, by a pointer to the
  loop variable (`repo.go:348`; go.mod asks for 1.18). `DirCache` has it so
  (`Sent`, and `Meant` beside it). In the run the private catalog's credential is not
  the last one: its chart comes from the next catalog. `CatalogsInOrder` names this.
- A crash while the metadata file is encoded leaves a name that cannot be opened any
  more (`dir_cache.go:83`), and its catalog is passed over from then on.
- A load that fails half way leaves its files for the next load (`dir_cache.go:71`).
  `OpenedIsServed` asks for all files of the version, and not that there are no others.
- A record is named by the genus only (`chart.go:338`): two installations of a
  chart with different suffixes share one. Every chart of the models has a name
  of its own.

## 5. Proofs

### The controller

These theorems hold for any set of specifications, any `Percents`, and any bounds
on users, faults and reports; they use only `SpecsAssumption` and
`BoundsAssumption` of `KdoController`.

`NoOrphans` and `NoLostWork` are not inductive: whether a pass acts on a stale
copy safely depends on what may have happened between the version it read and
the newest one. The inductive invariant `IInv` (in `KdoControllerProofs`) adds
what the log guarantees:

- `LogInv`, about the versions between the informer's and the newest: one that
  is being deleted has a finalizer and one that is gone has none
  (`LogSettled`); a deletion is not taken back (`LogNoRevival`); before a live
  version with the controller's finalizer there are only live ones, since the
  controller adds it only to what it has seen (`LogLivePrefix`); and a chain of
  versions the filter drops hides nothing but a disappearance or the added
  finalizer (`LogQuiet`);
- `SeenGuarded`: if the informer still has a live version with the finalizer to
  show, the resource has the finalizer now;
- `CopyInv`, `WorkerInv`: what each place in Reconcile knows of its copy and, if
  the copy is current, of the resource: an apply runs under the finalizer,
  during a delete no version to come is a live one with it, and nothing is
  installed when the finalizer is taken away;
- `Fresh`: a worker that applies, is not queued again and has no passing event
  ahead of it applies what the resource asks for.

The proof has one lemma per group of actions (`UsersInv`, `DeliverInv`,
`RestartInv`, `GetInv`, `WorkInv`, `ReportsInv`, `UpdatesInv`, `DieInv`), over
lemmas about the log (`LogCommit`, `LogTrim`, `TameWrite`). From it:

| Theorem | Establishes |
|---|---|
| `Invariance` | `Spec => []IInv` |
| `TypeCorrect` | `Spec => []TypeOK` |
| `FinalizerOutlivesChart` | `Spec => []NoOrphans` |
| `IdleMeansConverged` | `Spec => []NoLostWork` |
| `StatusFollowsPhaseHolds` | `Spec => StatusFollowsPhase` |
| `Refinement` | `Spec => Lifecycle!Spec` |

### Calls and watches

These hold for any namespaces, marks, pause, bounds and any set of calls, with
any timeouts, under `CallsAssumption`: the constants that stand for nothing are
not values, and callers give a namespace to an object only where the callers in
the repository do (`apply`; `CreateOrUpdate` of what lies where its handle does).
Without the latter the theorem is false: a `POST` goes to the handle's namespace
whatever the object says.

The contract is not inductive: whether a `PUT` keeps what others have written
depends on what was read two steps before. `IInv` (in `ScriptProofs`) adds

- `VerbInv`: which request belongs to which call;
- `RevisionInv`: no object, and no copy of one, has a version that has not been
  given yet; so a version is never given twice, and
- `CopyInv`: if what lies there has the version that was read, it has what others
  had written then. This is what the comparison of the API server is good for,
  and `PutBlindly` is the mutant without it;
- `TimeInv`: how `elapsed` grows over attempts and pauses: before an attempt it
  is at most the timeout and a pause, since longer ones end the call.

The proof of `CallsImplementStore` shows each action a step of `ObjectStore`, or a stutter: a
request that is served is the call's effect, except the reading half of
`CreateOrUpdate`, and a lost answer is an error after the effect. `NoneInv` (only
the double answers "none" itself) completes the invariant for this.
`ScriptProofs` lifts both to scripts that watch (every step of `Script` is a step
of `K8sCalls` or leaves its variables alone), and proves `NothingLost` by
`InOrder`: as long as the goroutine has not failed, the objects in `got`, `next`,
`obj` and the pipe are consecutive, and what the loop has got stays in order
afterwards; the double's nil object is never got (`NilHeld`). Its type
invariant needs `InOrder` too: it is what bounds the object that is handed over.

| Theorem | Establishes |
|---|---|
| `CallsTypeCorrect` | `Spec => []TypeOK` |
| `WaitsInTime` | `Spec => []InTime` |
| `CallsImplementStore` | `Spec => ImplementsStore` |
| `ScriptMakesCalls` | `ScriptSpec => Spec` |
| `ScriptInTime`, `ScriptImplementsStore` | the same in a script that watches |
| `ScriptTypeCorrect` | `ScriptSpec => []ScriptTypeOK` |
| `WatchLosesNothing` | `ScriptSpec => []NothingLost` |

### Apply and delete

`InstallProofs` is about any tree of charts (`Subs`), whatever their templates
render to, any order of kinds, and any number of commands and failures; it uses
the assumptions of `Install` only. `RecordHonest` and
`PrerequisitesFirst` speak of the cluster, and a step is one object, so the
invariant says what each call on the stack has done and has yet to do:

- `Frames`: a call that is not on top waits for a sub chart, and one that has
  begun to render has none left;
- `Complete`: every document is still to be rendered, or an object that is still to
  be sent, or was sent. So nothing gets lost between template and kubectl;
- `Ordered`: what is sent is sorted the way the command needs it;
- `SubsApplied`: the sub charts an apply has ticked off are there as a whole;
- `Unrecorded`: a delete has taken the record away before it touches an object.

| Theorem | Establishes |
|---|---|
| `Invariance`, `TypeCorrect` | `Spec => []IInv`, `Spec => []TypeOK` |
| `RecordsAreHonest` | `Spec => []RecordHonest` |
| `PrerequisitesComeFirst` | `Spec => []PrerequisitesFirst` |
| `AppliedMeansThere` | `Spec => []AppliedIsThere`: an apply that ends without an error has left everything there |

### Dependencies

`TypeCorrect` holds for any charts and commands. The other theorems suppose
`Setting`, and each part of it is there because the code needs it:

- all charts are in the default namespace, as a chart that is read back from its
  config map has lost its own, and references then go to the default one;
- no two charts have the same genus, which is all a record is named by;
- only applies overlap: finding 2 is what an apply and a delete do;
- no delete is forced, as `--force` deletes a chart that others use, on purpose.

Under it they hold for any graph of dependencies, any number of users, commands,
failing calls and kills. `Sound` says of each frame on a stack (`ApplyFrame`,
`DeleteFrame`) what it knows about its chart and its dependencies, and of two
frames that the lower one waits for the upper one; `Recorded` and `Dependent`
are what holds of the cluster in every state. `Alone` says that a delete has no
command beside it. As long as nothing has failed, `Tidy` adds where each reference
comes from (`Accounted`), that a dependency that was just applied is recorded
(`Ready`), and that a recursive delete leaves nothing behind it (`Cleaned`);
`Unfailed` says that no frame has lost an error. A dependency that is deleted after a
failed release still has its references checked: that keeps `DependenciesHeld`.

| Theorem | Establishes |
|---|---|
| `TypeCorrect` | `Spec => []TypeOK` |
| `DependenciesAreHeld` | `Spec => []DependenciesHeld` |
| `ReferencesGoWithTheirUsers` | `Spec => []NoDanglingReferences` |
| `NothingUnusedIsLeft` | `Spec => RecursiveDeleteCleans` |

### Jewels

`TypeCorrect` holds for any number of commands at once. The others suppose
`OneAtATime`, one process: two first applies at once break them, as TLC shows.
`IInv` relates the memory of an apply to the secrets. `Memory`: what templates have
seen is in memory. `Shown`: nothing was shown only for what a user or a broker failed
to give. `Current`: what is in memory is what the secrets hold, as far as
they hold anything, from the first read to the last write. `Signatures`: as long as
nothing failed, the certificates in the cluster fit together except in the middle
of the writes, and those in memory fit together from the end of the reads on.

| Theorem | Establishes |
|---|---|
| `TypeCorrect` | `Spec => []TypeOK`, for any `Procs` |
| `Invariance` | `Spec => []IInv` |
| `RenderedIsWhatIsStored` | `Spec => []RenderedIsStored` |
| `CertificatesFitTogether` | `Spec => []SignedByTheSigner` |
| `ContentsAreKept` | `Spec => ContentsKept` |
| `InstancesAreProvisionedOnce` | `Spec => ProvisionedOnce` |

### Service bindings

What `JewelsProofs` says of `OsbBinding` holds for every catalog and any number of calls, refusals and
restarts, without further hypotheses. `IdsInOrder`: each apply that starts has an
id of its own, and the secret, what is forgotten and the call that runs are about ids
that were given. `CallsInOrder`: only what is
offered is provisioned, only what is ready is bound. `BindingsStored`: every binding
at the broker is named by the secret or forgotten with it, and has its instance. `Whole`: as long as
nothing was refused, what the secret names is bound and ready, or on its way out.
`Accounted`: as long as nothing was refused, every instance is the secret's, a
forgotten one, or that of the apply that runs. That a
plan of the catalog is found rests on `LargestExists`, which is proved from the
well-founded order of finite subsets.

| Theorem | Establishes |
|---|---|
| `BindingInvariance`, `BindingTypeCorrect` | `BindingSpec => []BindingInv`, `BindingSpec => []BindingTypeOK` |
| `BindingsHaveInstances` | `BindingSpec => []BoundInstancesExist` |
| `SecretAndBrokerDoAgree` | `BindingSpec => []SecretAndBrokerAgree` |

### Progress

The theorems hold without any hypothesis: for any charts, sub charts and
dependencies (the same sub chart in several places, cycles of dependencies), any
numbers of objects, apply functions that repeat calls, any reports, and both tools.
`ProgressInv` says

- of the handles (`HandlesOK`): they are a tree below the subscriber's, whose one
  clone is the outermost apply's; each handle has a slot of its own in an older one, in
  which lies what it has told last (`Placed`), and every slot is somebody's (`Owned`);
- of what they have told (`AveragesOK`): a handle shows 100 at most, or the average of
  its clones: only averages exceed 100, as nobody reports more;
- of the calls (`FrameOK`, `StackOK`): each has a handle of the tree, and the
  outermost one is that whose end the subscriber is told of;
- of the end (`OutcomeOK`): when the outermost apply has succeeded, 100 is shown; a
  tool that is still read after a write error, or one that failed, means that the
  apply has failed.

`InPercent` follows without being told of time: if every handle fits the number it
was announced with, there is no highest handle that shows more than 100, since it
would show an average of its clones, which are younger (`Owned`) and show no more
than 100, and of a share of its own of at most 90. `NeverBackwards` is
proved of each step: if no handle is told something else than its average, and no own
share falls, then every average on the way up from a report rises or stays
(`CallRises`).

What a report does is a chain of as many `Tell`s as the tree is deep. That an
invariant of one step is one of the chain, and that a sum of more is more, would be
induction; the proofs take a least counterexample instead (`LeastExists`, from the
well-founded order of the naturals). That the recursive functions exist at all is
proved the same way (`SumsExist`).

| Theorem | Establishes |
|---|---|
| `ProgressInvariant` | `ProgressSpec => []ProgressInv` |
| `ProgressTypeCorrect` | `ProgressSpec => []ProgressTypeOK` |
| `ShownIsInPercent` | `ProgressSpec => []InPercent` |
| `DoneIsDone` | `ProgressSpec => []DoneMeansDone` |
| `ProgressNeverBackwards` | `ProgressSpec => NeverBackwards` |
| `SuccessIsAlwaysHonest` | `ProgressSpec => []SuccessIsHonest` |

### Options

`ChartOptionsProofs` holds for any keys, any tree of charts and any number of
statements. `Tree` and `Path`: charts are numbered as they are made, their parents
exist, and newChart runs once for each. `Kept`: the root keeps the first dictionary,
in which every key that nobody takes has the user's value. `Apart`: without
options on the command line the root never has a dictionary, and two charts that
share one, or a chart and the origin of an argument it can see, are in one branch.
That branches are kept as the tree grows (`BranchKept`) needs no induction:
`SameBranch` is about all sets of charts that are closed under parents and children.

| Theorem | Establishes |
|---|---|
| `Invariance`, `TypeCorrect` | `Spec => []IInv`, `Spec => []TypeOK` |
| `TheCommandLineWins` | `Spec => []CommandLineWins` |
| `ArgumentsStay` | `Spec => []ArgumentsStayInTheirBranch` |

### Cache and openers

`OpenersProofs` holds for any URLs, catalogs, credentials and versions, any
number of opens, faults and uploads, and `OneAtATime`: without a lock two processes
break it (section 4). `DirCache` assumes that a tag stands for one version, that no
server sends a tag like the clock's, and that a local archive that was written
again is newer. `IInv` follows a version from the server to the chain:

- `LoadSound`: what the loader has written so far is the version it was sent, and
  the tag it keeps is that version's, or one of the clock, or, for a local archive,
  one of a time that does not come back (`Newer`);
- `Honest`: what the metadata calls a version is there in full, with the same
  exception, which is why `MetadataHonest` is about served names only;
- `StepSound`, `Bounded`: the generation an open writes is not the one the metadata
  names, and there are no more generations than opens;
- `ChainSound`: what the chain has opened is what its open has opened, and for a
  helm URL the name the index has that the server sent;
- `Explained`: an open fails for a reason of its own, or at a name no later open gets
  past (`Stuck`: the metadata is unreadable, or the wrong credential is sent);
- `Excused`: every candidate behind the chain had a reason of its own, or is loaded
  from such a name. It stays one: metadata that cannot be read is never written again.

| Theorem | Establishes |
|---|---|
| `Invariance`, `OpenersTypeCorrect` | `OpenersSpec => []IInv`, `OpenersSpec => []OpenersTypeOK` |
| `MetadataIsHonest` | `OpenersSpec => []MetadataHonest` |
| `WhatIsOpenedWasServed` | `OpenersSpec => []OpenedIsServed` |
| `CatalogsAreInOrder` | `OpenersSpec => []CatalogsInOrder` |

### Only model-checked

- Liveness: `Converges`, `WaitsEnd`, `Delivered`, `GoroutineEnds`. The prover does
  not handle ENABLED, and so no fairness.
- Where a theorem supposes one process or a `Setting`, what happens without it is
  known from runs of TLC that violate the property.

## 6. Not modelled

- Charts that redefine `apply` or `delete`: their body is arbitrary Starlark
  (`Progress` and `Jewels` let it call what it can call there).
- Reading of `~/.kdo/config`; the shared directories of archives that come from
  the cluster or a resource (planned); `WrapReader`, which only a test calls.
- Of the calls of a script: `list`, which always panics; `for_config`, which makes
  another handle; `host`. `K8sInMemory.Delete`, which does to every object of a
  stream what `DeleteObject` does to one. A handle without a client, which
  answers "Not connected". `apply` with kapp (`Progress` has the tool, `K8sCalls`
  takes kubectl, as a clone has); `kapp delete`, but for the failure it hides.
- helm charts: kdo writes a file and starts helm.
- The text of templates, packaging, conversion between Go and Starlark,
  flags and output of the commands, generated code: data or input and output.

## 7. Plan

Order of the whole project, the most important behaviour first:

1. *Done.* `KdoController` and `KdoChartLifecycle`, checked, with the inductive
   invariant, the refinement and their proofs.
2. *Done.* `Dependencies`, `Install`, `Jewels`, `OsbBinding`, `ChartOptions`,
   `Progress`, `Watch`, `DirCache` with `Openers`, checked.
3. The directories of archives that several charts of one process share, and
   how long charts use a directory an opener has returned: `Openers` with
   `Dependencies`. (*Done*: the choice of a credential.)
4. *Done.* `K8sInMemory` and the API server client against one abstract store
   (`ObjectStore`, `K8sCalls`), with the watch in `Script`, checked and proved.
5. `KdoController` with a place of installation per specification, and with a
   second process while a rollout replaces the first.
6. *Done.* Proofs by inductive invariant of every safety property the passing runs
   check.
7. An abstract store of charts that `Install` and `Dependencies` implement.
8. *Done.* The averages of `Progress` as functions, and proofs of its properties.
9. `OpenersTypeOK`, and `DependenciesHeld` with a namespace for each chart, for
   more processes and charts than the theorems about them suppose.

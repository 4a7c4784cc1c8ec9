# A TLA+ model of conu

conu is a Python library for testing containers: a test asks a *backend*
(docker, podman, buildah, systemd-nspawn, Kubernetes, OpenShift) for an image,
runs containers of it, waits until they are ready and cleans up. This directory
models the parts of conu whose correctness depends on the order in which
several processes take their steps, model-checks them with TLC, and proves with
TLAPS what their safety rests on, for every value of the constants.

Paths below are relative to the repository; line numbers refer to the sources
these modules were written from.

## 1. The system

### Components, their state and operations

| Component | Source | State it keeps | Operations |
|---|---|---|---|
| Probe | `conu/utils/probes.py` | arguments, `process`, `queue`; in `_run`: `tries`, the clock, the current fnc process `p` and `fnc_queue` | `run`, `run_in_background`, `terminate`, `join`, `is_alive` |
| Backend life cycle | `conu/apidefs/backend.py`, `conu/fixtures` | `cleanup` (policies), `tmpdir`, the module variable `_backend_tmpdir` | constructor, `__enter__`, `__exit__`, `_clean` and its `cleanup_*` steps |
| Docker runs and cleanup | `conu/backend/docker/{image,container,backend}.py` | containers on the engine, cid files, `popen_instance` | `run_via_binary`, `run_via_binary_in_foreground`, `run_via_api`, `start`, `stop`, `delete`, `cleanup_containers` |
| Nspawn machines | `conu/backend/nspawn/{container,image,backend}.py` | systemd-nspawn processes, the machine known to machined, `start_process`, `systemd_wait_support` | `run_via_binary`, `start`, `stop`, `kill`, `cleanup`, `delete`, `execute`, `cleanup_containers` |
| Nspawn images | `conu/backend/nspawn/image.py` | files of the image store, loop devices, mounts | `pull`, `create_snapshot`, `rmi`, `bootstrap`, `mount` |
| Kubernetes | `conu/backend/k8s/*` | `managed_namespaces`, cached API clients, `Pod.phase` | namespaces, pods, services, deployments, their waits and their cleanup |
| OpenShift | `conu/backend/origin/*` | the current `project` | apps, `start_build`, `wait_for_service`, `clean_project` |
| Directories, filesystems | `conu/utils/filesystem.py`, `conu/apidefs/filesystem.py` | `_initialized`, mount points | `initialize`, `clean`, context managers |
| Export of a container | `conu/utils/__init__.py:352-403` | three processes joined by pipes | `export_docker_container_to_directory` |
| Docker images | `conu/backend/docker/image.py`, `skopeo.py` | `_id`, `_inspect_data`, transport and path | constructor and its pull policies, `pull`, `push`, `tag_image`, `inspect`, `rmi`, `using_transport`, `copy` |
| Docker containers as objects | `conu/backend/docker/container.py` | `_id`, `name`, `_inspect_data`, `metadata` | inspection, `start`, `stop`, `kill`, `delete`, `wait`, `execute`, ports |
| Podman, buildah | `conu/backend/podman`, `conu/backend/buildah` | as docker, over other command lines | as docker |
| Metadata, helpers, HTTP, rpms | `conu/apidefs`, `conu/helpers`, `conu/utils` | records | sequential, no state of their own |

### How they interact

* A **Probe** executes a function in a fresh process per try and gets its
  answer through `fnc_queue`; in the background its own error travels to
  `join` through `self.queue`. Everything in conu that waits uses one: the cid
  file of docker and podman runs, readiness of pods and services, namespaces,
  builds.
* A **run** of a docker container starts the docker client, waits with a Probe
  (2 s, 10 tries) for the cid file in the **backend's shared temporary
  directory**, and asks the engine for the container named there.
* An **object** of conu (container, image, pod, deployment) is a name and what
  the last request said of it; every method asks the engine or the cluster
  again, and other users of it go on between two requests.
* **Kubernetes** cleanup lists the whole cluster and picks what is in the
  namespaces the backend remembers; the cluster's controllers make pods again
  while they are deleted, and collect what a deleted deployment leaves.
* **OpenShift** goes by three notions of the current project: the argument of
  the call, `self.project`, and the configuration of `oc`.
* **Cleanup** lists what carries conu's label (docker) or name (nspawn) and
  removes it, whoever made it; several conu processes share an engine, and
  several backends of one process share one temporary directory.
* A **systemd-nspawn** process makes a machine. conu knows the process
  (`Popen`), machined knows the machine by its name, and the two are related by
  nothing else.

### What is hard here

* *Interleaving*: answers, deaths and timeouts of a Probe's processes; docker
  clients that outlive the call that started them; machines that go down
  between two commands; two sessions cleaning up at once.
* *Stale state*: `self.queue` after a background run; each backend's copy of
  the name of the shared directory; a list of containers that is worked through.
* *Ordering*: the clock is looked at before the answer, the count after the
  next process was started; the cid file is written before the container runs.
* *Partial failure*: a cleanup step that raises, a process killed while it
  writes, a boot not seen in time.
* *Liveness*: waits with and without a limit; pods that come back.
* *Unreliable commands*: `run_cmd` takes only positive return codes for failures
  (`conu/utils/__init__.py:122`), so that a command that is killed by a signal,
  a docker client, podman pull, umount, systemd-run or oc, counts as a success.

`PROJECT.json` lists every hazard at its line with the properties that cover
it, or with the reason why none does.

### What makes each component correct

* Probe: success means that the latest try answered as expected; the reason for
  giving up is the true one and hides no allowed success; an answer that was
  put is never missed; no process is left; an error reaches the caller once; a
  run with a timeout ends.
* Backend: nobody is handed a directory that is gone; a quiet exit has cleaned
  what the policy names, but for what a step that swallows its failures missed;
  without nesting no directory is lost.
* Docker: a background run's container has started, unless its client was
  killed; a quiet cleanup removed all it listed; an aborted one was disturbed
  from outside.
* Nspawn machines: no process is left over by retries; `stop` seals the
  machine's end; `execute` reports what happened, as far as it can know.
* Nspawn images: what `is_present` takes for an image is one, unless a command
  was cut short; whatever a call leaves behind has a reason.
* Kubernetes: what a cleanup deletes is the backend's own; a quiet one has
  deleted all that the policy names, but for pods that are made again, and
  these die out.
* Pods and apps: *ready* means that every pod was ready within the call; an app
  is where the checks look for it; every call ends.
* Container objects: one object acts on one container and speaks of it; an open
  port is the container's own, as far as one inspection can tell.
* Image objects: an object speaks of one image; a pulled or tagged image is
  there, what is pushed is what was tagged, skopeo reads and writes where the
  caller said.

## 2. The modules

| Module | Models | Kind |
|---|---|---|
| `ProbeContract` | what one execution of `_run` promises | abstract specification |
| `Probe` | `conu/utils/probes.py`, all of it | detailed; implements `ProbeContract` |
| `MCProbe` | values for the cfgs (a cfg cannot write -1) | instance |
| `Backend`, `MCBackend` | `conu/apidefs/backend.py` with the fixtures; a DockerBackend and an NspawnBackend | detailed, instance |
| `DockerSessions`, `MCDockerSessions` | docker runs and cleanup by several conu processes | detailed, instance |
| `NspawnMachine` | nspawn containers, their processes and their machine | detailed |
| `NspawnImages`, `MCNspawnImages` | `conu/backend/nspawn/image.py` without running: files, loop devices, temporary images | detailed, instance |
| `K8sBackend`, `MCK8sBackend` | `conu/backend/k8s/backend.py` with the deletions of pods, services and deployments | detailed, instance |
| `PodReadiness` | `Deployment.wait`, `Pod.is_ready`, `all_pods_are_ready` | detailed |
| `OriginApps` | `conu/backend/origin/backend.py`: deploying, building, waiting, cleaning | detailed |
| `ContainerObject` | one `DockerContainer` or `PodmanContainer` and its engine | detailed |
| `Images` | one `DockerImage`, `PodmanImage` or `BuildahImage`, the engine and the registry | detailed |
| `ProbeProofs`, `BackendProofs`, `DockerSessionsProofs`, `K8sBackendProofs`, `ContainerObjectProofs`, `ImagesProofs` | theorems about the module of that name | proofs |
| `NspawnProofs` | theorems about `NspawnMachine` and `NspawnImages` | proofs |
| `OriginProofs` | theorems about `OriginApps` and `PodReadiness` | proofs |

### Probe

One action per step of `_run` that another process can observe: the `while`
condition with the clock (`RunWhile`), `p.is_alive()` (`RunPoll`), the sleep,
the five outcomes of a dead process (`RunReapNothing`, `RunReapException`,
`RunReapUnreadable`, `RunReapExpected`, `RunRetry`), termination of the last
process and the report (`RunTerminateFnc`, `RunExpired`). `Finish` is every
`raise`, `return` and `queue.put` of the function, which depend on whether
`self.queue` was made. `_wrapper` is `FncReturns`, `FncRaisesExpected`,
`FncRaises` and `FncAnswersNothing`: it catches `Exception` only, so that after
a `SystemExit`, or with a result that cannot be pickled, nothing is put, and a
result may be put that the reader cannot load (`"Unreadable"`). `_run` then ends
with an exception that it does not pass on, so that `join` has nothing to raise.
A background `_run` that is terminated leaves its fnc to itself (`orphans`). A
fnc process is alive until its queue is flushed: a result that fits the pipe is
there as soon as the process is dead, a bigger one (`BigRetvals`) keeps it alive
(`"flushing"`), because `_run` reads from dead processes only. Killing a
flushing process leaves a `"Fragment"`, on which `get()` blocks for ever: it
enables no step. Exceptions are one value, results three. Time is a tick counter
that saturates above the timeout, and tries without a count saturate at
`TriesCap`, which decides nothing then. `ending`, `hitTry`, `lost`, `reported`
are history.

### Backend

Construction, `__enter__`, the use of a directory by a docker run, `__exit__`
and the extra `_clean` that the fixtures call inside their with-block (`inner`).
`Plan` is the order of `_clean` (lines 177-196): containers, volumes, images,
directory; a step may remove its kind, do nothing (a stub), raise (not
implemented), or try (`"tries"`: nspawn's `cleanup_containers` logs the
`CalledProcessError` of a removal and goes on, `nspawn/backend.py:78-79`), which
`Support` says of each backend class, and the engine may refuse a removal. What
such a step has not removed is in `missed`. `_clean_tmp_dirs` logs what it
cannot remove.

### DockerSessions

A run is named by the container it would make. The docker client is a process of
its own: it creates the container, writes the cid file, starts the container, or
fails or is killed anywhere in between (`CliCreates` ... `CliFails`,
`CliKilled`). The engine may still carry out the last request of a killed client
(`LateRequest`), and `run_via_binary` takes its end for a success.
`run_via_binary` waits for the client and then probes;
`run_via_binary_in_foreground` only probes. `cleanup_containers` lists (`List`),
then stops and removes one container after the other, two requests each;
containers with `--rm` vanish, and the first error ends it. Sessions are conu
processes on one engine. That a Probe with a limit ends is what `RunEndsInTime`
shows of `Probe`; here it is one step, `ProbeSees` or `ProbeRaises`.

### NspawnMachine

`_internal_reschedule` launches a process and looks at it a second later
(`Launch`, `PollAlive`, `PollDeadAgain`, `PollDeadGiveUp`),
`_wait_for_machine_booted` looks for the machine by its name (`BootSeen`,
`BootNotSeen`). `stop` and `kill` ask machined, wait (`FinishWait`, which
never waits) and send a SIGKILL to the process (`Reap`), which dies, and whose
machine goes, in steps of their own later; the call does not wait for either.
`execute` runs a unit, with `systemd-run --wait` or without it (`wait`), then
looks at its exit code (`IsFailure`) and copies the output. Any of these
commands may be killed and then counts as a success. Machine, processes, unit
and another conu process's `cleanup_containers` take their own steps. `left`
(history) is the processes that no object holds any more, because a boot was
not seen or a later start took their place.

### NspawnImages

Processes (`Clients`) with one image object each share a directory. A pull is
`curl` or `cp` into `<name>.xz` and `xz -d`, or `cp` of a plain file; each
command opens, fills and closes its file in steps, may fail, and may be killed,
which `run_cmd` does not notice (`utils/__init__.py:122`). `xz -d` refuses to
write over a file. `cleanup_images` lists and removes entry by entry. Snapshots
and tags are objects over the same file, so that they are further clients.
`bootstrap` holds a mounted temporary image, `NspawnImageFS` a loop device and a
mount; the glob of its partitions also finds devices with a longer name
(`NameStartsWith`). A device that is still mounted is marked (`going`) and goes
with its last mount, and a losetup or umount that is killed (`cut`) leaves its
device or mount without a word.

### K8sBackend

Each session is a `K8sBackend`. `CreateNamespace` remembers the name and starts
the Probe, whose ends, a success or an exception, are `NamespaceWaitOver`.
`Plan` is `_clean`; each cleanup method lists (whole cluster, filtered by
`managed_namespaces`) and then deletes one object per step, which the API
refuses when the object is gone, or for its own reasons. Pods die after their
grace period, deployments replace them (`Replicate`), the collector removes the
pods of deleted deployments (`Collect`); other users make objects next to them.
`Unreadable` objects make the listing itself raise, as the constructors of
`Service` and `Deployment` do.

### PodReadiness

Every request to the API is a step. `all_pods_ready` makes up to four (`d1` to
`d4`), `all_pods_are_ready` one per listed pod. `wait` has a timeout
(`limited`), of 15 s unless the caller says otherwise, or with -1 none, and may
end by it between two polls (`WaitTimesOut`). Pods come, flip and go, and the
controller writes the two numbers of the status when it gets to it.

### OriginApps

A deployment chooses the project (`ChooseProject`), imports, calls `oc new-app`,
and, from a source, builds within a Probe that reads two results (the third `oc
start-build` is started, not waited for, and left to itself). `oc import-image`
and `oc delete` go by oc's own project, `new-app` by the argument, the checks by
`self.project`. Without a project the command line of `new-app` cannot be joined
(`NewAppWithoutProject`, a `TypeError`). A killed `oc` counts as a success
(`NewAppKilled`, `BuildKilled`; `killed` is the apps that may not exist for that
reason).

### ContainerObject

The object may be made with an id or a name. The name passes on to a new
container when the old one is removed (`CreatedAnew`); containers start, exit
and change networks and addresses between the requests of a method.
`is_port_open` is two steps, a blocking `execute` is three (start, output,
exit code), `get_port_mappings` one or two. `known` is the list of addresses in
the metadata, which an inspection of a container without networks leaves as it
was. `PodmanContainer` differs in `_inspect`, in the empty address, in `delete`,
which goes by the name, and in commands that may be killed.

### Images

One object for the name `Own`, and the object `New` that `tag_image` or the
caller of `save_to` gives. Registry and engine map names to images; others
publish, tag, untag and remove between any two requests (`meddled`; `lost` if
they removed an image that is asked about). A constructor is given a name, which
it looks up and may pull, or an identifier, which it inspects. `push` (tag,
construct, push by name) and `copy` (change both transports, read, write) are
several steps. `Used` is `using_transport` with its temporary directory; it
ignores a path that comes without a transport. skopeo refuses every
docker-archive, whose parameter lacks a colon (`skopeo.py:32`). A `podman pull`
or `buildah pull` that is killed counts as a success (`cut`).

### How the modules fit together

`ProbeContract` is what the other modules assume of a Probe: that it ends, with
a success or for a stated reason. Each of them takes these ends as steps of its
own (`ProbeSees` and `ProbeRaises`, `NamespaceWaitOver`, `WaitTimeout`, ...)
instead of instantiating `Probe`, whose states would multiply theirs.
`DockerSessions` and `ContainerObject` cut the docker containers in two: who
makes and removes them, and what one object says of one of them.

Definitions called *Faulty variant* in their comment are not part of any
specification: each is a plausible bug, kept to show that a property notices it.

## 3. The runs

| Run | What it shows | Bounds |
|---|---|---|
| `probe` | every ending of `_run` has its reason, an answer that was put is never missed, `join` tells the ending once, the inductive invariant, refinement of `ProbeContract`, `_run` ends in time or by its count | 3 calls; timeout never or 1 tick; count none to 2; `True` or `False` expected; one kind of result too big for the pipe; processes may be killed, put nothing or put what does not load |
| `probe_swallowed` | *violated*: a failed `run()` raises | 3 calls |
| `backend_cleanup` | the shared directory exists, none is lost without nesting, a quiet exit has cleaned | 2 backends, 3 directories, 8 policy lists, nesting 2, removals may fail, loudly or logged |
| `docker_sessions` | background runs have started, quiet and aborted cleanups | 2 sessions (symmetric), 2 containers, all three ways to run, `--rm` or not, clients may be killed |
| `nspawn_machine` | processes, `stop`, `execute`, every call returns | 4 calls, 2 launches and 2 looks per start, 8 processes, with and without `--wait`, another process cleaning up, commands may be killed |
| `nspawn_finish` | *violated*: past the wait the machine is gone | 2 calls |
| `nspawn_images` | partial files and leftovers have a reason, a pull that returns is usable, an unpacked image is not written over | 2 processes (symmetric), 2 images (one compressed, one plain), 2 devices one of whose names begins with the other, commands may fail or be killed |
| `k8s_cleanup` | cleanup touches only its own, is thorough, pods die out | 1 session, 2 namespaces and a stranger's, 1 pod of its own and 2 of a deployment, 1 service, deletions may be refused, namespaces may be dropped by hand |
| `pod_readiness` | what `True` means, and that `wait` ends | 2 pods and a build pod, 3 changes, `wait` with a timeout or without |
| `origin_apps` | apps are where the checks look, calls end | 2 projects, 1 app, 2 switches of oc's project, commands may fail or be killed |
| `container_object` | one container per object, which it speaks of; ports are its own | 2 containers bear the name in turn, 2 addresses |
| `images` | what an object knows is of one image; pull, tag, push, transports and copies | 2 images, 2 names, 2 directories, all three classes, commands may be killed |

Why the bounds are enough. Three calls on a Probe give a background run, its
`join` and a foreground run after it, or a `terminate` in between; count 0, 1, 2
has the off-by-one cases on both sides; a timeout of 1 with a pause of 1 lets
the clock run out before, during and after a sleep. In `backend_cleanup` two
backends can be nested, follow each other and be entered again; the third
directory is what a stale name would be confused with. Two docker sessions with
one container each interfere in every way one pair of lists can, and both can
own both containers. Four nspawn calls allow run, start, stop and one more;
`MaxProcs = 8` is 4 starts of 2 launches, so that no launch is ever refused. The
constants that bound `_internal_reschedule` (3) and the looks (30) are 2, one
more than the least that allows a retry. Two processes on two images meet in
every command on either; a second session in `k8s_cleanup` would add nothing,
since backends share only the cluster, where the stranger stands for it (the
proofs hold for any number). Three changes let a pod get ready, lose it and get
ready again between two requests. One app in two projects, with oc's own project
switched away and back, has every disagreement of the three notions of the
current project; a second app shares nothing with it but those. Two containers
under one name are what an id and a name can be confused between, and two images
what a tag can; two directories are the caller's own and a temporary one, or two
temporary ones.

`CHECK_DEADLOCK FALSE` is set where the caller may stop calling, or a bound is
used up, and the program is then at rest.

### What the violated runs say

Each one checks a sentence of a docstring or a test that the code does not keep.
Other disagreements between the code and its documentation are in section 5.

* **A swallowed failure** (`tests/unit/test_probe.py:50`): after
  `run_in_background` the queue stays, and a later failing `run()` puts its
  error there and returns `None` or `False`.
* **A wait that does not wait** (`nspawn/image.py:319`): the output of
  `machinectl` is compared with the number 0.

### Fairness

`Probe`: the scheduler runs `_run`, the queue's feeder thread, the exit of
processes and the delivery of SIGTERM, and the clock moves (weak fairness on
`LoopStep`, `Flush`, `ProcessExit`, `ProcessTerminated`, `Tick`, `JoinReturn`).
Nothing makes a fnc return, a killer kill or the caller call. The loop never
waits on anything but the clock, so weak fairness is what an operating system
gives. `NspawnMachine`: conu's own steps (`StartStep`, `StopStep`,
`ExecuteStep`), and commands run in a machine end (`UnitEnds`); machines need
not boot nor go down. `K8sBackend`: only the cluster's collector is fair
(`Collect`); `PodsDieOut` needs nothing of conu. `OriginApps`: conu's own steps
(`Continue`), and the timeout of `wait_for_service` (`WaitTimeout`), which has one
always. `PodReadiness`: conu's own requests (`Wait`), the clock of a `wait` with a
timeout (`WaitTimesOut`), pods that make progress (`Progress`), and a controller
that writes the status in the end (`WriteStatus`). `DockerSessions`,
`NspawnImages`, `ContainerObject`, `Images`, `Backend`: none, their properties
are of safety.

## 4. What is proved

Every theorem holds for all values of the constants that satisfy the module's
one named assumption (`ProbeAssumption`, `SessionsAssumption`,
`K8sAssumption`, ...): the types of the arguments, and that names of different
kinds differ. Nothing bounds the number of sessions, containers, namespaces,
objects, calls, retries or images. The proofs have one form: an inductive
invariant holds initially and after every step (`InitInv`, `StepInv`; in the
modules with two invariants `StoreInitInv`, `StepCleanInv`, `WaitStep`, ...),
one step of the proof per action and under it one per conjunct the action can
disturb; the theorems are read off the invariant, and an action property is a
step of its own under it. Two proof modules are about two models each; the
second model's `Init`, `Next`, `TypeOK`, ... carry a prefix there (`Store`,
`Readiness`), so that both can be extended. Every invariant on which a proof
rests was checked with TLC on the runs' instances before it was proved.

| Module | Theorems (the property of a run, where it is one) |
|---|---|
| `ProbeProofs` | `TypeCorrect`, `Invariant` (`IInv`), `SuccessEarned`, `NoHitHidden` (`CountHidesNoHit`), `HonestExpiry` (`ExpiryIsHonest`), `QueueIsFlushed` (`RuntimeErrorOnlyIfUnanswered`), `NoLeftover`, `TriesAreBounded`, `JoinIsTruthful` (`JoinTellsTheTruth`), `Refinement` (`KeepsContract`), `LateRunsEnd`, `CountedRunsEnd` |
| `BackendProofs` | `TypeCorrect`, `SharedDirectory` (`SharedDirExists`), `UnnestedDirectories` (`UnnestedTmpdirsAreKept`), `NormalExits` (`NormalExitIsClean`) |
| `DockerSessionsProofs` | `TypeCorrect`, `BackgroundRuns` (`BackgroundRunHasStarted`), `QuietCleanups` (`QuietCleanupIsComplete`), `CleanupAborts` (`CleanupAbortHasReason`), `RemovalsAreFinal`, `ApiRuns`, `CleanupsGetOn` |
| `NspawnProofs`, machines | `Invariant`, `NoStray` (`NoStrayProcess`), `StopEnds` (`StopEndsMachine`), `ExecuteTells` (`ExecuteTellsTheTruth`), `CallsAreFinite` |
| `NspawnProofs`, images | `StoreTypeCorrect`, `PartialFiles` (`PartialHasReason`), `Leftovers` (`LeftoversHaveReason`), `PulledImages` (`PulledIsUsable`), `UnpackedImages` (`UnpackedImageIsKept`) |
| `K8sBackendProofs` | `TypeCorrect`, `OnlyItsOwn` (`OnlyItsOwnIsDeleted`), `NamespacesDropped` (`QuietExitDropsNamespaces`), `ThoroughExit` (`QuietExitIsThorough`), `OnlyDoomedPods` |
| `OriginProofs`, apps | `TypeCorrect`, `AppInItsProject` (`AppIsWhereChecksLook`), `CallsAreFinite` |
| `OriginProofs`, readiness | `ReadinessTypeCorrect`, `ReadyPods` (`ReadyMeansEachWasReady`), `StablePolls` (`StablePollIsRight`), `ReadyPolls` |
| `ContainerObjectProofs` | `TypeCorrect`, `OneContainer` (`ActsOnOneContainer`), `DataAgree` (`DataIsOfTheId`), `OpenPorts` (`OpenPortIsItsOwn`) |
| `ImagesProofs` | `TypeCorrect`, `IdsAndData` (`IdAndDataAgree`), `ReadyImages` (`ReadyImageIsThere`), `PushedImages` (`PushedIsTheTagged`), `TransportPaths` (`PathGoesWithTransport`), `Copies` (`CopyGoesWhereItSays`) |

None of the properties is inductive. What strengthens them:

* **Probe.** That `SuccessIsEarned` holds after a reap depends on what is in
  `fnc_queue`, which depends on who wrote it. `IInv` says, phase by phase, who
  may be where (`Roles`), what `_run` knows of its process (`FncStage`), that
  the queue holds at most one answer, and holds one once the process is dead,
  unless it was killed or put none (`AnswerStage`), how the number of tries
  relates to the place in the loop (`TriesStage`), that a hit belongs to the
  latest try and is what will be read (`HitStage`), that endings are final
  (`EndingStage`), and that a background error is in the buffer, in the pipe or
  delivered, never in two places (`DeliveryStage`). `StepContract` maps each
  action of `Probe` to one of `ProbeContract` or to a stutter.
* **Backend.** As long as nothing is nested at most one block is open, and the
  shared directory, if there is one, is that block's. For `NormalExitIsClean`:
  one block is cleaned at a time, and what its policy names, its class can
  remove and is still there is also still in `todo`, or was missed in this very
  `_clean` (`CleanInv`); it is in
  `todo` to begin with because `_clean` has a step for every kind
  (`PlanIsComplete`, which is about `Plan` and all lists of policies).
* **DockerSessions.** A docker client at work on a background run keeps its
  session inside the call (`RunsInv`), so that handles are of containers that
  were started or whose client was killed (`CallersInv`); what a cleanup listed
  and no longer has before it is removed (`CleanupInv`).
* **NspawnMachine.** Which call may be where (`PcInv`), a machine is served by
  one process, unless that was killed (`ServeInv`), which the container object
  holds unless it is in `left` (`HandleInv`), and the exit code is the unit's, a
  killed systemd-run's or a text (`CodeInv`).
* **NspawnImages.** A client at work has an image, and writes one only within a
  command (`ObjectInv`); a client that no exception has reached holds a
  temporary image only on its way through `bootstrap` (`ScratchInv`), and a
  mount or a device only on its way through a file system's life, or because
  of a killed command, or of another's mount (`MountInv`). With the types and
  `PartialHasReason` this is `StoreInv`.
* **K8sBackend.** `managed_namespaces` is exactly what the session made
  (`ManagedInv`), objects are in some space (`HomeInv`), what is to be deleted
  was created (`TodoInv`); with NAMESPACES each of them is still to be listed,
  to be deleted, or deleted (`DropInv`), and without it what the policy names is
  dead, to be deleted, or of a kind still to be listed (`ThoroughInv`). A pod
  of a deployment is where its deployment is or was (`FamilyInv`).
* **OriginApps.** A call that deploys works with `self.project`, and by the time
  it builds the app is there, unless `oc new-app` was killed (`DeployInv`).
* **PodReadiness.** In `all_pods_are_ready` a pod that was there from the
  beginning is still to be asked, or has been ready, and once one has been asked
  one was ready (`LoopInv`); in `wait`, what the requests of a poll returned is
  still the status, if that did not change since the poll began (`PollInv`).
* **ContainerObject.** Addresses are not shared (`AddrInv`), whatever was done by
  an id was done by the one known now (`IdInv`), and between the two requests of
  `is_port_open` the address is the one inspected, or the inspection showed none
  (`ConnectInv`).
* **Images.** Results are of finished calls, and what a call has found is there
  unless others or a killed command interfered (`CallInv`); in a push, from the
  tag on, the new name is the tagged image's, unless others were at work
  (`PushInv`).

All safety and action properties of the passing runs are proved. Some theorems
state what no run lists: that a docker container that was removed stays so,
whichever client was still at work on it (`RemovalIsFinal`), and that a
container without conu's label, made by `run_via_api`, is removed by its caller
only, never by a cleanup (`ApiRunsAreTheCallers`).

Only model-checked: the six liveness properties (`RunEndsInTime`,
`RunEndsByCount`, `CallsReturn`, `PodsDieOut`, `CallsEnd`, `WaitReturns`).
Leads-to under fairness needs ENABLED, which is out of reach of the provers that
are installed. What these properties rest on apart from fairness is proved, as
action properties, for every value of the constants:

* `LateRunsEnd`, for `RunEndsInTime`: once the timeout is over, each of `_run`'s
  steps lowers `StepsLeft`, which is at most 5, and nothing else raises it or
  gives the time back.
* `CountedRunsEnd`, for `RunEndsByCount`: with a count, each step lowers
  `TryWork`, which is at most `5 * (count + 1) + 1`, except for a look that
  finds the fnc alive, which raises it by 2; and nothing else raises it.
* `CallsAreFinite` of `NspawnProofs`, for `CallsReturn`: each of conu's steps in a
  call lowers `Work`, systemd and other processes leave it as it is, and no call
  starts with more than `BootLooks + 2 * Retry + 6` (`CountInv` keeps launches and
  looks within their limits).
* `CallsAreFinite` of `OriginProofs`, for `CallsEnd`: the same, with at most four
  commands that conu waits for (`TriesInv`).
* `CleanupsGetOn`, for docker's cleanups, which no run states as liveness: the
  list never grows, and each round takes a container off it or is the last.
* `OnlyDoomedPods`, for `PodsDieOut`: after a quiet exit with EVERYTHING the pods
  that are left are dying, or belong to a deployment that is gone, or to a
  deleted namespace, and no pod comes back.
* `ReadyPolls`, for `WaitReturns`: a poll does not fail whose status says from
  beginning to end that the pods are there and ready.

What is left to TLC is that a fair scheduler takes these steps, and, for
`RunEndsByCount`, that fncs answer.

## 5. What is not modelled, and why

* **Directories and filesystems**: one caller, one object, straight lines of
  system calls. **Export of a container**: three processes joined by pipes,
  where how much two foreign programs print decides. **Metadata, HTTP, rpms,
  helpers**: one computation or one command per method.
* Within the modelled components: logging, the building of command lines and
  `set_logging`; logs, copies and `write_to_stdin` of a container; builds,
  layers, signatures, source-to-image and mounts of an image; the foreground run
  and the metadata of nspawn; `Pod.phase`, `get_logs`, `get_status`;
  containers-storage and ostree as transports. Python's interpreter is not
  interrupted (no KeyboardInterrupt).
* A Probe's fnc is a black box: it answers, hangs, puts nothing, or its process
  is killed. Its side effects belong to the component that uses the Probe.

### Where the code and its own documentation differ

Besides the two violated runs. Each of these can be read off the lines named;
the models do as the code does, and the properties make room for it in the place
their comments name.

* Probe: `count` is the "Maximum number of tries" (`conu/utils/probes.py:34`), and
  `count + 1` fnc processes are started: the loop goes on while
  `tries <= count` (line 116), and `tries` counts processes that were started. The
  last one is terminated unless the hit comes first. `ExpiryIsHonest` and
  `CountHidesNoHit` are about what the code counts.
* Backend: "When entering the context manager, the backend will create a new
  temporary directory. You can use it if you want" (`apidefs/backend.py:84`).
  A block opened inside another is handed the outer one's directory, and
  removes it (line 27, 199). `OpenTmpdirExists` says what the docstring says; it
  holds without nesting (`UnnestedTmpdirsAreKept`) and not with it.
* Commands: `run_cmd` "raises subprocess.CalledProcessError if it fails"
  (`utils/__init__.py:113`), and does not if it was killed by a signal (line 122).
  A background run whose docker client is killed after it wrote the cid file
  returns a container that never ran; a killed `podman pull` an image that is
  not there; a killed umount leaves its mount.
* Nspawn: without `--wait` the exit code is `ExecMainStatus` as a text, which is
  compared with 0 (`nspawn/container.py:357`), and `execute` raises for a command
  that succeeded; lines 277 and 319 describe this way as a workaround "to be able
  to read exit code". With `ALWAYS` a present image is fetched and then refused by
  `xz -d` (`nspawn/image.py:236`, 241), each time; the docstring says that it is
  pulled and may be overwritten (lines 97-99).
* OpenShift: "project where to deploy, default: current project"
  (`origin/backend.py:86`), and without one the command line is joined with a
  `None` in it, a `TypeError` (line 99). "Start new build, raise exception if
  build failed" (line 195): `CountExceeded` is raised while a third `oc
  start-build` is left to itself (line 209), which may build the app after the
  exception.
* Docker containers: "If the command fails, a ConuException is thrown"
  (`docker/container.py:453`); a command that has closed its output and still runs
  has `None` for an exit code, which counts as a success (lines 487-494).
  `get_IPv4s` is empty for a container with "disabled networking" (lines 320-322),
  but keeps the addresses of an earlier inspection (`docker/utils.py:119`).
  podman's `delete`, "remove this container" (`podman/container.py:225`), removes
  whichever bears the name (line 231).
* Docker images: `source_path` is "needed to specify for dir, docker-archive or
  oci transport" (`docker/image.py:308`), and is ignored unless a
  `source_transport` comes with it (lines 228-229), as in
  `tests/integration/test_docker.py:92` and `:97`. docker-archive never works
  (`docker/skopeo.py:32` leaves out the colon).

### What else the code does

No sentence of the repository contradicts these, and no run states them.

* Probe: an expected exception counts as a success with `expected_retval=False`.
  Without a timeout, a fnc that returns more than a pipe holds never ends. A
  `_run` that dies by its own `RuntimeError` in the background is silent at
  `join`.
* Backend: `EVERYTHING` reaches `cleanup_volumes`, which nspawn does not
  implement: images and directories are not cleaned. nspawn's
  `cleanup_containers` logs what it cannot remove, so that a quiet exit may
  leave machines. `cleanup_containers` of one session removes the containers of
  all.
* Docker: a foreground run whose Probe gives up after two seconds leaves its
  client at work, and a container to come. A pull replaces the image under the
  name and the object keeps the old id; an object made with an identifier is
  content if the name is absent; `tag_image` tags by name for docker, by id for
  podman and buildah. A `push` event with neither status nor error counts as
  progress. A `copy` changes the transport of its source for good. `get_metadata`
  fails on a container without an image.
* Podman: a container without an address has the one address `""`, and
  `is_port_open` asks this host. Buildah's `scratch` is never pulled.
* Nspawn: a snapshot is the original's file. The glob for partitions of `loop1`
  also finds `loop10`. `cleanup(force=True, delete=True)` lets the `OSError` of
  `rmi` through.
* Kubernetes: a cleanup stops at a namespace that was deleted by hand. Once
  `delete` was called a pod's phase is TERMINATING for ever.
* OpenShift: a service that answers with another page ends the wait with an
  exception. `clean_project(delete_all=True)` puts a list into the list of
  arguments, which `run_cmd` cannot join: a `TypeError`, and nothing is deleted.
  Without either argument a ConuException is made and not raised (line 385).

## 6. What could come next

A module for the export's pipes, and one that composes `Probe` with
`K8sBackend`'s namespace wait by an INSTANCE of `ProbeContract`, would be the next
models.

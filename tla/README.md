# RAVE deployment: a TLA+ development

This directory holds TLA+ models of the parts of the RAVE deployment repository
that keep state while other things happen around them: the management-network
daemon, its IPC boundary and its NetworkManager backend, the browser page that
drives them, the boot-time root expansion, the model store, the V5
camera-to-Hailo benchmark pipeline, and the way from the repository to running
devices: build, verification, packaging and boot. TLC checks small instances of each; TLAPS
proves the most important invariants for every value of the constants.
`PROJECT.json` lists the runs, the mutants that show that each property can be
broken, the source lines behind each definition, the hazards and the findings.

    tlc -workers 2 -config MCNetworkController.cfg MCNetworkController
    tlapm NetworkControllerProofs.tla

## 1. Inventory

| Part | State | Operations | What makes it correct |
|---|---|---|---|
| Controller (`rave_networkd/controller.py`, `rave_network_ipc/state.py`) | mode, station name, last error, a queue of one item, `_lock`, `_operation_lock` | request boot / connect / provisioning, scan, process one item, recover, reconcile | two threads never drive NetworkManager at once; a busy mode is always owned and ends; status is coherent; a lost link is noticed; an accepted request runs |
| Backend (`rave_networkd/backend.py`) | NetworkManager's profiles, the active connection, the DHCP unit | boot activation, connect, promote, roll back, setup AP | no interruption or failure forgets the saved network; the saved name has one owner; DHCP never serves a joined network |
| IPC server and client (`server.py`, `client.py`, `protocol.py`) | connections waiting, the one being served, what each caller was told | connect, receive, dispatch, send, time out | a refusal leaves nothing; an acceptance is real; the server comes back to `accept` |
| Page (`static/app.js`) | poll and staleness timers, scan in progress, action deadline, message | poll, invalidate, scan, two actions | nothing old is shown as current; polling never stops; an action's deadline ends |
| Web API (`app.py`, `providers.py`, `models.py`) | none that outlives a request | GET status/network/system, POST connect/provisioning, scan | every state of the daemon and of the local files is reported, as what it is |
| Scan and selection (`backend.py` 183-215, 461-530, `network_policy.py`, `protocol.py`, `app.js` 31-62, 308-449) | the page's list, selection, password field and button; the work in hand | scan, parse, select, type, request, check, stage a profile | the list is what is on the air; no station costs the user the list; a credential is refused only when the network changed |
| Root expansion (`rave_grow_rootfs.py`, its unit) | partition table, kernel's view, ext4 size, completion record | one sequence per boot | the record is never a false claim; success is durable; growth completes from any partial state |
| Model store (`rave_model.py`) | version directory, staging, `current`, `known-good`, lock file | install, activate, qualify, roll back | pointers name whole versions, also after a power cut; activation is durable |
| V5 pipeline (`rave_v5_pi_benchmark.py`) | two latest-frame slots, an event, schedule, counters | capture, decode, infer, shut down | no lost wake-up, order, target rate, accounting, a stop is heard |
| Build and packaging (`build-rave-os.sh`, `package-release-candidate.sh`, `write_provenance`) | shell variables, the builder's work directory, `provenance.json`, the candidate directory | read key, name the commit, build, verify, record; check, extract, compress, sum, record | the manifest tells of a verified artifact what it was built from, and the image beside it is that artifact |
| Image verifier and engineering key (`verify_rave_image.py`, `engineering_ssh_key.py`) | none between checks | read unit files, check a root filesystem, check a key | no image it passes gives devices a common identity, crosses the two networks or fails to come up |
| Image layers, hooks and units (`image/`, `systemd/`) | the root filesystem; on a device, the jobs of a boot | install files; first boot and later ones, missing devices, hanging services, the first SSH connection | the same, on running devices |
| Edge scaffolding, qualification scripts, wire schema, page shell, repository checks | none between steps, or configuration | sequential checks and conversions | see section 8 |

How they interact. The page calls the web API over HTTP. The API calls the
daemon over a local socket, one connection per call, each with its own timeout.
The daemon's IPC thread serves one connection at a time and either answers from
the controller's state, scans, or enqueues one item; its worker thread takes the
item and drives NetworkManager through the backend, or reconciles when the
queue stayed empty for ten seconds. systemd restarts the daemon. Root expansion
runs once per boot, and the model store whenever operators call it; both live
on an ext4 filesystem that a power cut takes back to its last commit. The
pipeline is a program of its own with three threads. All of them come to a device
in an image: the build reads the repository while it may be edited, the verifier
decides whether the image passes, the packaging copies it next to later rebuilds,
and systemd starts what its units say.

What is hard: the two locks and two threads of the daemon with an exception path
that runs outside one of them; promotion as five external commands, each of
which may be refused, time out after it took effect, or be the last one before
the daemon stops; callers that time out while their request waits; timers of the
page that must agree with each other when nothing is answered; power cuts;
the wake-up and rate logic of the pipeline; and unit files, whose effect depends on
every other file of the unit, on ordering cycles, and on which boot it is.

## 2. Modules

| Module | Models | Role |
|---|---|---|
| `NetworkController` | controller, both daemon threads | one action per `_lock` section; a backend call lasts while a program counter names it |
| `WorkController` | what the controller does at the grain of whole items | abstract specification, refined by `NetworkController` and used by `NetworkIpc` |
| `StationBackend` | backend | one action per nmcli/systemctl command |
| `SavedNetwork` | what the backend promises of the saved network | abstract specification, refined by `StationBackend` |
| `NetworkIpc` | client, socket, server, in front of `WorkController` | one action per step of a connection |
| `StatusReport` | daemon's snapshot, client's checks, both providers, the API's models | extends `NetworkController`: pure operators on its state |
| `WifiScan` | nmcli's lines, their parsing, the scan's list and its checks | pure operators |
| `NetworkSelection` | the page's list and form, the request's validations, the daemon's second scan | extends `WifiScan`; one action per event handler and backend step |
| `SetupPage` | `app.js` in front of the API | one action per event handler; timers count down |
| `RootExpansion` | `expand_root`, the boot, the card and its journal | one action per step, power cuts between any two |
| `ModelStore` | `rave_model.py`, the store and its journal | one action per step of each running command |
| `FramePipeline` | the three threads of the benchmark | one action per access to shared state |
| `UnitFiles` | root filesystems and unit files, as the verifier and as systemd read them | pure operators |
| `EngineeringKey` | `engineering_ssh_key.py` | pure operators |
| `ImageVerifier` | every check of `verify_rave_image.py` | pure operators, extends both |
| `Images` | the images that can be built, with the verdict on each | extends `ImageVerifier` |
| `RaveImage` | what the reviewed layers, hooks, overlays and units leave in an image | definitions for the instance |
| `ReleaseBuild` | the build and packaging scripts beside a developer | one action per command that reads or writes shared state |
| `ApplianceBoot` | systemd on devices that boot such images | one action per job, device, power change and connection |
| `Deployment` | composes the last two | from an edit in the repository to a booted device |
| `*Proofs` | theorems about the module they are named after | |
| `ApplianceProofs` | theorems about `Deployment` and about `RootExpansion` | |
| `MC*` | small instances for TLC | |

`Deployment` composes the build and the boot by conjunction of their next-state
relations; one verdict, `Verifies`, stands between them. The other models meet at
named boundaries rather than in one product, which would be out of reach: `NetworkController` chooses the outcome of a backend call that
`StationBackend` opens up, and shows (`BackendExclusive`) that one thread at a
time is in there, which is why `StationBackend` needs one program counter;
`NetworkIpc` has whole work items behind it, the actions of `WorkController`, which
`NetworkController` is proved to implement (`RunsWholeItems`), so that what holds of the
one controller's items holds of the other's; `SetupPage` takes from the API the report and whether a POST is accepted,
`StatusReport` shows that there is a report, and `NetworkSelection` has what
`SetupPage` leaves out of the scan and of the connect request: their contents.

### NetworkController

`mode`, `stationSsid`, `lastError`, `work` and `opLock` are the fields of the
class; `pc`, `task`, `item`, `seen`, `got` and `prior` are the worker's program
counter and locals, `ipc` is where the IPC thread is. `link` is what wlan0 does,
which the mode is meant to follow. `Transitions` is `_TRANSITIONS`; an event
without an entry raises, and `leaves_by_exception` is Python leaving the `with`
block before the `except` clause: the operation lock is free while
`recover_unexpected_failure` calls the backend. A backend call returns success,
failure or an exception. A scan's mode check and its lock are two actions
because the code releases `_lock` in between. `link_lost` and `restart` can
happen at any moment.

### WorkController

The mode, the item in the queue and the item in hand. A request moves the mode and
fills the queue in one step; an item is taken, may move the mode to TRANSITION when
the station cannot be joined, and ends with a mode its kind may end in, or with ERROR
when the mode has been moved meanwhile; `reconcile` starts a recovery only when
nothing is queued. The refinement mapping of `NetworkController` counts Boot as queued
until `request_boot` (the socket does not exist before), `running` is the item from the step that
takes it to the step that publishes its outcome, and a recovery is running once the
loss has moved the mode. `NetworkIpc` takes each of these actions whole and adds the
thread that asks for them.

### StationBackend and SavedNetwork

`profile` maps every profile that can exist to its name (saved, pending,
previous, absent), `active` is what is up on wlan0, `dhcp` the unit's state.
Each command succeeds, is refused ("clean"), or takes effect and is reported as
failed ("late": `SubprocessRunner._run` returns code 124 on a timeout). A new
profile is created and then, for a protected network, given its key management
(`create_pending`, `secure_pending`), with room for a stop in between. What a
boot would join is `BootChoice`: the saved profile, else the one backup.
`SavedNetwork` promises that a boot finds the confirmed network or the one on
trial. The refinement mapping is `saved <- BootChoice` and `trial <- candidate`
while a promotion or its rollback is under way; `confirmed` is a history of what
the daemon last settled on.

### NetworkIpc

A call chooses what it asks for, connects into the backlog and may give up at
any time. The server accepts, receives (or drops a silent or malformed client at
its deadline), dispatches, and sends, whether or not somebody still listens. A
scan gets the lock between two items at the latest, in the worker's ten idle seconds;
whether it also gets it earlier is left open. `queued`,
`running` and `done` say whose work the controller has.

### StatusReport

From the controller's variables to the answers of one poll: `_snapshot_locked` and
`_snapshot_response` in the daemon, `validate_status_response` in the client,
`pi_network` with its fallback to wlan0's address, `pi_system` over os-release and
the temperature, and the models that FastAPI checks each answer against. An
answer that does not fit its model is an internal error, and one missing answer
out of three makes the page show nothing. Of a text only its length is kept. Every
combination of values that os-release can have is an input, the one for which the
system's answer fails (`TooLongTogether`) included.

### WifiScan and NetworkSelection

A name is a sequence of characters, so that escaping (done by nmcli) and
splitting (`_split_escaped_fields`) are modelled by what they do. nmcli's output is one
text; `splitlines` cuts it where Python does, also inside a name with a line
separator, which nmcli does not escape. `air` is the
stations in reach; `scan(air)` is the set of lists the daemon can return, more
than one because the order among equal signals and names is left open. The page
keeps the list, the selected name, the password field and the button; a request
carries what the user was `shown`, and `work` what the second scan `heard`.
`Credentials` is the check that three layers repeat. `Faithful` is the reference
definition of a list, stated on the stations and not on lines of text.

### SetupPage

`poll` with its timer, the `answer` and what is `shown`, both with their age,
the staleness timer, the scan and the list it leaves to choose from, the state
of each POST, the action's `deadline` and the `message` about it. Handlers are
atomic, as in one event loop; `tick` is refused while a due handler has not run.
Any request may be slow, fail or never be answered. `network_changes` lets the
appliance change by itself.

### RootExpansion

Sizes are in allocation steps, `Slack` is `MAX_TRAILING_BYTES`. `table` is the
partition table, `kernel` what the running kernel believes, `fs` the filesystem,
`marker` the record, and `disk` the last commit of the journal. A command can
fail before or after its effect. A card can be copied to a larger one while the
device is off.

### ModelStore

There is one selected model in the code (its name and digest are constants), so
a version is absent, whole or damaged, and a pointer is unset or names it.
Whether bytes are synced is kept apart from whether the directory entry is
committed. A command can fail at any system call, be killed, or be cut off.

### FramePipeline

A frame is its arrival time. `compressed` and `prepared` are the slots. The wait
for the event ends at any time, as it does after 100 ms. Time advances between
any two steps, so any delay is covered.

### UnitFiles, EngineeringKey, ImageVerifier, Images and RaveImage

A root filesystem is a function from paths to entries with a mode, an owner, a
text and the `traces` that the secret scan would find. A unit file is a sequence of
lines, a line its words and how it ends: at a newline, at a separator that only
Python splits at, in a backslash, or in a backslash that blanks follow. Sections,
comments, continuations and resets are read as `systemd_directives` and
`effective_systemd_list` do. Every `require` is a conjunct. systemd reads for itself:
`AsSystemd` drops a comment line before it looks at continuations, also between the
parts of a continued line, continues at a backslash only at the very end, and ends a
line at a newline only; `Setting` and `Dependencies` work on what is left, and a
dependency cannot be reset. A key blob is decoded by `_read_field`, with one place for the
length and two for the key. `RaveImage` is the reviewed image, a union of what each
layer leaves behind; `MCDeployment` makes 46 others of it by one change each.

### ReleaseBuild

`tree`, `commits` and `key_file` may change between any two commands. `build` and
`package` are the shell variables and the next command of the two scripts. The
work directory is named by commit, so that a rebuild overwrites what a packaging
may already have checked: neither script takes a lock, and any step of one may come
between two steps of the other. `steady` is a history, of each: nothing that the build reads
twice, or reads after it was named, has changed in between; no build has replaced,
between two looks of the packaging at it, what it packages (`Overtakes`). Every command
may fail, and either script may be run again in the same directories.

### ApplianceBoot and Deployment

`PlanOf` is all that systemd, networkd, NetworkManager, avahi and dnsmasq take from an
image: jobs, orderings, requirements, listeners, interfaces. A socket that is bound to
an address and to no interface is reached from every interface, as Linux delivers
it (`Reachable`); what it listens on is kept apart from that (`ListensOn`). A unit in
`/etc` hides the one in `/usr/lib`. A boot starts with
every job of the default target, less one job if the orderings have a cycle
(systemd's choice). A job runs when nothing it is ordered after has a job; it
fails with its requirements, with two commands where one is allowed, without
`FreeBind` before the address is there, or without host keys (`sshd -t`). wlan0
or eth0 may never appear, NetworkManager, avahi or the expansion may hang, and power
may go at any point, also while the host keys are still missing. `flash` writes
a candidate whose checksums hold to a card.

## 3. Runs

| Run | Shows |
|---|---|
| `controller` | `BackendExclusive`, `StatusCoherent`, `BusyEnds`, `LossIsNoticed`, `AcceptedConnectionRuns`, `PollIsServed` and the refinement of `WorkController` (`RunsWholeItems`) in every interleaving of both threads, a scan, exceptions, lost links and a restart |
| `controller_hidden_work` | finding 1 |
| `profiles` | `OneSavedName`, `DhcpNeverServesStation` and the refinement of `SavedNetwork` (`SavedNetworkKept`), with three refused commands, two stops and two attempts, and the boots after them |
| `profiles_late_delete`, `profiles_two_backups` | findings 2 and 3 |
| `ipc` | `RejectedLeavesNothing`, `AcceptedIsReal`, `AnsweredInOrder`, `ServerReturns` for two calls of any kind |
| `selection` | `ScanIsAccepted`, `RefusalMeansChange`, `ProfileHasPassword`, `ListIsTheAir` while stations come and go, are reconfigured and move |
| `page` | `ShownIsRecent`, `InProgressIsPending`, `PollingContinues`, `ActionEnds` |
| `rootfs` | `ClaimIsTrue`, `SuccessSurvives`, `ClaimWithinDisk`, `BootCompletes` |
| `model_store` | `PointersNameWholeVersion`, `ActivationSurvives`, `OnlyQualified`, `VersionsAreFinal` |
| `pipeline` | `NoLostWakeup`, `FramesInOrder`, `RateBounded`, `Accounted`, `StopIsHeard` |
| `deployment` | `InterfacesAreSeparate`, `DevicesDiffer`, `SshComesUp`, `ManagementComesUp` for 47 contents of the repository and two devices; `ManifestIsTrue` with two builds and two packagings beside each other, an edit or a replaced key, commits and a stop |

`TypeOK` is not among the runs' invariants: where it matters to an argument it is
proved for every value of the constants (`TypeCorrect`). Nor is `BusyIsOwned` of the
controller, which is proved (`BusyAlwaysOwned`): a run in which a
busy mode lost its owner would violate both `RunsWholeItems` and `BusyEnds`.

Each property's comment in its module says what it means; each has a mutant, a
plausible slip in a mapped definition (`<definition>_<What>`) under which TLC
finds it violated in the same run.

### Bounds

- Controller: two names, one restart. The queue has one place in the code. A
  second name tells an accepted request from the one in hand; one restart meets
  every program point.
- Backend: three profiles: the old one, the candidate and a third that a crash
  left. The bounds on faults, stops and attempts are in the configurations.
  `profiles` has three refused commands, two stops and two attempts: two failures in
  one promotion (a refused command and then a refused demotion) do give two owners of
  the saved name, a third or a stop makes them stay, and `OneSavedName` says which
  counts do that. `SavedNetworkKept` says until when it holds (`Undisturbed`). Its
  failures are clean: a command that took effect and is reported as failed is
  finding 2, an attempt after a stop finding 3. `DhcpNeverServesStation` and
  `OneSavedName` are proved for both kinds of failure and any number of them.
- IPC: two calls of any kind, beside the daemon's own boot and recovery items,
  and a backlog of one (`listen(4)` in the code), so that a full backlog, a served
  call with another waiting, and a call that gave up all occur.
- Status: os-release with and without each value, on both sides of the length at
  which a value is cut (5 for 64), name and version that fit together and that do
  not, and temperatures at both limits and beyond.
- Selection: four sets of stations, with a hidden name, one that is too long, one
  with a control character, one that nmcli escapes, two with a line separator at their end
  or inside, one with two stations, equal signals, and more names than the limit of two (64 in the code); a password of
  accepted length and one the server refuses; two requests, so that an abandoned
  one is still served when the next is made.
- Page: a tick is a second: poll timeout, retry delay and validity are one tick,
  the poll delay of half a second is rounded up. The long timeouts are shortened
  and stay the longer ones, since no guard depends on their difference. Two
  actions and one scan, so that each handler meets each other.
- Root expansion: an image of 2, cards of up to 6 and a slack of 1, so that a
  card is replaced more than once and a partition ends inside and outside the
  slack; two faults and two cuts, so that a boot meets what two earlier ones left.
- Model store: two operators; one fault, one kill, two cuts.
- Deployment: 47 contents of the repository: the reviewed one, four that differ from
  it without harm, four that systemd and the verifier read differently, 14 with a wrong
  SSH setup, six with something that must not be
  cloned, 17 with a wrong management network and one with a small root partition.
  Two boots and one missing device or hanging service:
  a first boot that is cut short and a second one, or one boot of each of two devices
  with the same image. Cards are written only after a release that nobody
  disturbed (`CardsAt`), and nothing is released after that (`ReleasesGoOn`): what a
  device does depends on the image it was written with. Three first contents
  (`LongReleases`) see more than one release; the theorems hold for any value of the three
  bounds.
- Release: the three contents of `LongReleases` (the verifier passes one, refuses one,
  and the configuration check refuses the third), one edit or replaced key, two
  builds, two packagings and one stop: enough for a rebuild at each step of a
  packaging, a retry in a directory left half-way, and a commit that is named and then
  left.
- Pipeline: seven ticks, a period of three and a camera gap of two: enough for a
  second period to be skipped while catching up. `MaxTime` also bounds the end of
  the run that main sets when the camera has started.

Symmetry is used where all properties of a run are invariants or box properties
and the specification treats the values alike, and in no run with a liveness
property. `CHECK_DEADLOCK FALSE` is said of the pipeline, whose program ends, and
of `NetworkIpc`, where the bounded number of calls is used up while the daemon
has nothing to do, and of `Deployment`, where a verifier that refuses every
build leaves nothing to do. The other models never stop.

### Fairness

- Controller: both threads are scheduled, and every backend call returns because
  each command is run with a timeout (`backend.py` 63-84). Strong fairness of the
  two lock acquisitions of the worker: a thread that finds the operation lock free
  again and again gets it. Nothing is assumed of clients.
- IPC: both threads are scheduled, items end, and a scan gets the lock in
  one of the worker's idle waits (strong fairness). Callers and links may do anything.
- Page: time passes and due timers fire. No request need be answered.
- Root expansion: a started oneshot service runs on, and a device that is off is
  switched on again. No fault or cut is excluded; `BootCompletes` speaks of a boot
  without a further one.

- Deployment: systemd runs each job that can run, devices that are there appear, and a
  service that hangs is timed out, except a oneshot one, which has no timeout. Nobody
  need build, write, power or connect anything.

The pipeline, the backend and the model store have safety properties only.

## 4. Theorems

| Theorem | Module | Inductive invariant |
|---|---|---|
| `TypeCorrect`, `BackendIsExclusive`, `BusyAlwaysOwned`, `StatusIsCoherent` | `NetworkControllerProofs` | `TypeOK`, `LockInv` (who holds the operation lock, read off both program counters) and `ScanInv`; `StatusCoherent` alone |
| `ItemsAreWhole` (refinement) | `NetworkControllerProofs` | `ItemInv`: which item the worker has, and that an item queued while the worker looks after the link has moved the mode |
| `PollsAreServed` | `NetworkControllerProofs` | `TypeOK` of the controller |
| `DhcpIsKeptFromStations`, `TypeCorrect` | `StationBackendProofs` | `DhcpInv`: where the service is known to be stopped, and where the AP is what is up |
| `SavedNameHasOneOwner` | `StationBackendProofs` | `FewFaults`, which is `OwnerInv` for as long as few enough commands have failed: who has the saved name and the backup name at each command |
| `SavedNetworkIsKept` (refinement) | `StationBackendProofs` | `KeptInv`: which of the two profiles boot finds at each command of a promotion and of its rollback |
| `TypeCorrect`, `RejectionsLeaveNothing`, `AcceptancesAreReal`, `AnswersAreInOrder` | `NetworkIpcProofs` | `OrderInv`: the socket is a queue, what waits in it was sent in that order and after everything answered; `WorkInv`: a call is in the controller's hands only after its dispatch |
| `ManifestsAreTrue` | `ApplianceProofs` | `ReleaseInv`: what each step of a build has read is still so (`BuildReads`, `BuildMakes`), and of a packaging unless a build overtook it (`PackageReads`); a record is true of the history (`Truth`), in a candidate too (`CandidateTrue`) |
| `InterfacesStaySeparate`, `DevicesStayDifferent` | `ApplianceProofs` | `ReleaseInv` and `BootInv`: a card holds the plan of some image, and the identity of a device with a verified one is what a blank image becomes |
| `ExpansionTypeCorrect`, `ClaimsAreTrue`, `SuccessIsDurable`, `ClaimsWithinDisk` | `ApplianceProofs` | `NoRecordYet`, `Verified`, `RecordedSync`, `RecordWithin` |
| `TypeCorrect`, `PointersAreSound`, `ActivationIsDurable`, `OnlyQualifiedModels`, `VersionsStay` | `ModelStoreProofs` | `LockHeld`, `Sound`, `Validated`; the two action properties step by step, from `LockHeld` |
| `TypeCorrect`, `WakeupsAreKept`, `FramesAccounted`, `RateIsBounded`, `FramesStayInOrder`, `StopsAreHeard` | `FramePipelineProofs` | `NoLostWakeup` alone; `AInv` for the accounts; `RInv` on top of it for the rate; `OInv` for the order; `StopInv`, that the flag is up before the event is set |
| `ScansAreAccepted` | `NetworkSelectionProofs` | `air \in Airs`; the lemmas `PointsValid` and `ScanBounded` about the list of any scan |
| `RefusalsMeanChange`, `ProfilesHavePasswords` | `NetworkSelectionProofs` | `ListTyped`, `ButtonHonest` (what an enabled button promises of the selection and the field), `PostsAgree`, `WorkAgrees` |
| `TypeCorrect`, `ShownStaysRecent`, `InProgressStaysPending` | `SetupPageProofs` | `FetchRunning`, `AnswerFresh`, `ShownFresh` |

They hold for any names, profiles, sizes, delays, operators and bounds, from the
named assumptions of each module.

- `BackendExclusive` is not inductive: recovery runs without the lock. It holds
  because a scan only starts in a settled mode, and from then on a busy mode can
  only appear while the worker, with the lock, restores the setup AP (`ScanInv`);
  an exception inside that call never reaches the recovery, and `Events` shows
  that TRANSITION accepts its outcomes.
- `RunsWholeItems`: each step of the two threads is a step of `WorkController` or a
  stutter. The step that a reviewer would look at is the recovery of a lost link: reconcile
  asks the backend without `_lock` and a request may be accepted meanwhile; it moves
  the mode, which `_reconcile_station` reads again (`controller.py` 188), so that a
  recovery starts with an empty queue only (the last conjunct of `ItemInv`). An
  exception in a recovery would leave an item without an end; it cannot be raised,
  because a recovery publishes from TRANSITION, where nobody else moves the mode
  (`ScanInv`). A connection that is processed while the mode is already
  STATION_CONNECTED moves it to TRANSITION when it fails; it takes three overlapping requests to
  get there.
- `ShownIsRecent` needs that an answer's age and what is left of its fetch timeout,
  and what is shown and what is left of the staleness timer, each keep a bounded
  sum: neither bound is visible in the property itself.
- `ActivationSurvives` needs that a whole version always has synced bytes and that
  a committed pointer is also the visible one.
- `PollsAreServed` holds of every os-release (`OsReleaseAssumption` says only that
  lengths are numbers), because `PollIsServed` names the one case in which the system's answer
  fails, and says that it fails there: without `PRETTY_NAME`, name and version are cut to 64
  characters each (`providers.py` 119-128) and joined, and two long ones exceed
  what `SystemResponse` allows (section 5).
- `RejectedLeavesNothing` and `AcceptedIsReal` need that the call being served is not
  yet known to the controller until its dispatch, and known ever after, unless a
  restart forgot it; `AnsweredInOrder` that a call is sent once (`sent` has no
  repetitions).
- `RefusalMeansChange` needs that an enabled button means a network the page can
  join, with the password field enabled if it is protected (`ButtonHonest`), and
  that this still holds when the list is replaced while something is selected.
- `RateBounded` needs that `next_due` never falls behind the first frame by more
  than the attempts made, including the loop that skips periods.

- `OneSavedName` says when the saved name can have two owners: only after two
  failures, and after exactly two, without a stop, only inside the rollback, whose last
  deletion ends it. A third failure, or a stop there, leaves two owners for good. What
  makes it inductive is that a failure inside a promotion leads to the rollback, whose
  remaining commands then succeed unless a second one fails, and that outside of the two
  no command gives a profile the saved name.
- `SavedNetworkKept`, the refinement, holds under `Undisturbed`: at most one command is
  refused and no attempt follows a stop; and where no command that took effect is
  reported as failed. Findings 2 and 3 are what happens otherwise. `StationBackend` then
  maps each of its steps to a step or a stutter of `SavedNetwork` (`SavedNetworkStep`),
  for any number of profiles and stops.
- `ManifestIsTrue` needs to know, for each command of the build, which of the facts
  it read are still true of the tree, the key and the history; that the history only
  grows, so that a record stays true (`TruthStays`); and what a packaging knows as long
  as no build overtook it. It does not exclude that one does: the image in the
  candidate is then another than the manifest's, which the property leaves out by name
  (`steady`; section 5). A verified image is never publishable (`NotPublishable`),
  because the verifier demands a file that the other check forbids.
- `InterfacesAreSeparate` and `DevicesDiffer` are proved from the verifier's checks and
  not from the images of the instance: `SshListens`, `WebReach`, `AvahiReach`, `DhcpReach`,
  `OneManager` and `Blank` say what systemd and the daemons make of *any* root
  filesystem that `verify_rootfs` accepts. The first speaks of images that are plain
  (`IsPlain`), a condition on the texts and not an assumption: no unit has a whole
  file of its name in `/etc`, which would hide the one that was verified, and each line of
  the units ends where the verifier and systemd both end it, comments being lines of
  their own (`ReadAlike`); then both read the same (`SameText`). The verifier checks
  neither, and passes what is read otherwise (section 5). The property says where port 22
  listens, not from where it can be reached (section 5). What is assumed: an
  image has finitely many files (`RootfsAssumption`), a unit file is a sequence of lines
  (`UnitTextAssumption`), and the names of the devices are not `None` (`DeviceAssumption`). What
  systemd reads of a list, in the files in which the verifier reads it, is the
  same by `Listed`, `NoDropIns` and `OneDropIn`.
- `ScanIsAccepted` needs that a list has at most `MaxNetworks` points because an image of a
  finite set is no larger than the set (`ImageBound`), and that what was parsed passed the checks that
  the client repeats.

Only model-checked: every liveness property (out of the prover's reach, as is
`ENABLED`), among them `SshComesUp` and `ManagementComesUp`, and the parsing of a scan
(`ListIsTheAir`, an induction over lines of any length).

## 5. Findings

1. `NoHiddenWork`. The docs say that overlapping requests leave no hidden queued
   work. A setup-AP request accepted while the boot item is processed stays queued
   behind a settled mode.
2. `NetworkRemembered`, late deletion. A deletion that took effect but is reported
   as failed makes the rollback delete the only network left.
3. `NetworkRemembered`, two backups. A backup left by a stop is never removed, and
   the next promotion makes a second one; boot recognises neither.
Each is a run that TLC must end with a violation, and quotes its line in
`PROJECT.json`. Beside them, differences that the models follow and no run ends with:

- An os-release without `PRETTY_NAME` whose `NAME` and `VERSION_ID` are longer together
  than `SystemResponse` allows (`providers.py` 119-128, `models.py` 109) makes the
  system's answer fail on every poll, and the page shows nothing (`app.js` 277-279).
  `PollIsServed` says that the answer fails in this case and in no other.
- A build of the same commit can replace the artifact between the packaging's check
  (`package-release-candidate.sh` 33-71) and its use (72), with an image that was not
  verified, or the provenance between its check and its copy. The candidate's checksums
  hold. `release/RELEASE_NOTES.md` 9-11 says that they come from the validated artifact.
  `ManifestIsTrue` says what is still true of the candidate.
- Where a comment ends in a backslash, blanks follow a backslash, a comment stands inside a
  continued line, or a line has a separator
  that only Python splits at, the verifier reads other lines than systemd
  (`verify_rave_image.py` 131-154) and can pass a drop-in in which systemd finds
  `ListenStream=22`. No unit of the repository has such a line. The `Misread`
  contents of the instance are such drop-ins: TLC evaluates that the verifier accepts them
  (`Misreading`), and `InterfacesAreSeparate` speaks of the others (`plain`).
- The SSH socket is bound to an address and, on purpose, to no interface; Linux accepts
  what arrives for that address on wlan0 too (`Reachable`). `image/README.md` 66-68 says
  that SSH is not exposed there; `InterfacesAreSeparate` says only at which address it
  listens.
- A station whose name has a line separator (U+2028, say) is listed under what follows the
  separator, a name that nobody broadcasts (`backend.py` 205 splits with
  `str.splitlines`). `ListIsTheAir` says which name (`AsRead`).
- The docs say the prior profile keeps its name until the candidate has it
  (`docs/MANAGEMENT_NETWORK.md` 36-40), the code renames the prior one first
  (`backend.py` 302). `SavedNetworkKept` holds in the code's order.

## 6. Assumptions about the environment

External definitions, marked so in the map: systemd's restarts, lost links, the
browser's timers and its password field, nmcli's escaped lines, the stations
in reach, what systemd, networkd, avahi and dnsmasq make of their files, how Linux
delivers a packet for one of its addresses, a developer's
edits and commits, the ext4 journal (a commit may happen at any time, a cut goes
back to the last one, a synced file's bytes are on the disk), the freshly flashed
card and the empty store. A profile that is created gets an identity no other
profile has. Deleting the active profile takes it down some time later.

## 7. Abstractions worth knowing

- Names and passwords are model values except in `WifiScan` and `NetworkSelection`,
  where a name is a sequence of one-byte characters and a password is what its
  checks tell apart. JSON between the processes keeps every value. Two
  characters stand for those that end a line for `str.splitlines`: one that is also a control character,
  and one that is not.
- A connection attempt that fails before it changes anything (bad credentials, name
  not found) is left out of
  `StationBackend`; `NetworkController` has its outcome.
- Turning the radio on is part of the command that follows it.
- `NetworkIpc` merges peer checks, size limits and unknown fields into "invalid".
- `SetupPage` merges the three GET requests of a poll, which succeed together or
  abort together.
- In `SetupPage` one request of a kind is in flight at a time. The code enables a button again
  in ways that can start a second one before the first is answered (`app.js` 342-345,
  389).
- A reason in the daemon's answers is one of its constants, all of which pass the client's checks of
  length and form (`_required_reason`).
- `FramePipeline` leaves out the percentile lists and the NPU; an inference that
  raises ends the run.
- Of each script one runs at a time: a build beside a packaging is modelled, two
  builds at once in one directory are not. `systemd-analyze verify`, at the end
  of a hook, is one of the commands that may fail, and so are the checks of the builder's
  checkout (`build-rave-os.sh` 50-64). The verifier that a build runs is read from the
  repository as well (110); it is the same for every content here.
- The verifier's checks are Booleans over an image, whatever their order; what they
  look for in sources (`BackendContracts`) is a set of contracts. Lists that it
  clears on an empty assignment include dependencies, which systemd would keep. A forbidden
  package stands for the packages whose names it begins. A complete override of
  a unit in `/etc` is modelled, and tried by no content of the instance.
- Whether an empty machine-id makes a boot the first, for `ConditionFirstBoot=`, is left
  open.
- One job is deleted for an ordering cycle; every image of the instance can be
  ordered that way (`Orderable`). `eth0` and `wlan0` always have a device unit. By
  `After=network.target` and the default ordering after `basic.target`,
  `ssh.service` waits for NetworkManager, wlan0 and the web socket, though it requires
  none of them: the properties hold because each of those waits is bounded.
- One device is on at a time, which loses nothing: they share nothing but the image.

## 8. Not modelled, and why

What is left has no behaviour that a state machine or a pure definition would add to:

- Qualification scripts: offline comparison of floating-point tensors, whose
  decisions are numerical tolerances that neither TLC nor the provers evaluate.
- Edge scaffolding: a mock loop with one flag, and a configuration file checked by a
  schema library.
- The shell checks, the HEF check and `install.sh`: they run once, read or copy, and
  report; nothing depends on the order of their steps.
- The inside of a layer (package installation, the driver's compilation),
  the sandboxing directives, and the start of `rave-webd.service` at the first request.
- `navigation.js`, markup, style, the wire schema: no state that outlives one event.
- In the parts that are partly modelled: the secret's memory file, GStreamer, the
  decoders and the NPU, percentile reports, rendering, the handoff card, peer
  credentials.

## 9. Where a next step would begin

1. `SetupPage`: the verdict of an action. A poll's report may be older than the
   action it seems to confirm (`app.js` 234-240), and one action's rejection drops
   the other's deadline (212-215).
2. `ListIsTheAir` as a theorem, for names of any length.

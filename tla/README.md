# A verification development of cloud-init

cloud-init configures a machine from what a cloud tells it. It runs as four short-lived
processes per boot - `init --local`, `init`, `modules --mode config`, `modules --mode final`,
here the stages *local*, *network*, *config* and *final* - which systemd starts one after
the other, behind a generator, `ds-identify`, that decides whether it runs at all. They
share files below `/var/lib/cloud`, which survive a reboot and are copied when an image is
cloned, and below `/run/cloud-init`, which do not and are not. There is no lock and no
transaction: correctness rests on the order in which files are written, looked for and
removed, by processes that may fail or be killed at any point.

Contents: 1 inventory, 2 modules, 3 runs and bounds, 4 proofs, 5 where code and
documentation part, 6 what is not modelled, 7 plan.

## 1. Inventory

| part | state | operations | hard behaviours | what makes it correct |
|---|---|---|---|---|
| Semaphores and runners (`helpers.py`, `cc_migrator.py`) | files `sem/<job>`, per instance or once for all, under canonical or old names | `Runners.run`, `FileSemaphores.has_run/lock/clear`, migration of names | two processes look before either writes; the migrator renames between two looks; kills between the file and the functor | a guarded job runs at most once; no step loses the trace of a job that ran |
| Boot stages and instance identity (`stages.py`, `cmd/main.py`, `sources/__init__.py`) | instance link, `obj.pkl`, `data/instance-id`, `/run` instance id, `manual-clean`, `boot-finished`, network config, `no-net` | cache check, source search, `instancify`, rendering, set-up, consumption, activation, modules | cloned images, stages that fail while later ones run, loss of power, files cut short | stages work for the right instance; user-data is consumed once per instance; the network config is of this machine; `boot-finished` is of this boot |
| Status and result files (`status_wrapper`) | `data/status.json`, `data/result.json`, links to both in `/run` | one wrapper around each stage | stages run again by hand, concurrently, or killed; links and files of different boots | a reader of `/run` sees this boot and every error |
| Part handlers (`handlers/`, `Init._do_handlers`, `importer.py`) | registry of types, begun handlers, imported modules, cloud-config buffer and file | register, begin, walk, end, per stream and boot | handlers that arrive during the walk and take types over; bad parts; an interpreter that remembers modules | begin, parts, end in order; the cloud-config has exactly the parts that can be merged |
| Module sections, reporting, power state (`stages.Modules`, `cmd/main.py`, `reporting/events.py`, `cc_power_state_change.py`) | which modules ran, failures, children of the reporter, a forked child | fix up, filter by distribution, run a section or one module; wait for the parent, run a command | a module in two sections or under two spellings; failing modules; a timeout against a slow stage | every module is tried with its frequency, and what is said of it is true; a reboot is asked once |
| User-data and vendor-data (`user_data.py`, `stages._consume_vendordata`) | include-once cache, pickled datasource, two cloud-config files | fetch, include, consume, decide, merge whole keys | failing includes and torn caches; its own former output is in the configuration it asks | the same parts in every boot; the user can switch vendor-data off |
| Host names, mounts, accounts (`cc_*hostname.py`, `cc_mounts.py`, `cc_ssh.py`, `cc_users_groups.py`, `cc_set_passwords.py`, `distros/__init__.py`, `ssh_util.py`) | `/etc/hostname`, `previous-hostname`, `/etc/hosts`, `fstab`, swap file, users, key files, host keys | the handlers of these modules | imaged disks; a user who changes things between boots; commands that fail | the user's choice is kept; nothing of another instance identifies this one |
| Config modules of packages and services (`cc_apt_configure.py` ... `cc_yum_add_repo.py`) | files and what tools keep | a sequence of writes, renames and commands | kills and failures between two of them; a run again on what the last one left | what is asked is in effect after a run without failure |
| Disks (`cc_disk_setup.py`, `DataSourceAzure.activate`, `cc_growpart.py`, `cc_resizefs.py`) | partition tables, filesystems, sizes, semaphores | look, partition, format, grow | disks that are new, used, or of unknown content; commands that fail half-way; a resize in the background | a fresh disk is prepared; files are not lost; the root filesystem fills its disk |
| Interface renaming, network config (`net/*`) | kernel names and flags; the table of interfaces; files | plan and run renames; convert what clouds say; read versions 1 and 2; write for eni, netplan, sysconfig | swaps and cycles, busy interfaces; members before masters; one meaning in many formats | no silent failure; what is written is what was meant |
| Services (`url_helper.py`, `net/dhcp.py`, `sources/helpers/*`) | lease, ephemeral address, retries, deadlines; the fabric's goal state | wait, read, crawl, report | late, slow, failing services; partial answers; a fabric that moves on | it ends; what was set up is taken down; nothing passes for whole that is not |
| Datasources and detection (`sources/DataSource*.py`, `tools/ds-identify`) | media, seeds, DMI, configuration, command line | `get_data` of eighteen sources; the same tests again in shell; two searches per boot | leftovers of other clouds; media that go; services that are down | a machine comes to its own source, and the narrowed search to the same as the full one |
| Mergers, distributions, utilities, templates, init scripts, developer tools | - | - | pure, or calls of programs | per function |

Interactions: `ds-identify` writes the list of datasources the stages search. systemd runs
`status_wrapper`, which runs a stage. A stage in `main.py` drives `stages.Init`: it finds a
datasource, which may bring up a network of its own to ask its service; it renames
interfaces and renders the network; it calls `Runners.run("consume_data", ..., PER_INSTANCE)`
once and `consume_data(PER_ALWAYS)` when that has run; `consume_data` walks the parts with
the handlers; the handlers' cloud-config file is the configuration with which
`stages.Modules` runs each config module, again through `Runners.run`. All that one process
tells a later one goes through files.

## 2. Modules

An arrow reads "EXTENDS". Modules of operators have no variables: they say what a piece of
code makes of its input, and the module that extends them takes the steps.

| module | models | correspondence |
|---|---|---|
| `AtMostOnce` | the promise behind "per instance" and "per once" | abstract: a count per item that goes from 0 to 1 |
| `Runners` | `helpers.py` 60-190, `cc_migrator._migrate_canon_sems` | `canon`, `raw` are the files under either name; a process goes through `HasRun`, `HasRunRaw`, `AcquireFree` or `AcquireTaken`, `WriteSem` or `WriteFails`, `FunctorReturns` or `FunctorRaises`; `Crash` and `Reboot` are the world's |
| `Boot` | `main_init`, `main_modules`, `stages.Init` | each variable is one file or one attribute of `Init`; one action per write to disk, in the order of the code; `Fail`, `TearIid`, `TearCache`, `Reboot` are failures, files cut short, and boots on this or another machine |
| `Status` | `status_wrapper` | one action per removal, write and link; `Ready` is the order of the units |
| `PartHandlers` | `_do_handlers`, `handlers/__init__.py`, `ContentHandlers`, `CloudConfigPartHandler`, `import_module` | `registered`, `initialized`, `modules` are the code's dictionaries; `buf` lists the positions of the parts that were merged |
| `Sections` → `Runners` | `run_section`, `_fixup_modules`, `_run_modules`, `main_modules`, `main_single`, the children of `ReportEventStack`, `cc_power_state_change` | one process at a time; `failures` and `children` are the two accounts of a section, `child` the fork that waits for it |
| `Guest` → `Accounts` → `Mounts` → `Names` → `Consumption` | an image over its boots | each module of the chain adds a part of the machine: `Consumption` user-data, vendor-data and the merged configuration; `Names` host name and hosts file; `Mounts` fstab and swap; `Accounts` users, keys, passwords. `Guest` runs them in the order of `cloud.cfg`, kills them, and lets the user change the machine or clone it |
| `MCConfigModules` → `Configure`, `AzureDisk`, `RootDisk` | what config modules make of files and disks | three machines side by side, of which a behaviour is one |
| `Configure` → `AptConfig`, `Packaging`, `Agents` → `ConfigFiles` | sixteen config modules | each handler is the sequence of effects it has, computed from its configuration and the files it finds; `Configure` carries them out one by one, each command may fail, and the process may be killed in between. Beside each handler is what its configuration asks, `InEffect` |
| `AzureDisk` → `DiskSetup` | `cc_disk_setup.py`; `DataSourceAzure.activate` | a disk is its table, its partitions and what is on each; one action per command |
| `RootDisk` | `cc_growpart.py`, `cc_resizefs.py`, `parse_mount_info` | per device the room on the disk, the size in its table, the size the kernel knows and the filesystem's |
| `ApplyNetwork` → `Renames`, `NetworkSources` → `NetworkConfig` | `apply_network_config` | `Renames` plans and runs `ip link`; `NetworkSources` converts the descriptions of the clouds; `NetworkConfig` reads them into a table and writes it in three formats; `ApplyNetwork` reads command by command |
| `Services` → `Metadata`, `Crawl`, `Fabric` | what a machine does to know itself | `Metadata`: a lease, an ephemeral address, `wait_for_url`, `readurl`. `Crawl`: the requests of eleven datasources and what each does without an answer. `Fabric`: Azure's environment, bounce, agents and goal state |
| `Discovery` → `Identify` → `DataSources` | how a machine comes to its datasource | `DataSources`: eighteen `get_data` as operators of a machine; `Identify`: the tests of `ds-identify`; `Discovery`: the search, stage by stage, boot by boot |
| `BootProof`, `StatusProof`, `PartHandlersProof`, `SectionsProof` (with `Runners`), `ServicesProof`, `RenamesProof`, `GuestProof`, `ModulesProof` | - | the theorems of section 4 |
| `MC...` | - | small instances for TLC, and operators marked "Mutant" |

How they fit: `Boot` has the machinery of `Runners` for one job, `consume_data`, in its
actions `ConsumeHasRun` and `ConsumeAcquire`: stages are serial there, the case in which
`Runners` is proved to implement `AtMostOnce`, the abstract module `Boot` refines as well.
`Sections` is built on `Runners` itself, and is proved to take its steps, so that it inherits its theorems. `Guest` looks into the
step of `Boot` that consumes data and the one of `Sections` that runs modules; no formal refinement links it to them. A machine of
`Boot` has a datasource; which one is `Discovery`'s question, how it learns of its data is
`Services`'s; what is done with its network config is `ApplyNetwork`'s.

Abstractions that matter for reading the modules:

* A file is its content as far as the properties tell it apart: a semaphore is there or is
  not, `obj.pkl` is the machine its datasource came from, a list of errors is empty or not, a
  file of settings is a function and a file of lines a sequence.
* Words stand for all strings a test cannot tell apart; sizes, times and counts are small numbers.
* History variables are named as such in each module. No action reads them but to write
  history. They count calls (up to 2, "more"), and remember the failures a property excepts.
* The operators `X_...` marked "Mutant" are not part of any specification: each is a
  plausible bug in `X`, kept with the property that rejects it.

## 3. Runs

Safety properties are checked of `Init /\ [][Next]_vars`. One specification assumes
fairness: `ServicesSpec` has `WF` of the steps of each of its three parts, and no more. It says that the
process is scheduled, that every command returns, and that a request that is given a timeout ends in
an answer, an error or that timeout, which is what `readurl` passes to `requests` (the fabric's
requests have one: it is a default of `read_file_or_url`, `util.py:864`). It does not say that
a service answers, that the fabric has a new goal, or that the machine boots again. Requests without
a timeout need not end: those of GCE, Bigstep and SmartOS, Ec2's for its extended version, and MAAS's
once its service has answered may hang (`VersionHangs`, `Hang`), and `Terminates` excepts a process
that hangs in one of them, and no other.

| run | question and properties | bounds, and why they are enough |
|---|---|---|
| `RunnersConcurrent` | what can two processes, kills, failed writes, reboots and the migrator do to a semaphore? `OnceUnlessRaced`, `StartedLeavesFile` | 2 processes, 2 jobs (one with an old name), 1 instance: a race is between two processes over one file |
| `BootClones` | an image that moves between two machines whose sources are found in the local stage: `RightInstance`, `FinishedIsOfThisBoot`, `ConsumedAtMostOnce` (refinement of `AtMostOnce`) | 2 ids and DataSourceNone's, of which the image has met two at most (`TwoInstances`), so that TLC comes to an end; machines with and without `check_instance_id`; failures at every step; boots are not bounded. A loss of power leaves the disk that failures of this and all later stages of the boot leave, so `MayLosePower` is FALSE; the proofs have it |
| `BootNetwork` | a source of the local and one of the network stage, under upstart, and DataSourceNone: `NetworkIsOfThisMachine`, `NewOnlyOnce`, `ModulesSeeCloudConfig` | as above, with `no-net` |
| `BootManual` | `manual_cache_clean` set, unset, edited between boots: `KeptInstance` | no failures: the marker's promise holds only then; 3 machines, of which one has a source that the network stage forgets, and DataSourceNone |
| `StatusSerial` | one wrapper at a time, any mode again and again, killed anywhere: `RunningIsVisible`, `SerialRuns`, `ResultIsOfThisBoot`, `ResultExact` | 2 boots: what is stale is of the boot before. Concurrent wrappers are covered by the proof of `ResultIsOfThisBoot` |
| `Handlers` | which calls do handlers see, and what is in the cloud-config? `CallsInOrder`, `CloudConfigExact` | streams of up to two parts over 8 parts, and of three over 5, in which no code occurs twice; 2 boots, the second like every later one; a handler in the cloud directory, an excluded type, code that raises |
| `Sections` | what is called, how often, and what is said of it? `AccountsAreTrue`, `PowerChangeOnce`, `AtMostOncePerKey` (refinement of `AtMostOnce`) | 3 stages; 7 entries: every frequency, two spellings of one name, a name in two sections, one that is missing, one of another distribution; `cloud-init single` of one; failures, kills, reboots |
| `Guest` | does what user-data said, and what the user did, hold? `OnceIsKept`, `UserDecides`, `FstabSettles`, `HostKeysOfInstance`, `RootStaysRestricted`, `UserNameKept` | 2 instances, 3 boots (2 for accounts): a change needs a boot before and one after; some sixty pairs of cloud and configuration; one file that resists or key that is not made per run of ssh; kills between any two steps |
| `ConfigModules` | what do modules make of a machine? `TakesEffect`, `AgainIsTheSame`; `FreshIsPrepared`, `FilesKept`; `RootFillsDisk` | 3 runs (a first one, one of another instance or after a kill, one again); 2 to 6 configurations for each of 16 modules; disks of up to 2 partitions: a table with a second one is where the code decides differently; room that grows to 3 |
| `ApplyNetwork` | do interfaces get their names, and is what is written what was meant? `SilentIsDone`, `AnyOrderReadsTheSame`, `WrittenIsMeant` | 3 interfaces, two of which may share a MAC address, symmetric names: the smallest rotation, with temporary names up to 6; bonds, bridges and vlans upon one another in every order; three renderers; one description per shape a cloud's data can have |
| `Services` | does a machine come to know itself, and clean up? `NothingStays`, `WaitIsFair`, `NeverInPart`, `FewFaultsCostNothing`, `AzureIsServed`, `Terminates` | 2 urls; `max_wait` in -1, 1, 7, 16 against a timeout of 3: none, less than one request, a few passes, the first longer sleep; services up at 0, 2, 6 or never and 0, 2 or 5 seconds slow: faster and slower than the timeout; trees of up to two levels, 3 faults against 3 attempts; an Azure machine of 54 environments over 2 boots |
| `Discovery` | does a machine come to its own datasource, narrowed or not? `OwnSourceIsFound`, `NarrowedAlike` | 48 machines: each datasource in the ways it is documented to be given, those included that `ds-identify` does not see; without a list, with the builtin one and a short one, with and without a policy, in images with leftovers; 2 boots, between which media go, seeds come and services are down: the second has all the first can leave |

`Handlers`, `Guest` and `Discovery` end with their last boot, so deadlock is not checked there; it is
in all others. Bounds in the modules: `MaxBoots` (`Status`, `PartHandlers`,
`Discovery`), `MaxParts`, `MaxTmp`, `MaxFailures` (`Accounts`), `MaxFaults`, `Retries`, `Tries`
(`Crawl`, `Metadata`), `Attempts`, `Naps`, `Boots` (`Fabric`), `MaxRoom`, `MaxRuns`. `Retries`,
`Tries`, `Attempts` and `Naps` are the code's own limits, smaller.

What some properties except. Each exception is an operator with a name or a conjunct with a comment, is a
behaviour of the code that the model reaches.

| property | exception |
|---|---|
| `OnceUnlessRaced` | the race itself |
| `RightInstance`, `ModulesSeeCloudConfig` | DataSourceNone's instance where a search found nothing else (`missed`, or a stage failed or had no network); a source that the network stage finds and forgets (`Forgotten`) |
| `NetworkIsOfThisMachine` | a stage that ended between the id and the rendering, a fallback of a boot that recorded no id (`unrendered`), DataSourceNone, whose id is the same everywhere |
| `AccountsAreTrue` | a process that died between the file and the call: a semaphore is not proof of a run, by design |
| `FilesKept` | a kill between the removal of the semaphores and the run |
| `OnceIsKept` | a cache cut short |
| `TakesEffect` | apt's old keys of two proxies (`Exchanged`), certificates after the defaults were removed (`EndsEarly`), chef that is not run (`ChefIsLeft`), a certificate below a section of puppet (`TakenForSetting`), `auto` on snappy |
| `AgainIsTheSame` | modules that add lines at each run (`Appends`), copies of original files (`Backups`), the key of a chef that ran by default (`ComesBack`) |
| `NothingStays` | a command that undoes and fails, with those after it (`StillToUndo`); a network that was not entered, which is not left (`NotEntered`); a key that was not made (`KeyNotMade`) |
| `NeverInPart` | datasources that take a failure for an absence (those not in `Strict`); the keys of SmartOS whose frames lost their SUCCESS (`TakenForAbsent`) |
| `FewFaultsCostNothing` | documents asked for once (`AskedOnce`), OpenStack's timeouts (`Patience`), contents that are bad, requests without an end |
| `Terminates` | requests without a timeout (`Hangs`) |
| `WrittenIsMeant` | what a format or its renderer cannot say (`Writable`); members of bonds and bridges, and links, that `set-name` renames (`IdsAreNames`); a renderer that raises, which it says only sysconfig and eni do, and for what |
| `OwnSourceIsFound`, `NarrowedAlike` | machines where `ds-identify` looks at less than the datasource (`Overlooked`), or takes one that finds nothing (`Mistaken`); the default list |

## 4. Proofs

For every value of the constants that meets the named assumptions - any number of
processes, jobs, instances, machines, urls and environments, any boots, parts and
timeouts, interfaces, clouds, configurations and disks - TLAPS proves the following. The
assumptions are named in the modules that declare the constants, and TLC evaluates them in the runs.
Most are types of the constants and values that must differ. What some say besides:

* `HandlersAssumption`: handlers of the cloud directory claim different types.
  `SectionsAssumption`, `PowerAssumption`: stages are serial, no module is cleared on failure (no caller
  asks for it), and power-state-change is listed without another frequency.
* `NamesAssumption`: users choose names no cloud or configuration gives; the code cannot tell
  the two apart. `AccountsAssumption`: keys and users of a configuration are among those modelled.
* `DisksAssumption`: disks are well-formed, fresh ones hold no files, and of two partitions the one before an NTFS one
  is Microsoft's reserved partition and holds nothing (`Reserved`; see section 5).
* `RootAssumption`: what `/` is last mounted from is the root device or `/dev/root`, no other
  device of `/dev`: a mount upon a mount counts once.
* `NetworksAssumption`: in a network an interface is defined once and has one master, a static subnet has an address,
  and what a cloud's description is converted to has the devices that were meant and no other bonds. That the
  conversions of `NetworkSources` do so is what TLC checks, when it evaluates the assumption for each description.
* `CrawlAssumption`: the paths of a tree are no other document's, and at least one retry follows a retry (`Retries` is 2
  or more). `OffersAssumption`: a service has what its datasource requires and nothing that nobody
  asks for. Without it `found` is not to be expected, however few the faults.

The theorems, by module:

* `SectionsProof`, its first part, about `Runners`: `RunnersTypes`; `OnceUnlessRacedAlways` (the comment in `_acquire` calls
  its race harmless; this is its exact extent); `StartedLeavesFileAlways`;
  `SerialOnceAlways`; `SerialImplementsPromise`, the refinement of `AtMostOnce`.
  *Inductive invariant* `RunnersInv`: that a call leaves a file is not enough, since the
  writer looked for it earlier. It needs that an old file cannot appear behind the second look
  (`NoStaleCheck`), that two processes about to write one file are recorded as racing
  (`WritersRaced`), and so is one that is about to write a file already there
  (`LateWriterRaced`). `OneAlive` makes races impossible in serial runs.
* `BootProof`: `BootTypes`; `RightInstanceAlways`; `FinishedIsOfThisBootAlways`;
  `ConsumedAtMostOnceAlways`, the second refinement of `AtMostOnce`.
  *Inductive invariant* `BootInv`: a datasource in hand means a place in the stage where
  the link is its, or there is none for DataSourceNone (`ProcessInv`, `Unlinked`); a cached object is of
  the instance in whose directory it is (`CacheInv`); once the local stage has decided, the link is this machine's,
  DataSourceNone's or no link (`CheckedInv`), which is why later stages may trust it; `ConsumeInv` and `FinishedInv`
  do the same for the semaphore and `boot-finished`. When it is DataSourceNone's needs more: a network
  stage that does not fail comes to a datasource and caches it (`FoundInv`), so that DataSourceNone is linked or at
  hand only after a search that found nothing else (`SearchedInv`).
* and in `BootProof`: `NetworkIsOfThisMachineAlways`, `NewOnlyOnceAlways`,
  `ModulesSeeCloudConfigAlways`, `KeptInstanceAlways`. *Inductive invariant* `BootMoreInv`, on
  top of `BootInv`: an activated instance left its id or history of a detour
  (`ActivatedInv`); a recorded id means a rendered config, or history says why not
  (`RenderedInv`); a stage that did not fail has consumed and cached (`CachedInv`, `SeenInv`);
  with a marker the link does not move (`KeptInv`).
* `StatusProof`: `StatusTypes`; `ResultIsOfThisBootAlways`, for concurrent processes;
  `RunningIsVisibleAlways`, `SerialRunsAlways`, `ResultExactAlways` (an action property) for
  serial ones. *Inductive invariant* `StatusInv`: what a process knows whatever others do
  (`ProcessInv`), that a `result.json` a process is about to link is of this boot
  (`ResultInv`), and for serial runs that links lead to files or are gone first (`LinksInv`)
  and that file, process and history agree on the errors (`ErrorsInv`).
* `PartHandlersProof`: `PartHandlersInvariant`, `CallsInOrderAlways`, `CloudConfigExactAlways`.
  *Inductive invariant* `PartHandlersInv`: where the walk is (`PosInv`), what the interpreter has
  imported (`ModulesInv`), that a handler is begun from its first mention on (`BegunInv`) and
  what each was called with by then (`CallsInv`), who may be registered (`RegisteredInv`), and
  that the buffer is the good parts before the walk's position (`MergedInv`).
* and in `SectionsProof`: `SectionsInvariant`; `SectionsImplementRunners`, that a section takes the steps of
  `Runners`, and through it `ModulesAtMostOnceAlways`; `AccountsAreTrueAlways`; `PowerChangeOnceAlways`.
  *Inductive invariant* `SectionsInv`, on top of `RunnersInv` and `OneAlive`: a process is alive on behalf of the entry
  the loop came to last, under its semaphore (`AtHand`), which ties the loop to the machinery; a file is
  there because of a call or of a process that died before it (`FilesTell`); entries
  that are done with are accounted for (`DoneInv`); failures and report differ in names that come
  twice only (`ReportInv`); and a child of power-state-change means the one call of its instance (`PowerInv`).
* `ServicesProof`: `ServicesInvariant`, `NothingStaysAlways`, `WaitIsFairAlways`, `AzureIsServedAlways`,
  `NeverInPartAlways`, `FewFaultsCostNothingAlways`, with the exceptions of section 3 and no others.
  *Inductive invariant* `ServicesInv`: what is queued for clean-up is exactly the difference
  between the interface as it is and as it was, also after a command of the teardown failed (`LeaseInv`), which is
  why nothing is left but what is still queued, or what was never queued as the network was not entered; the time spent is at most a timeout per url
  passed in the first pass, and every later pass begins in time (`TimeInv`); a service that was not
  found was asked when it was not up, less than two passes ago, or too late (`LateInv`); and for
  the fabric, that what is kept differs from what was given in the password at most
  (`RestIsKept`, `KeptInv`), that ready is said with keys only, and that the name is on its way back (`NameInv`).
  Of a crawl (`ReadingInv`), by any tree and any number of faults: of the tree there is nothing, or its root and all that
  is listed by what there is, but for what is still to be asked (`TreeInv`), so that at the end it is the set reached
  from the root (`TheTree`, a least set and no recursion); nothing that must not be missing leaves the list of
  requests before it was read (`NothingLost`, `PasswordInv`); and as long as the faults are few, the
  document at hand was tried no more often than there were faults (`TriedInv`; the wrong
  clock of MAAS costs one more), so that `readurl` does not give up on it, and all that is wanted is read or to be asked (`ReadInv`).
* `RenamesProof`: `RenamesInvAlways`, `PlanNamesDistinctAlways`, `SilentIsDoneAlways`; and of the
  network as a whole `ApplyRenames`, that `apply_network_config` takes the steps of `Renames`, hence
  `ApplySilentIsDone`. *Inductive invariant* `RenamesInv`: that the plan's own copy of the table is
  right, and has no name twice (`PlanNamesDistinct`), is not enough, since the kernel need not agree
  with it. However the commands planned so far are carried out one after the other from the kernel's table
  (`Ways`, `Ends`), they end near the plan: with its names, and with whoever was up being up or raised by a
  command still to be queued (`PlanLeadsThere`, `Near`). The same holds of the commands that are left while they
  run (`RestLeadsThere`). A command that is refused puts an error down, so that a call without errors has arrived.
* and in `RenamesProof`, of the devices: `AnyOrderReadsTheSameAlways`, `WrittenIsMeantAlways`. *Inductive invariant*
  `NetworkInv`: what the table owes to the commands read so far (`ReadInv`, `TableOf`). An interface that was read has
  what its command says and, whichever came first, the master that any bond read so far gives it; one that was
  not has at most a master. So the order leaves no trace, and a complete table is the description. From there
  on it is about a renderer's own work, subnet by subnet: `FlattenSeq` over routes and subnets has the elements of
  its parts (`FlattenIs`), the keys of a gateway that are overwritten hold the only one of their family, version 2 says as subnets
  what it said of the interface, a renderer that raises has met what the property says (`RaisedIs`), and an interface that
  neither is renamed nor lists one that is has its members under the names they are known by (`IdsMeant`).
* `GuestProof`: `GuestInvAlways`, `GuestTypes`, `OnceIsKeptAlways`, `UserDecidesAlways`,
  `HostKeysAlways`, `RootStaysRestrictedAlways`, `FstabSettlesAlways`, and `UserNameIsKept`, an action property.
  *Inductive invariant* `GuestInv`: what was consumed of an include-once is what its cache has, and
  what is pickled was taken from there (`CacheDecides`, `FromCache`); the user's cloud-config file holds
  something the user said of the instance and vendor-data's its own or nothing, whatever former files the decision
  was made by (`FilesDecide`, `Wanted`); the name the user chose is the system's, and `previous-hostname`
  is never one a user chose (`NamesApart`); and modules run with what the files say now (`ModulesConfigured`).
  `FstabSettles` needs of the state that fstab is a sequence (`FstabTypeOK`) and for the rest lemmas about
  filters: `FlattenSeq` of a concatenation (`FlattenConcat`), what is at some places of a sequence
  (`OnlyTyped`, `OnlyAll`, `OnlyNone`), and hence that the lines without the comment are the same after a
  file was written (`WrittenForeign`).
* `ModulesProof`, of the ephemeral disk: `DisksInvAlways`, `FreshIsPreparedAlways`, and
  `FilesAreKept`, an action property. *Inductive invariant* `DisksInv`: the semaphore of
  `disk_setup` is there from its run on, unless the disk was missed when it was due (`RunLeavesSem`); so the
  module runs on a disk with nothing to lose (`NothingToLose`); and between its two steps the disk has at most the one
  partition it was given (`OnePartition`), on which the second one finds what the first left.
* in `ModulesProof`, of the root filesystem: `RootInvAlways`, `RootFillsDiskAlways`. *Inductive
  invariant* `RootInv`: in a boot without failures the entry of the root is still to be
  handled, and no entry before it raises, or its partition takes the disk (`RootGrows`, `Full`); what
  the kernel knows of a disk is its table, where growpart told it (`KernelKnows`); and a resize in the
  background is left to a boot that is over (`InBackground`). It rests on
  `LastMount`: the line `parse_mount_info` answers with is the last of those mounted on `/`, so that
  growpart and resizefs mean one device.

* and in `ModulesProof`, of the six modules whose effects are a fixed list whatever the configuration
  (`FixedModules`: resolv_conf, landscape, mcollective, ntp, package_update_upgrade_install, lxd):
  `RunsAsListed`, `FixedTakeEffect`, `FixedAgainTheSame`, for any files, any configuration and any number of
  runs. *Inductive invariant* `RunsInv`: the files are what the first effects of the list made, one after the
  other, of those the run found (`Underway`), where the list may come in two parts of which the second is
  made by what the first left (`Course`); a run that is over without a failure has done all of it (`Whole`);
  and what a run again finds was left by such a run. `RunsInv` holds of every module whose lists are
  finite (`Shape`). What the whole list makes follows from what each effect makes of one file and leaves
  of all others (`WriteIs`, `AddIs`, `SetIs`, ...), once per module (`ResolvHolds`, `LandscapeHolds`, ...).

Each theorem's property is also checked by TLC with the same definition, and so was each
inductive invariant before it was proved, but for `RunsInv`, which quantifies over sequences of states.

Only model-checked are:

* `Terminates`, which is liveness under fairness;
* `TakesEffect` and `AgainIsTheSame` of the ten modules that are not in `FixedModules`: their effects are sequences
  as long as their configuration, or chosen from it in many ways, and what they leave is a fold over them, so that
  a proof is an induction over data;
* `OwnSourceIsFound` and `NarrowedAlike`: they compare two algorithms on the machines
  that clouds make, a table (`Clouds`). `ds-identify` looks at less than the datasources do; what it overlooks, and
  what it takes for a datasource that then finds nothing, is said by `Overlooked` and `Mistaken`, and the table has
  machines of each sort. That nothing else is lost is what TLC evaluates, of all of the table; labels that
  `fs_label` gives to a medium are not in it.

## 5. Where code and documentation part

Met while modelling and read in the source; none has a run of its own. Paths are those of the
repository, with `cloudinit/` left out. Where a property would be violated by one of
these, its exception names it or the instance leaves it out, as said.

**Stages.**

* `instancify` records the instance id before the network config is rendered. When power
  is lost in between, the next boot takes the instance for an old one and `setup()` runs
  without a network config, which `sources/__init__.py:266` says has been written.
* Without any failure: in the second boot of an instance found in the network stage, the
  local stage, which finds no source, renders the fallback, and the network stage does not
  replace it since the id is not new; `network-config.rst:34` promises the fallback in the
  absence of other configuration. Both are excepted in `NetworkIsOfThisMachine`.
* A source found in the local and activated in the network stage is never told that its
  instance is new (`sources/__init__.py:282`).
* Stages that were killed leave no error, so that a result without errors is also one of a
  boot that did not finish (`cmd/main.py:648`, `doc/status.txt:46`); an `init-local` killed
  before it removes `status.json` makes the next stage link the one of the boot before
  (`doc/status.txt:8`); `modules --mode init` passes the parser and dies of a `KeyError`
  (`cmd/main.py:631`).
* With no datasource of its own a machine is DataSourceNone's (`iid-datasource-none`) in the network stage. But also
  when a stage before failed, had no network, or found a source with dsmode local in the network stage
  (`cmd/main.py:326` ends there, without a link): then the config and final stages, which ask for sources
  of no dependency at all (`cmd/main.py:468`), find DataSourceNone and run the modules for it, and the
  final one, as there is no link, writes `boot-finished` below a new directory `instance`, where
  `dir_layout.rst:64` has a symlink. From then on every stage without a valid cache dies of `del_file`, which
  does not remove a directory (`FetchRaises`).
* `cc_migrator.py:75` looks for bare file names in the working directory, so no legacy
  semaphore migrates.
* `reporting/events.py:229`: a later entry of the same name hides the earlier failure from
  the report (excepted in `AccountsAreTrue`).

**Handlers, user-data, vendor-data.**

* `part-handler-000` of vendor-data is the module user-data's first part handler was
  imported as: vendor-data's code is never loaded (`format.rst:133`, `importer.py:15`). A
  handler all of whose types a later one takes over is not ended (`format.rst:145`); one that
  names no frequency is not called in later boots (`part-handler-v2.txt:10`); after code whose
  `list_types` raises, the next part is imported under the same name and gets the broken code.
* Vendor-data is excluded under `vendor_data: {disabled_handlers}`, not
  `vendordata: {excluded}` (`vendordata.rst:59`). The configuration it is decided by holds its own earlier
  output, and the user's earlier refusal, against the comment at `stages.py:559`; a vendor
  cloud-config of an earlier boot is used after the user switched vendor-data off.
* An include-once cache torn by a kill is used for the rest of the instance's life.

**Host names, mounts, accounts.**

* On RHEL with systemd `_read_hostname` keeps the newline, so that `update_hostname`
  always finds a name the user maintains. A new instance keeps the `previous-hostname` of the old one.
* `cc_mounts` logs an entry for a device that does not exist as ignored and writes it;
  lines remain when a later instance has nothing to mount; `suggested_swapsize`
  takes `maxsize` whenever it computes a size.
* `cc_ssh`: without a default user a `KeyError` keeps the keys from root too; a kill between the
  deletion and the generation of host keys leaves none for the instance; after
  i1, i2, i1 the keys are i2's. `cc_set_passwords` expires passwords, and shows random ones,
  although `chpasswd` failed. `create_user` of a user who exists still locks the password. A module
  appends to `cloud.distro.init_cmd`, a list of the class.

**Config modules.**

* apt: `apt_ftp_proxy` and `apt_https_proxy` are swapped in the conversion
  (`config/cc_apt_configure.py:690`; `Exchanged`); a file of sources is opened to append, so that another run
  doubles its lines; of version 1 entries with one file name the last remains; `rename_apt_lists`
  needs a default mirror of the arch even when mirrors are given; `disable_suites` fails on short
  lines; an empty `add_apt_repo_match` raises after the rest is done; `cloud.cfg.d/*dpkg*`
  is removed before a `dpkg-reconfigure` that may fail.
* yum, zypper: a repository file of an earlier instance is kept. zypper: a config without
  repositories is ignored, which the schema allows; settings are appended without a final newline, so
  that the next run's comment is glued to the last value.
* ca_certs writes a leading blank line (`config/cc_ca_certs.py:69`, against the comment about LP #1077020)
  with `remove-defaults`, at which the list ends: the added certificates are not used (`EndsEarly`).
* snappy: `auto` without keys stays true, and ssh is enabled against the doc.
* lxd: bridge mode `existing` without debconf raises before it attaches; debconf answers of
  an earlier instance stay; a failed `dpkg-reconfigure` leaves no `lxd-bridge`, so that a
  run again takes the other path; a failed installation is only warned of.
* Of `package_update_upgrade_install`'s errors only the last is raised.
* chef: the file deleted after the run is `/etc/chef/validation.pem`, not the given
  `validation_key`; a run again after an installation from gems does not exec, and leaves it (`ComesBack`); an
  unknown `install_type` neither installs nor runs chef (`ChefIsLeft`).
* puppet: the file is renamed once for each section, so that the original is lost with two; a kill
  between the rename and the write leaves none, and every later run raises; the doc puts
  `ca_cert` below `agent`, where the code takes it for a setting; it reads it beside the sections (`TakenForSetting`).
* ntp: `ntp.conf` is renamed for other clients too; a missing template raises after the
  rename. A second run of ntp and mcollective overwrites the copy of the original by its own file
  (the backups `AgainIsTheSame` leaves out).
* rsyslog: an empty address kills the module; `restarted = reload_syslog(...),` is a tuple.
* write_files: an unknown owner raises after the write. resolv_conf: a missing key raises after the warning about it.

**Disks.**

* `fs_setup` with a partition number and `overwrite: false` formats a partition with
  another filesystem, though `doc/examples/cloud-config-disk-setup.txt:243` says "If an existing file
  system exists, skip the creation"; `replace_fs` is ignored for partition `auto`;
  `purge_disk_ptable` writes a `str` to a binary file. After a repartitioning that failed
  `can_dev_be_reformatted` looks at the last of the two partitions only: files on a first one
  before an empty NTFS one would be lost. `DataSourceAzure.py:526` says what precedes is Microsoft's reserved
  partition; `FilesKept` is proved under that assumption (`Reserved`) only.
* resizefs converts `/dev/root` by the command line for its check, then resizes `/dev/root`;
  growpart raises an uncaught `TypeError` when there is no `root=`, and skips the conversion for
  entries that begin with `/dev/`.

**Network.**

* Renames: swapping two interfaces that are up reports an error although it is done;
  an entry without a driver gets the driver of the interface that has the name now; the
  parameters `strict_present` and `strict_busy` are ignored (`net/__init__.py:269`). Names of version 2
  are not applied, and `set-name` (`net/network_state.py:600`) gives an interface a name in the table that bonds,
  bridges and vlans, which list ids (`network-config-format-v2.rst:209`, 348 and the example at 483), do not know:
  the member is lost, and one that nobody has is written in its place (`IdsAreNames`).
* Reading: in version 2 `dhcp4: false` turns dhcp on for eni and sysconfig; a gateway without an
  address of its family, and routes without subnets, are dropped; name servers of an interface are never read.
  Subnets of type `static6` make sysconfig raise and are nothing to netplan.
* Writing: global routes of version 1 are written by eni only, v6 routes other than the default as
  IPv4 ones; sysconfig raises on any such route whose author gave no
  netmask, turns on IPv4's dhcp for `dhcp6` alone, takes
  the device of a vlan from its name, never removes files of interfaces that went, leaves a `route-` file when
  there are no routes, and lets `resolv.conf` grow; netplan drops routes of dhcp
  subnets and metrics; of two gateways of one family netplan and sysconfig keep the last; an
  undefined port of a bridge makes eni raise, an undefined member of a bond is written
  as a bond. `WrittenIsMeant` is about interfaces that do not meet these (`InTheTable` and
  `Writable` name them).
* Descriptions: the eni parser refuses what the eni renderer writes for an interface with two
  subnets, ignores the family, bonds, bridges, MTUs and routes, and raises for `auto` without `iface`;
  a vlan upon a vlan of OpenStack gets the name from before the update; DigitalOcean reads the
  first interface of each kind; SmartOS gives an interface's routes to each of its static subnets.

**Detection.**

* `ds-identify`'s default order is not the builtin one though it "has to match"
  (`tools/ds-identify:111`): `NarrowedAlike` is about configured lists. Its default for
  Ec2 is strict, Python's is to warn.
* Not detected though a datasource reads it: labels given by `fs_label`; OpenNebula's CD-ROM label
  (`opennebula.rst:45`); AltCloud on vSphere and RHEV without `/etc/sysconfig/cloud-info` (`altcloud.rst:45`); a
  ConfigDrive of version 1 or without its label; `seed/maas`, `seed/cs`, `seed/ovf-env.xml`; `seedfrom` in NoCloud's
  configuration; `/config-drive` with `latest` only; products whose whole name it does not list (CloudSigma); who
  answers like Ec2; OpenStack's service beside a config drive in dsmode `pass`. `Overlooked` names them.
  Detected though the datasource does not read it:
  `seed/ovf/ovf-env.xml` (read: `seed/ovf-env.xml`), `seed/opennebula/meta-data` (read: `context.sh`), Azure's seed
  under another chassis tag, NoCloud's label on any filesystem (`Mistaken`).
* A "maybe" is dropped when anything is "found"; "found=first" trusts a stale seed; OpenStack is not checked when a
  config drive was found, whether or not ConfigDrive is in the list; fewer containers are
  known than to `util.is_container`.
* VMware's `cust.cfg` is deleted after use, so that the next boot is another instance;
  a torn `seed/maas` raises and the configured url is never tried; with its service down an OpenStack machine
  is Ec2's in a full search.

**Services.**

* `MetadataReader.should_retry_cb` (`sources/helpers/openstack.py:455`) is read by `readurl` as "stop": timeouts are never
  retried, 4xx are. An optional document of OpenStack, GCE and Ec2 whose request fails is
  taken for absent, so that user-data is lost without a word; Ec2's request for its versions
  is tried once; Ec2 and CloudStack report empty metadata after a failure as found. A lost `user-data-encoding` of
  GCE leaves base64. Scaleway with 5 retries tries 4 ports. A password of CloudStack is
  lost with the answer to its acknowledgement. These are what `NeverInPart` and
  `FewFaultsCostNothing` except, by datasource and document.
* No timeout is given to the requests of GCE (`sources/DataSourceGCE.py:28`), Bigstep (`sources/DataSourceBigstep.py:29`),
  Ec2 for its extended version (`sources/DataSourceEc2.py:134`) and MAAS once it has waited
  (`sources/DataSourceMAAS.py:92`, 185), and SmartOS reads on when its reads time out
  (`sources/DataSourceSmartOS.py:379`): a service that takes the connection and says nothing stops the boot (`Untimed`, `VersionHangs`).
* SmartOS: an answer without SUCCESS, also one whose frame is broken, is taken for a key that is not set, before checksum
  and request are looked at (`sources/DataSourceSmartOS.py:388`; `TakenForAbsent`).
* `EphemeralIPv4Network` whose link or route cannot be set leaves its address, since `__exit__` is not run when
  `__enter__` raises (`net/__init__.py:585`), though it promises to leave no configuration behind (`NotEntered`).
* MAAS ignores a configured timeout; Ec2Local reads its settings below `datasource: Ec2Local`;
  DigitalOcean leaves its link-local address when `read_metadata` raises; the skew file of
  OAuth is shared without a lock (`url_helper.py:407`).
* Azure: a failing OpenSSLManager leaves its directory (`KeyNotMade`); a failing host name raises for the builtin
  agent and is caught for a command; an empty password is kept as `REDACTED`, so that later boots
  turn password logins on (excepted in `RestIsKept`); a first boot killed before the
  users are made loses the password.

## 6. What is not modelled

`PROJECT.json` lists every part with its reason. In short:

* *Boot stages*: `--force`, `cloud-init single` as a boot stage (it is a process of `Runners`, `Status` and
  `Sections`), `upgraded-network`, the legacy half of the migrator, `clear_all` (no caller).
* *Handlers*: what the script, boothook and upstart handlers write: one file each, by name.
* *User-data*: MIME structure, archives and the launch-index filter, which decide what the parts are and keep no state.
* *Datasources*: what the answers say beyond what a stage depends on; what VMware's
  customization writes of network and password.
* *Detection*: the parsing of the policy and the configuration a test may write beside the list.
* *Network*: name servers, MTUs, hardware addresses, parameters, routes of no interface,
  udev rules: each is copied from one dictionary to another without a decision.
* *Mergers*: a pure recursive algorithm over nested values; what a boot depends on, the order of whole
  keys, is `Consumption`'s `Merged`.
* *Distributions, utilities, templates, old init systems, developer tools, and the config
  modules that run a single command*: no state of their own and no order of effects; what such
  modules share is `Sections` and `Runners`.
* *Formatting and wording*, everywhere; and kills inside one `write_file`, except where the file's
  content decides later (`Boot`, `Consumption`).

## 7. Plan

Done, in this order: `Runners`, `Boot`, `Status`, `PartHandlers`; `Renames`, `Metadata`,
`Sections`, `DiskSetup` and `AzureDisk`, the chain of `Guest`; `DataSources`, `Identify` and `Discovery`;
`NetworkConfig`, `NetworkSources` and `ApplyNetwork`; `Configure` and its modules; `RootDisk`; `Crawl`, `Fabric`, `Services`.

Left, by what it would add: `Discovery` with `Boot`, so that what a stage caches is what the next one searches;
mergers against a reference over small nested values; theorems about the other ten config modules of `Configure`.

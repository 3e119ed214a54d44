# TLA+ models of icp-cli

icp-cli is a program that runs for a moment and ends. What it leaves behind (directories, files, processes,
keys, canisters) is found by the next invocation, and by other invocations that run at the same time. The hard part of it
is not in any one command but between them: what a killed command leaves, what two commands do to the same files, what
a call did whose answer was lost, in which order concurrent results are used, and whether a thing that was read is still
so when it is used. This directory models those parts in TLA+, checks them with TLC and proves some of the results with
TLAPS.

`PROJECT.json` lists components, runs, mutants, the source lines of every definition, findings, hazards and theorems.
Paths below are relative to `src/`; "cli" stands for `crates/icp-cli/src` and "icp" for `crates/icp/src`.

## 1. Inventory

| Part | State it keeps | Operations | Hard behaviour | Module |
|---|---|---|---|---|
| Directory locks, `icp/fs/lock.rs` | a lock file per directory; a tokio RwLock and an open file description per `DirectoryStructureLock` | `with_read`, `with_write`, `into_read`, `into_write`, drop of an owned guard | readers of one process share a file lock; errors and process death on every path | DirLock |
| Managed networks, `cli/commands/network/{start,stop}.rs`, `icp/network/**` | project descriptor, port descriptors, state directory, launcher process | start (background, foreground), stop, access check | several lock sections per command, decisions on a descriptor read earlier, ports shared by projects, hung replicas, kills, pids | NetworkLifecycle |
| Containers, `icp/network/managed/docker.rs` | image, container, status file, log stream | start and stop of a containerised network | log follower beside the waiting start, a guard that must stop the container, a daemon that fails | Containers |
| Project model, `icp/project.rs`, `icp/manifest/**`, `icp/lib.rs` | none (a function of the manifests) | finding the workspace, consolidation of a project and its dependencies | name spaces, shared instances, defaults, conflicts | Workspace |
| Bundles, `cli/operations/bundle.rs` | an archive | `project bundle`, loading what was extracted | names and paths rewritten for a place that has no parents | Bundle |
| Context, `icp/context/**`, `icp/lib.rs` | a project cached for the command | selection of environment, network, agent, canister id | manifests edited while a command runs | ContextSelection |
| Canister creation, `cli/operations/create.rs`, `cli/commands/{deploy,canister/create}.rs` | concurrent calls, a shared subnet lookup, canisters and cycles, ICP at the CMC | creation by ledger, operator, management canister, proxy or for ICP | lost answers, retry and fallback that would pay twice | CreateOperation |
| Canister id store, `icp/store_id.rs` | one JSON file per environment | register, lookup, delete | loaded and saved whole under a lock of the process only, written in place; results matched with names | CanisterCreation, CanisterDeletion |
| Settings, `cli/operations/settings.rs`, `cli/commands/canister/settings/**`, `cli/operations/binding_env_vars.rs` | settings of canisters | `settings update`, `settings sync`, deploy's own | read, merge, replace over the network; consent; controllers that do not exist yet | CanisterSettings, CanisterCreation |
| Build, install, sync, `cli/operations/{build,install,candid_compat,sync}.rs`, `icp/store_artifact.rs` | artifact store, code, status and chunk store of canisters | phases of deploy, `build`, `canister install/stop/start`, `sync` | stop and restart around an upgrade, partial failure of a project, shared chunk store | CanisterInstall |
| Delete, link, recovery, `cli/commands/canister/{delete,link}.rs`, `cli/operations/recover_cycles.rs` | canister, its cycles, the recorded ids, `custom-domains.txt` | `canister delete`, `canister link` | seven calls in a row, each may fail; several ways to lose a balance | CanisterDeletion |
| Migration, `cli/commands/canister/migrate_id.rs` | two canisters, the NNS migration canister | checks, request, watch, resume | long protocol, time-outs, terminal states | IdMigration |
| Snapshot transfer, `cli/operations/snapshot_transfer.rs`, `cli/commands/canister/snapshot/{download,upload}.rs` | directory with metadata, blobs, chunk files, two progress files; snapshots on canisters | download, upload, each fresh or resumed | chunks finish in any order; interruptions anywhere | SnapshotDownload, SnapshotUpload |
| Package cache, `icp/package.rs`, `icp/canister/{wasm,recipe/fetch}.rs`, `icp/network/managed/cache.rs` | modules, recipe templates and launchers by hash or version; a manifest of tags | lookup, download, cache, tag, replace | shared by all projects and icp-cli versions; mutable URLs | PackageCache |
| Identities, `icp/identity/**`, `cli/commands/identity/**` | list, defaults, key files, keyring entries, delegations, sessions | new, import, rename, delete, link, reauth, delegation | several files changed one after the other, an external key ring, a login between two sections | IdentityStore |
| Key files, `icp/identity/{key,seed}.rs`, `cli/commands/identity/{new,import,export}.rs` | a key in a file | conversions between PEM forms, seed phrases, passwords | a key read as another kind signs as someone else | KeyFile |
| Web login, `cli/commands/identity/link/web.rs`, `cli/operations/ii_poll.rs` | a callback server | one login | concurrent handlers, two channels, a shutdown | WebLogin |
| Telemetry, `cli/telemetry.rs` | event log, batches, a guard slot | record, rotate, send, clean up | detached senders beside writers | Telemetry |
| Tokens, cycles, calls, logs, status, templates, parsers, output | none that lasts | one call, query or transformation | little | - |

How they meet. Every shared directory is under a `DirectoryStructureLock`, the id store and the telemetry directory
excepted. A command loads its project once (Context), finds an environment in it (Project model), an agent and an
identity (Identities), ids (Id store). `deploy` goes through building (artifact store, package cache), creation (id store),
settings, installation, sync. All commands on a managed network first read its descriptor and that of its fixed port. A
`network start` that finds a stale network removes ids from the id store, since the canisters are gone with it. Downloads
and uploads of snapshots meet in one directory. Nothing runs in the background except launchers, containers and telemetry
senders.

What makes each part correct:

* locks: a writer runs alone over all processes; no exit leaks a lock; a waiter gets in;
* networks and containers: a running network keeps its directory, its port claim and its descriptor; nothing is
  signalled that is not the project's; ids on record belong to the network that runs; a stale network can be replaced;
  a start that fails leaves nothing behind; the user sees why; no deadlock;
* project and bundles: a dependency means the same in a workspace as alone; one instance per place however it is
  reached; an environment reaches only canisters of its members; an extracted bundle is the project it was made from;
* context: an agent talks to the network that the ids are of, also while the project is edited;
* creation: ids are recorded under their names and kept; nothing is paid twice; ICP is accounted for; canisters are
  together on a subnet; controllers are complete; repeating deploy completes;
* settings: someone stays in control; what is declared ends up on the canister, what is not is left alone;
* installation: only what was built is installed; interfaces are not broken unasked; no canister is left stopped; the
  canisters that are synced run; deploying again repairs;
* deletion and linking: no balance is lost that nobody agreed to lose; what is recorded is there;
* migration: what is reported is so; watching ends;
* snapshots: a record never runs ahead of the data; a reported transfer is faithful; resuming ends;
* package cache: pins hold against anything cached; nothing unvouched stays; a launcher is never too old for the CLI;
* identities: every listed identity has its key and signs as the principal it is listed with; the default is on the
  list; nothing secret is left of what was deleted; a key signs as the same principal wherever it has been; a login ends
  only with the page the user logged in through;
* telemetry: a record is counted once; a batch stays until it is accepted, refused or too old.

## 2. Modules

```
DirLock                                              implements DirAccess
DirLock, Containers, Telemetry ---- Processes_proofs
NetworkLifecycle ---- NetworkLifecycle_proofs
Workspace <-- Bundle        ProjectTrees (the manifests they are checked with)
SnapshotShape  BlobProgress  ChunkLedger
   SnapshotDownload                                  implements ChunkLedger
   SnapshotUpload
      SnapshotTransfer = SnapshotDownload + INSTANCE SnapshotUpload     ---- SnapshotTransfer_proofs
CreateOperation
   CanisterCreation = CreateOperation + id store, controllers, invocations      ---- CanisterCreation_proofs
CanisterSettings, CanisterDeletion, IdMigration, ContextSelection ---- CanisterCommands_proofs
CanisterInstall ----- CanisterInstall_proofs
PackageCache -------- PackageCache_proofs
IdentityStore, KeyFile, WebLogin ---- Identities_proofs
Absent                      None: what is not there
MC...: what the .cfg files check
```

`DirLock`. A `Handle` is a `DirectoryStructureLock` value: its RwLock (`guards`) and its open file description
(`flock`). A task is in one of the places of `with_read`/`with_write`/`into_*`. `Grantable` is flock(2): a description
is compared with the others, never with itself. `Die` is the end of a process. `DirAccess` is the abstract promise:
readers together, a writer alone. Who is inside (`Allowed`) maps DirLock to it, while each handle is one task's. The other modules take from it that
write sections exclude each other, and represent a lock by its holder.

`NetworkLifecycle`. `cli[c]` is an invocation: its program counter, command, project, what it has read (`seen`), the
launcher it spawned (`mine`) and the ports it still has to lock. A file holds the launcher that it describes, None, or
Torn. A section of `with_write` that does several things is several actions while the lock is held; a short section is
one. `proc` is the launcher's process: starting, serving, hung (its replica is dead, start.rs 104), dead. The faults
that may happen are a constant, and so are the commands.

`Containers` follows one start with its guard (`guard`: what Drop will stop), its log follower (`follower`, a task beside it), the
container and the daemon. `trouble` is what goes wrong with this start: the daemon's calls fail, it cuts or
stalls the log stream, a write to the terminal never returns. The host part of a mapping is a text: a port, 0, empty or a range (`HostTexts`); which ports are locked (`FixedPorts`) and which
are reported as fixed (`GatewayFixed`) are decided apart, as in the code. `shown` is what the terminal shows of the container, `failure` the error.

`Workspace` is the walk of `consolidate_manifest`: `frames` are the calls of `walk` that are under way, `registry` the
instances found, `canisters` what is claimed so far under which store key. Paths, manifests and names are model values,
`ProjectTrees` is the set of the trees: every choice of dependencies among four directories, the spellings of paths, the
environments and overrides that can conflict. `Bundle` extends it with the bundler's walk (`todo`, `found`), writes the archive, and
loads what was extracted with the same operators; its properties compare the two projects.

`ContextSelection`. `files` is the project on disk, which `Edit` changes; `cached` what the command loaded. A command asks for
an agent and an id, in the order the code does.

`SnapshotDownload` and `SnapshotUpload` follow one run at a time (both commands hold the directory's write lock) through
its blobs. `todo` are the calls in flight, which arrive in any order. `SnapshotShape` says what a snapshot consists of.
`BlobProgress` is the data structure of the progress file as pure operators. `ChunkLedger` is the abstract promise:
chunks are recorded once each, and the record is dropped when it is full. `SnapshotTransfer` lets them alternate over
one directory: what an upload sends is what the downloads wrote.

`CreateOperation` has the creation calls of an invocation, `CanisterCreation` what the invocation does with them: take
results in order, register, sync dependents, sync settings. `made` are the canisters on the network. An id is reused
once nothing refers to the canister, so that repeated deploys with lost answers stay finite.

`CanisterSettings`. `work[u]` is the command of a user: what it read, what it is about to send, whether the user consents.
A request is a record of flags. `Merged` and `Edited` are `sync_settings` and `settings update`. One limit stands for
compute and memory allocation, freezing threshold and the other plain values, which the code treats alike.

`CanisterDeletion`. The steps of `delete` are `at` of a terminal's command; each call is carried out, carried out but not
answered, or fails. `net` has of a canister its status, its module, whether its balance is worth recovering (`large`) and whether
the freezing threshold leaves it to be spent (`liquid`). `waived` are the
balances whose loss a user accepted, `unseen` the canisters that were deleted by their principal or were gone when they were linked,
`disturbed` those whose balance another command changed in the midst of a recovery; `overlapped` remembers that two commands were
ever under way at once. (These four are there for the properties only.) Other commands on a canister (stop, start, reinstallation,
settings update, top-up) are single steps that may come between any two calls of a delete.

`IdMigration`. `migrations` are the attempts at the NNS migration canister, of which the last one advances or fails at any time;
`doing` is the command, `own` the attempt it requested, `polls` its clock, `report` what it told the user and of which attempt.
Another user may request a migration of the same pair (`RequestElsewhere`).

`CanisterInstall`. A run is in a phase, and each of its canisters has a task in it; tasks interleave freely, a phase ends
when all are done, as `FuturesOrdered` and `try_join_all` do. `art`, `code`, `running`, `chunks` are the artifact store,
and code, status and chunk store on the network. Calls have an outcome: ok, fail, or lost (done, but not answered).

`PackageCache`. An invocation has one request at a time. A content stands for bytes and their sha256. `Stale` compares
CLI versions. Lookups are single steps; a `with_write` section that can be seen from outside, or be cut short by a kill,
is several.

`IdentityStore`. `store` maps places (list entries, key files, delegation files, keyring entries) to contents. A command is
the list of writes that its locked section makes, in order; `Section` makes them all or, if it is cut short, the first few. Reauth
has its login between two sections. A chain is the pair of the principal it speaks for and the key it was issued to. `KeyFile` follows one key through import, storage, loading and export, in every PEM form, with
every password, typed or from a file that ends in a line break (`Texts`; `trim` is what the code does to most of them). `WebLogin` has the handlers of the callback server as concurrent tasks over a oneshot and a watch channel.

`Telemetry`. Writing an event is open and append; a rotation renames the log, then lists the batches and removes the old and
surplus ones of its list one by one, then spawns a sender, a process of its own. The clock runs to `MaxTime`; `Guard` is the slot
that keeps commands from triggering at once. `logged` and `crowded` are there for the property: what was in a batch when it was
rotated, and which batches ever had `MaxBatches` others beside them.

### Instances

Most MC modules put several components into one run: they EXTEND them, so that the run checks the definitions that
the proof modules prove; only Bundle, whose trees are computed, SnapshotUpload, which takes its files from the downloads,
the network of `waiting` and the installations of `create_together` are instantiated. Such a module has *scenes*. `scene` is chosen in the initial state and kept; each
scene lets one component move, with some of its commands, and leaves the variables of the others at one
value. The behaviours are the union of those of the components, each with its own constants and fairness; a configuration
checks them in one pass, and a property of a scene is stated as `scene = ... => P` or holds in the others because nothing
moves. The components of a scene module do not interact; the composed modules are the ones in the tree above.

## 3. Runs

| Run | Question | Scenes and bounds |
|---|---|---|
| networks | what do commands on projects leave behind? | four projects, of which two have networks at a time: *apart*: two without a common port, one with a fixed one; *same*: two that fix the same port; both with 2 invocations, 3 launches, commands of a project one after the other, launchers that die (only apart) or hang, files that cannot be removed. *project*: every dependency graph of four projects, one shared dependency with every environment, override and init args, and every manifest that is refused; loaded and bundled from every directory. *telemetry*: 2 commands at a time, 3 records, 1 batch kept |
| waiting | does what waits get on, and safely? | *lock*: 3 tasks with a handle each. *network*: 2 overlapping invocations, 2 projects with one fixed port in common of which one fixes another too, 2 launches; hang, kill, files that cannot be removed (`ByOne`: one invocation may be killed, the other may be a stop). *container*: every option, host part and trouble, 1 line of output, 1 mapping, or 2 without trouble. *migration*: 2 attempts, 3 polls |
| canister_life | are canisters and their state carried through failures? | *create*: 2 canisters that control each other, 2 subnets, one an engine with an operator; fail, lost, kill. *transfer*: blobs of 0, 3, 1 chunks, 1 wasm chunk, 2 targets; stop, and for uploads fail and twice |
| install_project | any commands, one after the other | 2 canisters, one synced and with a large, breaking second module; every mode; kill, fail, lost |
| create_together | what holds when two deploys interleave, or a deploy and other commands on its canister? | *create*: 2 runs, 2 canisters, 2 ids; fail, lost, kill, every ending of a payment in ICP. *beside*: deploy beside install and stop, 2 runs, 1 canister; fail, lost |
| user_commands | what may go wrong between a user's commands? | *store*: 2 names, 2 P-256 and 2 other keys, 1 principal behind logins and chains, 1 command cut short, chains that do not belong to the key. *file*: 1 key, every PEM form, 2 passwords. *login*: 2 posts. *modules*, *recipes*, *launchers*: two versions over one cache, 3 requests each; kill, fail, change. *settings*: 1 of 2 users, 8 kinds of request, 2 environments. *race*: both, requests on controllers, a deploy of a third environment. *overlap*: 2 terminals, 1 canister, 2 faults. *serial*: 1 terminal, 2 canisters. *selection*: every combination of arguments, 2 versions of a project |
| dirlock_shared_read | is there a writer beside a reader if tasks of a process share a lock value? **violated** | 3 tasks, two of them on one handle |
| create_overlap | is an id dropped when two deploys interleave? **violated** | 2 runs, 3 ids, no faults |
| identity_rename_self | does a listed identity keep its key if it is renamed to its own name? **violated** | as *store* |
| port_deadlock | does a start find each of its ports in use, or claim it? **violated** | 2 starts of 2 projects that fix the same two ports, no faults |
| stop_reused_pid | is only the project's own launcher signalled? **violated** | *apart* with 2 launches; launchers die, pids are given again |
| telemetry_retry | is a batch that could not be sent sent again? **violated** | 2 batches kept |

Why these bounds. The mechanisms are pairwise: a lock and its contender, a descriptor and the command that read it
earlier, a build and an install of the same name, a saved record and the data it speaks of, a list that was read and the list
it overwrites. Two invocations, two projects, users or canisters, and one thing they share show each of them (two things in `port_deadlock`); a third task
in `DirLock` adds a second process beside two tasks of one. Three chunks are the least with a frontier, a chunk ahead of
it and a gap between; blobs of 0 and 1 chunk are the edges. Three launches allow a network, its replacement and another
project's. Three requests let one CLI write what a second one reads and a third replaces. Four projects make a diamond
with a dependency below it, chains of three, and cycles that do and do not go through the root. One cut is a command that failed; the next
commands find what it left. Two posts are the page the user logged in through and another one, in either order.
Ids and targets are finite because they are reused or because no property needs more. `MaxLaunches`, `MaxAsked`,
`MaxVersion`, `MaxCuts`, `MaxPosts`, `MaxFaults`, `MaxLines`, `MaxPolls`, `MaxAttempts`, `MaxRecords`, `MaxTime`, `Ids` and
`Targets` (the snapshots that uploads can make) are the only cut-offs, each in a guard; when `Targets` is used up, uploads can only be resumed.

Symmetry: `create_together` permutes ids and runs, `networks` invocations, `user_commands` keys of a kind. These check
invariants and action properties only, and their constants treat the permuted values alike.

Deadlock is checked in `networks` (whose project and telemetry scenes come to an end, and may then stutter), in `stop_reused_pid`,
`telemetry_retry` and `dirlock_shared_read`. The others say `CHECK_DEADLOCK FALSE`, since the system may stop: a migration is over, a container is
stopped, all requests or posts are spent, targets are used up, all commands have ended. In `waiting` the liveness
properties say that nothing stops that should go on.

### What each property says

The comment above each definition states it; here is where it leads.

* networks: `StateDirIntact`, `NoOrphans`, `MappingFresh` hold while commands on one project do not
  overlap, though the other project's may. `KeptApart` (a published network keeps its claim, a stale descriptor can be
  cleaned up) speaks of projects whose ports no other one fixes, and holds while no command is killed. Section 6 says what happens outside.
  `MembersFaithful` compares a member's part of a workspace with what loading that member alone gives; `BundledFaithfully` the
  project loaded from an extracted bundle with the one it was made from. `CountedOnce`, `KeptUntilTaken` are about telemetry.
* waiting: `AccessAsPromised` (the refinement of DirAccess), `NothingLeaks`, `GetsIn` (which assumes that everyone else keeps out: flock has no queue, so
  a stream of readers may starve a writer). `CommandsReturn`: after the last command is given, each returns or serves in the
  foreground, where no two projects have two ports in common (`PortsAnswered` is what fails there). `StartsCleanly`, `OutputBeforeError` (Containers), `ReportTruthful` (IdMigration), `WaitsEnd` (both).
* canister_life: `Arranged` (controllers complete, canisters on one subnet, nothing paid twice),
  `StoreKept` (no id is lost after it is recorded, nor before), `DeployCompletes`; `RecordedIsOnDisk`, `LedgerKept`,
  `DownloadFaithful`, `UploadFaithful`, `UploadEnds`. `UploadFaithful` has a ghost of everything that was sent and was
  not the snapshot at that time.
* install_project: `DeploysInOrder` (a deploy installs what it built, and only if all was built; what is synced runs),
  `BreaksNothing` (but for interfaces that could not be fetched and what the user of `install` confirms), `RedeployHeals`.
  create_together: `NamesKept`, `Accounted` (nothing paid twice, no ICP astray but for the three endings it names),
  `NothingLeftStopped`.
* user_commands: `IdentityIntact` (`KeyAtHand`, `SignsAsListed`, `DefaultListed`), `NothingLeftBehind`, `KeyKept`, `LoginBound`,
  `Vouched` (pins are honoured over anything cached, nothing unvouched stays), `FreshLaunch`, `SettingsKept` (some caller stays in
  control whatever overlaps; a command that nothing overlapped leaves what its manifest declares and takes away nothing that it
  found, but for the variables, which a deploy replaces), `DeletionSafe`, `AgentMatchesIds`.

Every property of a passing run has a mutant: a change of a definition, of the kind a bug would be, under which TLC finds
the property violated. The mutants stand beside what they change and say `mutant`.

### Fairness

* DirLock: weak fairness of what a task does once it may (`Progress`). The executor polls every future, the kernel wakes
  waiters, closures end. Calling, failing and dying are not fair.
* NetworkLifecycle: weak fairness of each invocation's steps and of a launcher binding its ports and reacting to SIGINT.
  A stop waits at most 10 s (launcher.rs 231), so waiting is a step that ends. Crashes are not fair.
* Containers: weak fairness of the start and of the log task. Calls to the daemon are answered or given up after the client's
  120 seconds (docker.rs 721-728), draining has a time-out of its own; the log stream has none, and where a start in the background
  reads it a stalled one holds the start (`HeldByLog`, which `WaitsEnd` excepts). The container owes nothing: `WaitsEnd` assumes
  that it writes its status or exits.
* IdMigration: weak fairness of the command; its queries are answered or fail, and its timer fires. The migration canister is
  not fair: the command must end whatever it does.
* SnapshotTransfer: reads and calls are answered or fail after `with_retry` gives up, so a run goes on; `UploadEnds`
  also assumes that the user resumes an upload that did not finish (strong fairness, as the directory may be busy in
  between), leaves the directory alone otherwise and that failures end.
* CanisterCreation, CanisterInstall: a run goes on until it ends, and the user repeats `deploy`. The liveness properties
  speak of behaviours in which failures end, and nobody gives other commands; without this assumption they would be false for trivial reasons.

The other modules promise nothing that must happen and state no fairness.

## 4. Proofs

All for any values of the constants that satisfy the ASSUMEs. `CacheAssumption`, `NamesApart`, `Containable`, `TelemetryAssumption`,
`DeletionAssumption`, `SettingsAssumption`, `ContextAssumption`, `LoginAssumption` and `KeyAssumption` are definitions, hypotheses of the
theorems; the MC modules of the runs assume them, so that TLC evaluates them. Most only say that a model value is not None. What the faults do that a theorem excludes is in sections 5
and 6.

* `Processes_proofs`: processes that meet at files. For locks the inductive invariant says that every guard is that of a task past `Admit`, a description's lock is
  exclusive exactly while a writer of that handle is inside, and two descriptions hold compatible locks.
  `WriteAccessExclusive` (write access is exclusive however handles are shared), `OwnHandlesExclude` (with one task per
  handle no reader is beside a writer), `ImplementsDirAccess`, the refinement of `DirAccess` (a step lets one task in, which
  exclusion after the step shows to be permitted, or some out: `EntersOrLeaves`), `NoLockOutlivesItsUser`.
  For a containerised start `ContainerInv` says what the guard holds at each step (`Guarding`: from the creation until it is
  disarmed, a container that may run is one that the guard will stop), what a stop has done (`Stopping`), where the log task is
  while the start drains or aborts it (`Following`), and which locks stand behind what is reported (`Reporting`).
  `StartsAreClean`; `OutputComesFirst`, an action property: after the error nothing is written because the task is over, or what
  it still writes is stuck. For telemetry, `CountInv`: records are numbered by their place in one file (`Numbered`), which an
  invocation that writes still has open under whatever name (`Held`), and what the endpoint took is a part of what the batch
  contains (`Sent`). `RecordsCountOnce` follows, with late writers too. What was in the log at its rotation stays in the batch (`Rotated`), each sender
  has read that much (`Reading`), and what a command is yet to remove was too old or one too many when it listed the batches,
  whatever happened since (`Dropping`, `Crowding`): `RecordsStayUntilTaken`, an action property.
* `NetworkLifecycle_proofs`. The invariants are layers, each for fewer faults, and each theorem uses the first that suffices.
  `IInv`, for all faults: a root lock is held exactly in the program counters of a section, a port lock inside a section of a project
  that fixes the port. `KnownInv` adds what kind of command is where (`KindOf`) and that a launcher in memory or in a
  descriptor is one that its project started (`Owned`). `SerialInv`, without overlaps, adds that one command of a project is
  under way (`Alone`) and that files say what was last written (`Recorded`). `QuietInv`, without kills too, adds what a
  launcher that `Counts` (serving or about to) must still be known by (`Described`, `DirsKept`). `LocksAreHeldInside`, `TypeCorrect`,
  `MappingStaysFresh`, `NetworksAreFound`, `StateDirsAreKept`. `Claimed` says, of each project whose ports no other one
  fixes, that a port descriptor speaks of its own network: hence `CleanupGetsThrough` and `ClaimsAreKept`, which are
  `ProjectsStayApart` together.
* `SnapshotTransfer_proofs`. `IInv` relates the progress in memory with the one in the file (`MemIsSaved`), both with
  what is on disk (`Sound`), and says which chunk of the current blob is on its way (`BlobUnderWay`) and that earlier
  blobs are complete. `MarkCompleteIs` is the lemma about the data structure: marking a chunk adds exactly that chunk.
  `RecordIsOnDisk` for all faults; `ImplementsLedger`, the refinement of `ChunkLedger` step by step;
  `FaithfulAndResumable`, if runs stop only between writes and are resumed with the same snapshot. For uploads, `UInv` says
  that the target holds what either progress calls sent (`Holds`), and that each chunk of the current blob is below
  the offset, acknowledged beyond it, in flight, or one of a blob that has failed (`BlobSent`): hence the
  offset reaches the end when nothing is in flight. `UploadsAreWhole`, for all faults and incomplete directories too;
  `UploadsAreFaithful`, from one end to the other, adds that an upload runs from a complete directory and keeps downloads out (`FromWhole`).
* `CanisterInstall_proofs`. `NothingLeftStopped` is not inductive: `IInv` adds that a task which stops a canister goes on
  to restart it (`StopGuarded`), that a chunked installation is one of a large module (`ChunkedIsBig`), and that a task
  under way is one of a canister its run's phase is about (`WellPlaced`). The last is what lets a phase end or be aborted:
  every task of the run is then over, so that none still owes a restart. `InstallTypeCorrect`, `NoneLeftStopped`, for any
  runs, canisters, modules and faults. `DeployedInOrder` and `NothingBroken` (action properties) have the hypothesis that commands are
  given one after the other (`OneAtATime`, on the behaviour: only the user can promise it). `SInv` adds for them that a run
  past the build phase has built what it works on (`HasBuilt`), that a task's module is still the one it compared (`HoldsItsModule`,
  `Compared`) and that what is synced is installed and running (`Ready`).
* `CanisterCreation_proofs`. Not only the store but whatever knows an id must know it under the name that the canister was made
  for: the mapping a run has read or is about to save, the result of a call, the CMC's block. `Held` says so of an id and of
  the controllers it has, `IInv` of all places (`StoreHeld`, `RunHeld`), and of the controllers that a sync has read and not yet
  written. To know that a new canister is one, `IInv` follows the subnet (`Placed`, `FirstMade`). `NamesAreKept`, for any
  manifest and any invocations at once, through every fault. `PaidOnce`: an operation is charged at most once for a canister, from
  `Charges`, which says in which of its steps an operation has been charged. `MoneyIsKept`: ICP sent to the CMC became the
  canister of its block, came back, or is in an error that names the block, and any other ending is one of the three that
  `Unfollowed` names; `Funds` ties the fate of the ICP to the step of the call and to the block (`Follows`). Two more theorems have the hypotheses
  that one invocation is under way at a time (`OneRun`; otherwise ids and controllers are overwritten, section 6) and that none is
  killed inside the write of the id store (no fault `tear`); manifests, names and all other faults are arbitrary. `Solo` says
  what one run's steps mean for it: in the loop the names to come are neither in the store nor the one being registered.
  Hence `IdsAreKept`. For the controllers, `Wires` says that they are set (`Linked`) but for those that a run still `Owes`, because
  it is yet to visit the dependent or holds settings that it read and has not written; where it ends with an error, the names are in
  `unwired`. For the subnets, `Near` says that canisters that nobody placed are `Together`, and that what a run
  will place a canister by (a canister that it follows, a subnet that it has drawn) is where they are, or there are none yet
  (`Joins`, `Chosen`, `Gathered`). `CanistersAreArranged` draws both together, with `PaidOnce` and `CreationTypeCorrect`, which
  hold for any invocations at once.
* `PackageCache_proofs`, from `CacheAssumption`. What a lookup returns is right because of what each step before it
  established: `IInv` says of every program counter what the invocation has asked for and holds by then (`AllSettled`: `Asked`,
  `HasWasm`, `HasRecipe`, `EndedWell`), that only the holder of the write lock is inside a section (`Exclusive`), and that
  the tag read in a section is still the one on disk (`TagHeld`). `PinsAreHonoured`, `CacheIsVouchedFor`,
  `PinsGoBeforeTags`, `CacheTypeCorrect`, all four as `CacheIsSound`, and `LaunchersAreFresh` (an action property), for any
  CLIs, versions and contents, with servers that change, failures and kills.
* `Identities_proofs`. For the store, from `NamesApart` (no identity is called like another one's delegation key), for commands that do not
  overlap and renames to another name. Commands write several files in an order, and any of them may be cut short. The
  invariant holds of every name: its key is there while it is listed (`HasKey`), nothing but what helps is there while it is not (`Clean`).
  A section is followed write by write: a property that every write of the section keeps, or that all from some point on
  establish, holds wherever it is cut (`AllSplit`, `ReachSplit`, `SectionKeeps`). A rename, the longest, is proved in
  parts: key copied, chain moved, list and default rewritten, old key removed (`Copied`, `Moved`, `Relisted`, `Followed`).
  `IdentitiesStayIntact`, `NothingStaysBehind`.
  `LoginsAreBound`, from `LoginInv`: each handler is where its request's outcome puts it, the chain in the oneshot and the shutdown
  are the work of a handler whose request echoed the nonce and was not of another principal, and so is the end of the server, in any interleaving
  of handlers and of the branches of the `select`. `KeysStay`, from `KeyInv`: what is stored has the algorithm it was read
  as, and what was read is the key itself unless the user asserted another type (`misread`); the password it is encrypted
  with, trimmed, is the one that opens it: `import` does not trim a password file (section 6), so that a file with a line break
  does not open what it sealed, but typing it does.
* `CanisterCommands_proofs`. A delete that recovers comes to its last two calls with an empty canister (`Emptied`), since
  the balance is liquid from the lowering of the threshold to the deposit (`Spendable`), each unless a command reserved or
  filled the balance in between: those canisters are `disturbed`. `NoCyclesLost`, for any terminals, canisters and lost calls. `LivesInv` adds for
  `RecordedLives` what a delete has removed at each of its steps and that it alone is under way: `WhatIsRecordedLives`, and
  `DeletionsAreSafe`, which is both. A migration's
  report is the last thing that a command does (`ReportIsLast`), and nothing is requested, hence burnt, before the surplus
  was spoken of (`AskedFirst`); what is polled is never older than the attempt that the command requested. `ReportsAreTrue`, for any number of attempts and polls, and with another user's requests. For settings, `InControl` says that the
  canister, and each list of controllers that a command is about to write, has a caller in it or was consented to: lists that are old
  keep their writer in. `Undisturbed` says that a command that is still alone knows the canister as it is, and what it has changed so far
  of what it found (`Knows`, `BoundIs`, `BoundKeeps`). `SomeoneStaysInControl`, for any number of users; `DeploysAsDeclared`; `SettingsAreKept`, both, from a canister that
  one of the users controls at first. For the context, `ContextInv` says that the agent and the id that a command has so far
  are of the project that it cached, and that what is cached stays: `OneProjectDecides`.

Model-checked only:

* all liveness (`GetsIn`, `CommandsReturn`, `WaitsEnd`, `UploadEnds`, `DeployCompletes`, `RedeployHeals`): liveness under fairness
  and ENABLED are out of TLAPS's reach;
* `MembersFaithful` and `BundledFaithfully`: what a walk over a workspace of any depth and a bundle of it contain is an induction
  over data (folds over the manifests), which the installed provers cannot do.

Every other property of a passing run is stated by a theorem, with the definition that the run checks (`NothingLeftStopped` through
the instance of CanisterInstall in MCCanisterCreation).

## 5. Findings

* `dirlock_shared_read`: `with_read` ends in `unlock()` on a duplicate of the descriptor that all readers of the lock
  value share (icp/fs/lock.rs 96). The first reader to finish unlocks the file for all of them, and a writer of another
  process is let in beside the rest. Builds do this: one future per canister over one package cache.
* `create_overlap`: the loop in deploy.rs that caches errors "until all futures are processed. Otherwise we risk
  dropping a canister id." returns with `?` when registering an id fails (266) and when syncing dependents does (277);
  ids of canisters created meanwhile are then neither recorded nor printed.
* `identity_rename_self`: `icp identity rename a a` passes the check that the new name is free, because the old name has been
  taken out of the list before (key.rs 1219), and then deletes the only copy of the key.
* `port_deadlock`: a start takes the locks of its fixed ports one by one and keeps them (run.rs 159-173), in the order of a HashMap's
  values (docker.rs 66-79). Two projects with two common ports can wait for each other for ever, where directory.rs 45-48 says
  that a start finds the port in use or claims it.
* `stop_reused_pid`: `network stop` interrupts whatever process has the pid of the descriptor (run.rs 79-82), and does not compare the
  start time that is kept there "to detect PID reuse" (config.rs 110-111).
* `telemetry_retry`: a batch whose sending failed "remains for retry on the next trigger" (telemetry.rs 476), but the
  next trigger sends only the batch that it has rotated itself; others wait until cleanup deletes them.

## 6. Exposures

Behaviour that a model has, that its properties rule out or its runs leave out by a named constant, and that no document
of the repository promises to be otherwise, or that no run of this project is spent on.

Networks. A second `network start` of a project, begun before the first has published its descriptor, removes the state
directory under the first one's launcher (run.rs 177-180; directory.rs 226 warns of it), and either launcher is lost to
`stop`. A start or a foreground run that ends withdraws the descriptor of its gateway port even if another project has
claimed the port meanwhile (start.rs 119, run.rs 309-312). A start killed between its two clean-ups leaves a descriptor
that every later start fails to clean up (start.rs 119-121). A stop gives up after 10 seconds and removes the descriptor, so that
the next start wipes the directory under a launcher that is slow to end (launcher.rs 231; fault `slow`). A background start that is
killed between spawning the launcher and saving its descriptor leaves it to nobody.

Containers. A gateway whose host part is neither a port nor 0 (empty, or a range) is reported as fixed (docker.rs 458-466), but
no port is locked or claimed for it (66-79), so that every later command misses the port's descriptor. A start in the background
whose container has exited waits for the end of the log stream without a time-out (665-687), as long as the daemon stalls it. A foreground network does not notice that its container exited. A
container that neither writes its status nor exits makes the start wait for ever. If the inspection after
the status fails, the log follower may print below the error.

Projects. Two init-args files whose paths differ only in leading `..` share one path in a bundle's archive (near
bundle.rs 380). An override by which a member names its own dependency's canister with a file makes bundling fail. A dependency's controller name that it does not
know is accepted if the root has a canister of that name (project-dependencies.md 127); names in environment overrides
are not validated at all (project.rs 1218). A canister whose path lies outside its project's directory is no default target there. The
search for the workspace stops at the first ancestor that does not declare the member.

Context. `Lazy::load` lets concurrent first loaders each use their own load (lib.rs 310-331); `get_agent_for_url`
sets no root key.

Creation. Two invocations on one environment overwrite each other's ids (store_id.rs 160) and controllers
(settings.rs 126). After an ICP transfer whose answer is lost (create.rs 492; mishap `unconfirmed`) the error names no block, and
`created_at_time` is not set, so that a retry is a second transfer; a block that the CMC refuses for good (585; `refused`) and an answer of
the CMC that cannot be read (576; `unread`) end without a refund or a way to go on. A kill inside `json::save` leaves an id store that does not parse.

Settings. Deploy replaces all environment variables (binding_env_vars.rs 47-72), so that a user's additions go, while sync merges; variables of the
manifest override bindings. `icp canister settings sync -e <environment>` applies the settings of the canister's manifest without the
overrides of the environment (context/mod.rs 251-273, settings/sync.rs 26-28), though cli.md 537 says "Synchronize a canister's
settings with those defined in the project" and environments.md 150 that environment overrides take precedence; `Manifest` has it
so, and `AsDeclared` asks of a synchronisation what the project declares. Adding or removing a log viewer turns public logs into logs for viewers. Overlapping
commands write lists that they read earlier: they restore controllers that were removed in between and write out users who were
added, of whom only some caller is sure to remain.

Deletion and linking. A delete that fails half-way leaves the canister reinstalled, with other settings. If the freezing
threshold is raised between delete's lowering it and the recovery, the recovery finds nothing (recover_cycles.rs 184-190) and the canister
is deleted with its cycles; so are cycles of a top-up after the recovery. `CyclesKept` exempts both. `link` does not ask the network
whether the canister exists (link.rs 33-58). A delete by principal, or one
whose last answer is lost, leaves the name recorded; `remove_canister_id_for_env` removes whatever id is recorded by then.
`link --force` leaves `custom-domains.txt` as it was, and clears the record before it finds the name undeclared; its check
that a principal is not yet linked is not locked (link.rs 36-49).

Migration. The target's id stays recorded though it ceases to exist (canister-migration.md 123); the prompt
(migrate_id.rs 99-101) and the guide say opposite things about which id remains. The NNS controller is never removed. The
surplus check may be overtaken by a top-up, and `migration_status` is a query that a lagging replica answers: in the model the
balance stays and a query tells of the latest migration of the pair, so that what is reported of another user's request may be
taken for one's own, though never an older one.

Snapshots. A kill inside the write of a wasm chunk leaves a file that a resumed run takes for complete
(snapshot_transfer.rs 648, download.rs 203), and inside the write of `metadata.json` a directory that can neither be resumed
nor begun anew. `--resume` with another snapshot id mixes the two (download.rs 71). Upload does not look whether the
download was finished (upload.rs 77; `EarlyUpload`). Chunks that were acknowledged beyond one that failed are sent again, although
the comment at snapshot_transfer.rs 759 means to save them. A retry of the metadata upload may create a second snapshot.

Package cache. A module cut short by a kill is found by the next lookup, which does not verify it (wasm.rs 96-100), though
configuration.md 165 says "verified before execution". A cut manifest.json stops every command that needs a tag; a cut
template fails its checksum for ever, or renders. A registry recipe whose cached tag differs from a pin fails until the
cache is cleared. A launcher directory that was partly removed counts as installed (cache.rs 51-56), and the path of a
launcher is used after the lock is gone (start.rs 212).

Installation. Artifacts are per project, not per environment: overlapping deploys install each other's builds, and the
module that was compared with the old interface need not be the one installed. When the old interface cannot be fetched,
the check is skipped. A canister without sync steps that a kill left stopped stays stopped; the next deploys upgrade it
without starting it. An installation clears the chunk store under another one, which then fails.

Identities. Names are not validated, so that a keyring identity may share the entry of another one's session key, though
key.rs 322-326 says it cannot. `delegation use` does not compare the chain with the key (fault `mismatch`). A reauth that
waits for its login while the identity is renamed or deleted (fault `overlap`) writes under the old name. A rename that is cut short
leaves a default that is not on the list; leftovers of an interrupted command let a later identity of the
name sign as another principal. Linking a web identity and requesting a delegation do not take the keyring entry back on failure. `new` shows
the seed phrase only after it has stored the key. `import` reads its password file untrimmed (import.rs 259-260) where
export trims it (export.rs 36-40): a file that ends in a line break, as in managing-identities.md 239-248, opens what it sealed only if the
password is typed. `import` takes passwords shorter than `new` does. A login that succeeded may be reported as a panic, when the server's end is seen first
(web.rs 389); a second page is told success though its chain is dropped.

Telemetry. A command that opened the log before the rename and writes after the sender has read it loses its record:
`KeptUntilTaken` speaks of what was in the log at the rename. A line cut short makes the whole batch unsendable. telemetry.md 48 says that a batch's UUID is fresh for
each transmission, but it is part of the file's name.

## 7. Not modelled

`PROJECT.json` gives the reason for every component left out: commands of one call or query (status, logs, call, tokens,
cycles, snapshots other than transfers), where no state of the program lies between two steps; user programs, plugins and template engines;
parsing, rendering and output. Within the modelled parts: the calls that seed a new network are one step; the seeding and the
update nag; `--controller` and `--detached`; init arguments; YAML and globs; the tar format;
what a telemetry event holds; the encodings of keys and contents of messages. External systems (flock, the
replica, the ledgers and the CMC, the NNS migration canister, the container daemon, the key ring, GitHub, the browser, processes) are modelled by what the code relies
on, and are marked external in the map.

## 8. What could come next

1. Proofs: a bound on the depth of workspaces would make `MembersFaithful` an invariant of the walk instead of an induction;
   type correctness of the components whose invariants do without.
2. Abstract specifications: a reader-writer lock that DirLock implements with own handles; a map with atomic updates that
   the id store implements when invocations do not overlap; a content-addressed store for PackageCache.
3. Compositions: reauth and web login in one module; deletion beside creation over one id store; containers inside
   NetworkLifecycle in place of a launcher.

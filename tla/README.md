# A TLA+ model of denia

denia is a single-node application platform: one Rust daemon that accepts
deployments over HTTP, turns them into sandboxed processes, routes traffic to
them, scales them, runs cron jobs and hosts an OCI registry. It is one process
with many tasks. Almost everything that can go wrong in it comes from that: API
handlers, deployment tasks, the autoscaler's ticks, the proxy's requests, the
scheduler and the garbage collectors share a SQLite database, a few locks, the
table of running children and the file system, and any of them can be cut off by
an error, a timeout or a crash of the daemon between two of its steps.

This directory models that control logic in TLA+, checks it with TLC on small
instances and proves the central invariants with TLAPS. `PROJECT.json` lists the
runs, the source lines of every definition, the mutants that show each property
can fail, the hazards the properties are for, and the theorems.

## The system

Components, the state each keeps, what changes it, and what makes it correct.
Paths are under `src/src/`; a dash means that the component is not modelled.

| Component | Source | State | Operations | Correct when | Module |
|---|---|---|---|---|---|
| Scaling decisions | `autoscale/scaler.rs` | one cooldown timestamp per service | `desired_up`, `desired_down`, `clamp_loop`, `note_*_target` | sizes stay in the policy's band, carry the load, and do not flap | `Scaler`, `ScalerLoop` |
| Autoscale controller | `autoscale/{controller,lifecycle,ledger,registry,catalog}.rs` | replica registry, resource ledger, cooldowns, persisted desired count | tick, activate, reconcile after a deploy, drain for a stop, boot | the ledger is what the live replicas hold; registry, runtime and ingress agree at every await; rollouts finish and never take the last healthy replica | `Autoscaler` |
| Deployment coordinator | `deploy/*.rs`, `repo/sqlite/deployments.rs`, `api/deployments.rs` | deployment rows, promoted row, route snapshot and table | create, build, start, probe, promote, route, compensate, stop | the promoted row names something that can run; a Healthy row is the promoted one; every row settles | `History`, `Deploy` |
| Ingress: cold start | `ingress/pingora/state.rs` | single-flight gate, failure backoff | `resolve_or_activate` per request | one launch at a time, none during the backoff, every request answered | `Activation` |
| Ingress: replica pools | `ingress/pingora/state.rs` | endpoint vector and cursor per service | add, remove, set state, dial | one endpoint per replica, cursor in range, round robin | `ServicePool` |
| HTTP proxying, health checks | `ingress/pingora/proxy.rs`, `ingress/socket_proxy.rs`, `health.rs` | route table, the replica's socket-proxy and application | filter, choose a peer, connect, probe, swap routes | a replica is dialled only when it serves | `Proxy` |
| TLS and ACME | `ingress/pingora/{acme,tls,cert_issue}.rs` | certificate files, live store, request channel, tokens | request, order, solve, finalise, persist, swap, scan | a verified name gets its certificate | `Certificates` |
| DNS-01 | `ingress/pingora/dns01/*` | TXT records of a provider | find the zone, create, wait for propagation, remove | no record stays but one whose creation was never acknowledged, whose removal failed or whose order was cut short by the end of the daemon | `Dns01` |
| Domains | `api/domains.rs`, `verification/*`, `repo/sqlite/domains.rs` | domain rows, requests being verified, routed names | claim, verify, store, publish, delete | a verified row carries its own proof, or came with the upgrade | `Domains` |
| Jobs | `scheduler.rs`, `repo/sqlite/jobs.rs`, `api/jobs.rs` | job rows, run rows, the executor's channel | tick, manual run, delete, execute with retries, boot recovery | no fire time twice, ended runs stay ended, runs settle | `Jobs` |
| Hosted OCI registry | `registry/*.rs`, `api/hosted_registry.rs` | blob, manifest and tag rows, upload sessions, content files | upload, commit, mount, put and delete manifest, delete blob, garbage collection | every recorded manifest can be pulled, files have their digest's content, tags resolve | `Registry` |
| Artifacts and layer cache | `artifacts/acquirer.rs`, `oci/cache/*`, `oci/pull_to_dir.rs` | cached layers, reservations, bundles with their ownership sidecar | pull or build, reserve, verify, collect, stage, rename | a pull never loses a layer it holds; what is promoted can be launched | `Artifacts` |
| Unpacking | `oci/unpack.rs` | the tree of a bundle | one tar entry after another, whiteouts, links | the tree is the union of the layers; nothing is written behind a link | `Unpack` |
| Uploads and `denia push` | `api/uploads.rs`, `cli/client/*` | staged contexts, the client's progress | create, upload, deploy, consume, sweep, poll | no upload stays for ever, a build sees the whole context | `Push` |
| Workload runtime | `runtime/{linux,fs_helpers,plan}.rs` | the children map, replica directories, cgroups, processes; owners and modes of files | start, stop, list, the reaper in front of each, the boot sweep | a stop ends the workload; nothing of an earlier life of the daemon runs after boot; no file locks the daemon out | `Runtime`, `Replica` |
| Launch handshake | `syscall/ns.rs` | three pipes, two stages, cgroup and id maps | fork, attach, map, exec, abort | a workload runs only once its cgroup and id maps stand; the answer tells whether it does; every call returns | `Launch`, `Spawn` |
| Sandbox | `syscall/{ns,caps,seccomp}.rs`, `workload_launcher.rs`, `ingress/socket_proxy.rs` | mounts, root, identity, capabilities, filter of a process | the ordered list of steps from fork to exec | the program runs only fully confined | `Sandbox` |
| Console | `api/console.rs`, `runtime/console.rs`, `syscall/{console,pty}.rs` | one-time tickets, permits, shells, process ids | issue, redeem, enter, relay, tear down | a shell is in its replica; a ticket opens once; sessions end | `Console` |
| Users, sessions, tokens | `api/{auth,users,bootstrap}.rs`, `auth/*.rs`, `repo/sqlite/{users,tokens}.rs` | user, session and token rows | log in and out, renew, revoke, delete, bootstrap | what a deleted user held opens nothing | `Access` |
| Projects and members | `api/{projects,members}.rs`, `auth/guards.rs` | projects, roles | add, remove, delete | a project keeps an administrator | `Projects` |
| Rate limiter | `rate_limit.rs` | attempts per address | check, sweep | never more attempts in a window than allowed | `RateLimit` |
| Secrets and registries | `secrets.rs`, `api/{registries,credentials}.rs` | credential files, plaintext temporaries, registry rows | create, update, delete, encrypt, pull with | a pull uses its own registry's credential; plaintext is brief | `Secrets` |
| Schema migrations | `repo/sqlite/pool.rs` | the database's tables, columns and version | one migration after another | an upgrade killed anywhere completes later without loss | `Migrate` |
| Boot, settings, shutdown | `daemon.rs`, `config.rs` | where each setting is said, the tasks and channels of a session | load, check, open, sweep, spawn, launch, bind; drain, join, stop all | a stop that was asked for ends unless something it waits for does not; what the API stored boots again | `Daemon` (what boot restarts is in `Autoscaler`, `Deploy`, `Jobs`, `Certificates`) |
| Installation | `cli/{setup,update,uninstall,rotate_token}.rs`, `cli/common/*` | binaries, unit, accounts, files of an operator | set up, update, roll back, rotate the token, uninstall | stored data stays usable, a completed set-up repairs the host | `Install` |
| Service API | `api/services.rs` | service rows | put, edit limits and policy, stop | -- | actions of `Autoscaler`, `Deploy`, `Push`, `Daemon`, `Secrets` |
| Observability, doctor, web console | `observability/*`, `cli/doctor.rs`, `web/` | | | | -- |

How they interact. A deployment task (`Deploy`) acquires its bundle
(`Artifacts`, which unpacks through `Unpack` what `Registry` or another registry
serves with a credential of `Secrets`, or builds what `Push` uploaded), writes the
promoted row, starts replica 0 through the runtime and registers an endpoint in
the ingress pool (`ServicePool`). For an autoscaled service it only promotes and
calls `reconcile_service`; from there the controller (`Autoscaler`) owns the
replicas and applies `Scaler`'s decisions. A request (`Proxy`) for a service
without an endpoint (`Activation`) calls back into the controller under its lock.
A crash loses the memory of all of them at once; boot (`Daemon`) rebuilds it from
SQLite, after `Migrate` has brought the schema up. Every start and stop of a
workload goes through `Runtime`, whose launches are the handshake of `Spawn` with
the steps of `Sandbox` in the directories of `Replica`; what the one may rely on
in the other is `Launch`. A verified domain (`Domains`) becomes a route and a
certificate request (`Certificates`), which may be answered over DNS (`Dns01`).
Requests of the API pass `RateLimit`, `Access` and the roles of `Projects`.

Where the difficulty lies:

- **tasks that do not exclude each other**: two deployments of one service, a
  stop against a deployment, a tick between the two halves of a stop, a manual
  run against the scheduler, a push against a sweep, a verification against the
  deletion and a new claim of its name, two administrators removing each other;
- **multi-step operations that can stop anywhere**: an activation dropped by its
  timeout in the middle of a launch, a crash between promotion and the status
  write, between a blob's file and its rows, between two statements of a
  migration or two files of a certificate, a privileged command abandoned half
  way;
- **values read before an await and used after it**: the limits a drain
  releases, the list of services a tick resolved, the promoted deployment a stop
  read, the set of digests a sweep marked, the session row a renewal saw, the
  process id a console is about to enter;
- **order within one process**: the sandbox's steps, each of which takes away
  what a later one may need; the sockets of a replica that accept before its
  application does; the senders that keep a channel open at shutdown;
- **progress**: rollouts that give up for the tick on any failure, held
  requests, rows that must leave their in-progress states, runs in a channel,
  certificates whose request was lost, a shutdown that waits for everyone.

## The modules

| Module | Stands for | State and steps |
|---|---|---|
| `Scaler` | the pure functions of `scaler.rs` and the policy's validation | operators only, shared by the next two |
| `ScalerLoop` | the control loop of one always-on service: one tick after another, with the cooldown timer | replica count, timer, clock, and the history the properties speak about |
| `Autoscaler` | the controller. One tokio mutex serialises its operations, so there is one program counter (`op`, `pc`), split at the awaits of launch and drain, the ones on the ingress included; stops fail; API handlers (limits and policies change), the ingress and crashes act in between | the database, the registry, the ledger, the pool entries, the children, what the lock holder has read (`snap`), and the processes nobody answers for (`stray`, `loose`) |
| `Deploy` | a task per deployment and per stop request, split at every await and between locked or database sections; boot | rows, artifacts, the child and endpoint of replica 0, the route snapshot, the live table, each writer's private copy of the table, and the children whose compensating stop failed (`kept`) |
| `History` | what the rows of a service's deployments promise to whoever reads them: the abstract specification of `Deploy` without overlap | per deployment: not there, under way, stale or ended; per service: the current one |
| `Activation` | concurrent requests of one sleeping service against the hook, the gate, the backoff and the controller's lock | a phase per request |
| `ServicePool` | the pool's vector operations | the vector and cursor, and the dials since the last change |
| `Proxy` | requests from the filter to the upstream's answer, beside replicas whose socket-proxy binds before the application serves, and a table swapped under them | the table, each replica's guest and probe, the pool, a record per request |
| `Certificates` | the certificate task with its channel, scan and orders, or a session without it because its driver failed at boot; the challenge store; restarts | verified names, the queue, files and live store, where the task is |
| `Dns01` | orders that follow a delegation chain, create a record, wait for resolvers that lag or lie, and remove it, or are cut short by the end of the daemon | the provider's records, what each resolver sees, a record per order |
| `Domains` | a record per API request, split at its store calls and at the fetch, and dropped anywhere; a database that may hold rows of the upgrade (migration 5) | rows, the set being verified, routed names, which rows were proved and which were backfilled |
| `Jobs` | the scheduler's tick, split at its store calls; the API; the executor with its retries; boot recovery. An attempt ends when its program does, if ever | rows, the tick's locals, the channel, the running attempt |
| `Registry` | a record per request and per sweep, split where files and rows are touched | rows, files (content right or wrong, fresh or old), staged leftovers |
| `Artifacts` | tasks that pull or build beside the cache's collector, from manifests that may state another size for a layer; trees removed and process descriptions written in two steps each; crashes, damaged files, an id range that changes | layers and their sidecars, reservations, bundles with content, description and ownership, what is promoted |
| `Unpack` | every layer of a few entries over a few paths, links included, applied entry by entry; the whiteouts of a layer follow at its end, through whatever links are there by then | the tree, the tree before the layer, the entries applied, pending whiteouts |
| `Push` | clients of `denia push` and the API's upload directory, beside the sweep | service rows, staged contexts, a record per client |
| `Runtime` | concurrent `start`, `stop` and `list_running` calls whose futures may be dropped; workloads and supervisors that end; crashes and the boot sweep | processes, directories, cgroups, the children map, how far each call is |
| `Replica` | the files of one replica or job run through prepare, launch, the workload's own writes and cleanup | owner and mode of each node |
| `Launch` | the promise of `spawn_namespaced_process` to its callers: the abstract specification of `Spawn` | per launch: confined or not, its workload, the answer |
| `Spawn` | the handshake: a thread of the daemon, stage 1 (waits, builds the root, supervises) and stage 2 (execs) per launch; the supervisors of consoles, which are forked beside them and inherit what is open | where each is, what is in the ready, release and error pipes, and which processes hold a write end of each error pipe, inherited ones included |
| `Sandbox` | one launch, step by step, of a service or a job, for any image and any user of it; the kernel grants and denies | the plan, what the image has at the names the launch uses, what the process is to the kernel, mounts, who a failure is due to |
| `Console` | connections against tickets, permits and replicas whose process ids are recycled; writes that block, terminals that others hold open, supervisors that die before their shell | tickets, permits, processes, shells |
| `Access` | requests of clients, split at their store calls; clock | users, sessions and tokens, what each request has read |
| `Projects` | requests against the members of a project | roles, a record per request |
| `RateLimit` | attempts from addresses, through the ingress (which sets the forwarding header itself) or direct, and the sweep | the window per key, the clock |
| `Secrets` | requests of the registry API and pulls, with an encryption command that fails or is cut off | rows, sealed files, plaintext temporaries, a record per request |
| `Migrate` | every statement of every migration, with kills between any two | the schema and rows, the recorded version |
| `Daemon` | boot and graceful shutdown of several sessions of the process, which waits for runs and tasks that may not end | settings by source, the stage, senders, streams, workloads |
| `Install` | the commands of operators as lists of steps, abandoned anywhere | files with owner and mode, accounts, unit, binaries, stored data |
| `MC*` | TLC instances | constants, and the sums described below |
| `*Proofs` | theorems about the modules they extend | -- |

Each action is one handler step between two points where another task can run,
with everything the code does in that step. Identities (services, deployments,
runs, digests) are model values or strings; a digest stands for its content;
bodies, log lines, formatting and kernel objects are left out. Ages and clocks
are kept where a decision depends on them: the cooldown, the cron fire times,
the collector's grace period (fresh or old), the activation backoff (running or
not), the ages of a session, the limiter's window.

**Sums.** `MCTraffic`, `MCWorkload`, `MCAccess`, `MCHost` and `MCImages` each hold
several components that share no state. Their variable `part` says which one
runs; it is chosen at the start and never changes, and the others stay in their
initial state. The reachable states are the disjoint union of the parts', not a
product: components that share no state cannot disturb one another, so a product
would only repeat each part's states. Components that do interact are modelled in
one module (the database, registry, pool and runtime in `Autoscaler`; rows, child,
endpoint and routes in `Deploy`; rows and files in `Registry`), or one assumes
what the other promises (`Launch`).

Choices a reader may want to know about:

- *Failures are choices.* Starting a process, a health check, acquiring an
  artifact, writing routes and creating files may each fail at any time.
- *The runtime's children* are a set of (service, index, deployment). `start`
  replaces whatever runs under the same key, as `linux.rs` does.
- *Saturating arithmetic* is kept: `Word[r]` is the largest value of the integer
  type of resource `r`, additions saturate there and subtractions at zero.
- *Replica ids* are names for UUIDs and are reused once free, so that the state
  space is finite; no step compares ids of replicas that are gone.
- *`Autoscaler!SpecDropped`* adds two kinds of step to `Spec`: the ingress drops
  an activation at its timeout, wherever it is, inside a start and between the
  registry and the ingress too; and a workload exits by itself. They are kept
  apart because what they leave behind is exactly what the ledger property
  excludes. Stops that fail before the runtime has let go of the child
  (`runtime/linux.rs:1001`, ignored at `lifecycle.rs:107` and `:150`) are in
  both.
- *`Deploy!Overlap`* says whether two operations on one service may overlap.
  Nothing in the code prevents it; with `FALSE` the model describes an operator
  who waits for each operation, and stronger properties hold.
- *`Registry!raced`* is a history variable: it becomes true when a step happens
  that the code does not keep apart from another in progress (a chunk or a
  second commit of a session being committed, a deletion or a sweep beside a
  push). Three of the registry's properties are promised only while it is false;
  the section on disagreements says what happens otherwise.
- *`Runtime!excused` and `Runtime!raced`* are history variables too. The first
  holds launches whose call was dropped, whose launch returned late or whose
  supervisor died: nothing tracks them until the next boot, so `NoneLost` leaves
  them out and `CleanBoot` does not. The second holds replicas that were launched
  while another call was removing their directory: the sweep goes by directories
  and can miss those.
- *Where the code leaves something behind*, the model remembers it, and the
  property beside it says what holds of everything else. `Autoscaler`: `loose`,
  processes whose stop failed or whose start was dropped; `torn`, replicas of
  which a dropped activation told the ingress half; `lag`, the one it is being
  told of. `Deploy!kept`: services whose compensating stop failed. `Artifacts`:
  `torn`, images whose bundle two deployments wrote at once; `spoiled`, layers
  damaged on disk; `Disputed`, layers for which some manifest states another
  size, which a pull of that manifest removes; `rewriting`, images whose process
  description a deployment has begun to write over. `Replica!meddled`: the
  workload changed the mode of its own root. `Dns01`: `stray`, values whose
  creation was never acknowledged or whose removal failed; `killed`, values of
  an order that the end of the daemon cut short. `Domains!backfilled`: the rows
  of migration 5. `Secrets!leftover`: plaintext of a request that was cut short.
  `Console`: `stale`, the tracked process was gone before its start time was
  read; `orphan`, the supervisor died before its shell. `Push!late`: uploads
  that passed their time to live.
- *Signals and cgroups.* A tracked process is stage 1, so the SIGTERM of a stop
  reaches the supervisor only; the workload ends by `cgroup.kill`, a little after
  the write. A cgroup with a live process cannot be removed, and `cleanup`
  returns at that error before it wipes the directory.
- *A late launch* is one whose last wait runs into its 5 s limit. `abort` then
  kills stage 1 only, whatever stage 2 is doing; `Launch` promises nothing of it
  and `Runtime` has it as `SpawnLate`.
- *The kernel in `Sandbox` and `Replica`* is modelled by what it grants and
  denies: which capability a system call needs, what an id map, a pivot, a
  `setuid` or a bounding set takes away, who may remove a file from a sticky or
  read-only directory. Read-only binds are part of a plan although only the
  adapter's own interface makes them.
- *External parts* (the ACME authority, DNS resolvers and provider, `sops`,
  systemd, package downloads, SQLite's transactions, the kernel) answer in every
  way the code distinguishes, late and out of order where it waits for them.

## Runs

Twelve runs, each within a few minutes with two workers: `tlc -workers 2 -config
<cfg> <module>`. Ten pass; the last two show disagreements.

| Run | Module and configuration | Instance | What it shows |
|---|---|---|---|
| `traffic` | `MCTraffic`, `Traffic.cfg` | band 0..3, cooldown 3, ticks 1 or 2 apart, clock to 9; four endpoints; three requests and two polls; two hosts (one the control host), three orders, a queue of one, two faults, a boot at which the driver may fail; two pushes | `CountInBand`, `NoFlap` (the fleet does not shrink within the cooldown of growing), `RoundRobin`, `SingleFlight`, `NoLaunchInBackoff`, `EveryRequestAnswered`, `VerifiedGetsCertificate` (through lost requests, failed orders and restarts, in a session that has the task), `UploadsReclaimed` |
| `autoscaler_faults` | `MCAutoscaler`, `AutoscalerFaults.cfg` | one scale-to-zero service, two deployments, activations cut off at any await, stops that fail, exiting workloads, one restart | `ReplicaConsistent` (registry, runtime and ingress agree at every await, but for what a failed stop or a cut left) |
| `autoscaler_rollout` | `MCAutoscaler`, `AutoscalerRollout.cfg` | one service whose policy is edited between two (always on, up to two; to zero, up to one), two deployments, limits that stay, room for a surge, stops that fail, fair scheduling | `LedgerExact` (the ledger is the sum of what live replicas and the launch in flight reserved), `RolloutCompletes`, `TickKeepsServing` (no tick takes the last healthy replica of a service that must serve) |
| `deploy_overlap` | `MCDeploy`, `DeployOverlap.cfg` | one service, two deployments and stops that overlap at will, stops that fail, acquisitions that need not end, one crash, fair tasks | `PromotedIsUsable`, `RowSettles` (unless the artifact never comes or the task never started) |
| `deploy_serial` | `MCDeploy`, `DeploySerial.cfg` | two services (one autoscaled), three deployments, exiting workloads, one crash, one operation per service at a time; the two deployments of one service are symmetric | `KeepsHistory` (the rows implement `History`), `QuiescentIsWired` (when nothing is in progress, child, endpoint and routes belong to the promoted deployment; a child that could not be stopped is not dialled) |
| `images` | `MCImages`, `Images.cfg` | two repositories, a layer, a manifest, an upload session, two clients, a sweep, a crash; two layers of up to three entries over four paths, one below another | `Pullable`, `SweepSpares` (a sweep spares what the manifests of its start need), `TreeIsUnion`, `NothingBehindLinks` (nothing is written through a link, and a whiteout leads through one only if the link came after it in its layer) |
| `runtime` | `MCRuntime`, `Runtime.cfg` | one slot, two deployments, two calls, two launches, one crash | `CleanBoot`, `StopMeansStopped` |
| `workload` | `MCWorkload`, `Workload.cfg` | an image of two layers one of which it lists twice and one that states another size for one of them, two services, two ranges of user ids, two deployments, one fault; every image and plan for one launch; three launches in one directory; two requests, two swaps of the table; two operators, two releases, three commands; databases of every earlier version with two service rows, two kills | `HeldLayersStay`, `PromotedIsLaunchable`, `WorkloadIsConfined`, `NeverLockedOutOfFiles`, `NoColdStart502`, `StoredStaysUsable`, `UpgradeKeepsData` |
| `access` | `MCAccess`, `Access.cfg` | two users, a session, a token, two clients, lifetimes 1 (sliding) and 2 (absolute), clock to 3; two requests on two registries and one mishap; two addresses, two attempts in a window of 2, a sweep every 3, clock to 4; a good, a malformed and the control name, two services, two requests, two rows, backfilled or claimed; a delegation chain of up to three names, two resolvers, two orders, the end of the daemon in any | `DeletedUsersAreOut`, `CredentialIsItsOwn`, `WindowRespected`, `VerifiedWasProved`, `OnlyStrayRecordsStay` |
| `host` | `MCHost`, `Host.cfg` | two jobs, three runs, one retry, one due fire time per job, deletions, a crash between any two store calls; two sessions of the daemon under each of the settings; two connections, two tickets, limits 2 and 1, a process id used twice; two launches and a console's supervisor at the same time | `FireAtMostOnce`, `RunSettlesUnlessDeleted`, `StopEnds`, `ShellInItsReplica`, `ConsolesEnd` (each unless something waited for never ends: a program, a task, a peer that does not read), `Implements` (the handshake implements `Launch`) |
| `registry_index` | `MCRegistry`, `RegistryIndex.cfg` | an index with one image, a sweep | `SweepSpares` is **violated** |
| `members` | `Projects`, `Projects.cfg` | two people, two requests | `NeverLockedOut` is **violated** |

**Further properties.** These hold too, under the named run's configuration with
its properties replaced by the one in question:

| Configuration | Properties |
|---|---|
| `Traffic.cfg` | `SizeFitsLoad` (the chosen size is the exact ceiling of the load, clamped), `PoolOK`, `PushedIsWhole`, `ServiceRowsParse` |
| `AutoscalerRollout.cfg` | `TypeOK`, `DistinctIndices`, `FleetGrowsWithin` (a fleet grows within the maximum of the policy its operation resolved, but for the surge of a single replica) |
| `DeploySerial.cfg` | `TypeOK`, `HealthyIsPromoted`, `BootRoutesPromoted` |
| `DeployOverlap.cfg` | `BootServes` |
| `Images.cfg` | `TagsResolve`, `ContentAddressed` |
| `Runtime.cfg` | `RuntimeTypeOK`, `NoneLost` |
| `Workload.cfg` | `SetupRepairs`, `InstalledIsAnnounced`, `MountsStayInside` (for a directory fresh from `cleanup`), `ServiceLaunchIsOrdered` |
| `Access.cfg` | `SessionsEnd`, `AskedOnlyWhenVisible`, `PlaintextIsBrief`, `OneBootstrap` |
| `Host.cfg` | `JobsTypeOK`, `TerminalIsFinal`, `StoredBootsAgain`, `TicketOpensOnce`, `EveryCallReturns`, `LateOnlyIfEntangled` (a launch is late although its workload runs only if another child of the daemon, a stage of another launch or a console's supervisor, holds its error pipe) |

**Why the bounds are enough.** Interference in this code is pairwise: two tasks,
a task and a crash, a request and a sweep. Two deployments of one service, two
competing services, two clients, three requests (one in the gate, one queued,
one arriving), two launches in two threads and one crash at every possible point
already produce every order of steps the properties speak of; a second crash
finds the same kind of state as the first, because boot starts from the rows
alone (a migration is killed twice, so that a kill during the repair of a kill
happens). Two rows of a domain are a claim and the claim after its deletion;
three commands of two operators are a set-up, another's command over it and a
repair; a process id that is used twice is the replica's and a stranger's. The
numeric edges are placed inside the small ranges on purpose: loads that are
exact multiples of the target, a budget that is used up by two replicas and
refused to a third, a session at the end of either lifetime, attempts at both
ends of a window and across a sweep, a chain exactly as long as the hops allow.
Clock bounds exceed the longest timer by enough for it to run out twice
(scaler); one fire time per job is what two ticks can both read (jobs). Entries
of a layer over four paths include a directory replaced by a link with a child
after it, and every whiteout of each. The runs with `CHECK_DEADLOCK FALSE` are
those where the system may rest: every deployment has been used, the clock is at
its bound, nobody calls.

**Fairness.** In a sum it is the fairness of the part that runs.
- `Autoscaler!FairSpec`: weak fairness of the lock holder's steps (a tokio task
  that can run is polled); strong fairness of `TickAll`, which waits for a FIFO
  mutex that others take in turn; strong fairness of a successful start and
  probe. The last is an assumption about the workload: a launch that is retried
  for ever succeeds at some point. Nothing is assumed of the API.
- `Deploy!FairSpec`: weak fairness of each task outside the acquisition of its
  artifact, of the restart of each service at boot and of the route rebuild.
  Failing is always one of the choices. An acquisition need not end: git,
  `buildctl` and registry pulls have no time limit (`command.rs:72`,
  `acquirer.rs:510-546`, `oci/registry.rs:66-317`).
- `Activation`: weak fairness of a request's own steps and of its timeout.
  Nothing is assumed of launches, of the hook or of the controller: it is the
  timeout that answers the client.
- `Certificates`: weak fairness of the certificate task where it does not wait
  for the authority, if the session has one (`daemon.rs:159-175` goes on without
  when the driver cannot be made), and strong fairness of its renewal tick,
  which competes with the request channel in a `select!` that polls its branches
  in random order. Orders fail at most `MaxFaults` times and the authority
  issues at most `MaxOrders`; the property excuses the second, an authority that
  leaves a request unanswered for good, and a session without the task.
- `Push`: time passes, and the sweep's timer keeps firing. Nothing is assumed of
  the client or of the deployment.
- `Jobs`: weak fairness of the tick and of the executor's receive, each a loop
  of its own task. An attempt need not end: `run_to_completion` waits for its
  program without a limit (`runtime/linux.rs:982`) and the executor takes one
  run at a time (`scheduler.rs:270-274`). `RunSettlesUnlessDeleted` excuses an
  executor that is busy for ever, behind which queued runs stay Pending.
- `Daemon`: weak fairness of `run()` once it is stopping, but for the join of its
  tasks, and of the executor between two runs. The signal may never come, clients
  need not leave, a run and a joined task need not end: `StopEnds` is about a stop
  during which the clients have left, and excuses a run or a task that never ends.
- `Console`: weak fairness of a connection's teardown, whose waits are bounded by
  grace periods, and strong fairness of the bridge's `select!`, each only while no
  write of it is blocked. A program that reads nothing blocks the write to the
  terminal (`api/console.rs:347`), a background process that holds the terminal
  keeps the read from ending; `ConsolesEnd` excuses the first and waits for the
  second. Nothing is assumed of the shell.
- `Spawn`: weak fairness of the daemon's threads. Nothing is assumed of the
  stages: they may hang for ever, and the limits of the daemon's reads are what
  ends the call.
- The others have safety properties only.

**Mutants.** Every property of a passing run has a mutant in `PROJECT.json`: a
plausible slip in the code (a missing release, a dropped guard, a floor in place
of a ceiling, a status not written, a lookup by name instead of by id) as a
definition next to the one it replaces, named after it with a suffix. TLC finds
the property violated with it.

## Proofs

Eight modules hold theorems. A theorem holds for every value of the constants
that satisfies the named assumptions of the modules it is about: any number of
services, deployments, replicas, requests, clients, launches, layers and
crashes, any policies and limits, any clock bounds. The assumptions are the
`ASSUME`s `PolicyAssumption`, `SamplesAssumption`, `ActivationAssumption`,
`ConstantsAssumption` (`Autoscaler`), `DeployAssumption`, `SpawnAssumption`,
`AccessAssumption`, `SecretsAssumption`, `JobsAssumption`, `ConsoleAssumption`,
`SandboxAssumption`, `ReplicaAssumption`, `RuntimeAssumption`,
`InstallAssumption`, `LimitAssumption`, `MigrateAssumption`,
`RegistryAssumption`, `ArtifactsAssumption`, `UnpackAssumption`,
`PathsAssumption`, `PushAssumption` and `DaemonAssumption`. They say that bounds
are numbers, that a policy has passed the code's validation, that stand-ins for
"none" are not members of the sets they stand beside, and that no path lies
above itself; TLC evaluates each of them in a run. Three hypotheses are stated
in the theorems that need them: `~Overlap` (the operator waits for each
operation on a service), `Flat` (no manifest is an index) and `EditsAtRest` (the
limits of a service change only while it has no replica and no operation is at
work on it). None can be dropped: `OneHealthyRow`, the run `registry_index` and
the refuted `LedgerExact` below show what happens without.

In each of them the work is in the inductive invariant. It mostly says what a
task that is between two steps still knows of what it read earlier, and who else
may be writing.

Where an argument needs an induction over numbers (a position in the pool's
vector, the place of an entry in a window), it goes by the least element:
`LeastNat`, which follows from the library's `NatLessThanWellFounded`, takes a
set and not an operator, so the provers can instantiate it.

**`TrafficProofs`** -- the scaling loop, the cold start, the pool and the pushes.
- `CountAlwaysInBand`: inductive as it stands; the lemmas bound `clamp_loop` from
  both sides for a valid policy.
- `NeverFlaps`: `TickInv`, a timer that runs was started no earlier than the last
  sample that asked for more. This is where it matters that a tick that grows the
  fleet cancels the timer; that one at the target does not is why
  `ContinuouslyBelow` fails and `NoFlap` holds all the same.
- `SizeAlwaysFits`: `CeilExact`, `n >= ceil_div(a, b) <=> n * b >= a`, which turns
  the code's divisions into products.
- `AlwaysSingleFlight` for any number of requests (the queue's order matters
  only through its head), and `LaunchesSpaced`, which needs that no backoff
  begins while a request is in the hook.
- `RoundRobinAlways`, from `PoolInv`: `PoolOK`, and `TurnComes` -- an endpoint
  that `n` requests have passed over has at least `n` fewer healthy endpoints
  between the cursor and itself than the pool holds. A dial takes one of those
  away, a change of the pool begins the count anew, so no healthy endpoint waits
  for more requests than there are others.
- `PushedAlwaysWhole` and `ServiceRowsAlwaysParse`, from `PushInvariant`, for
  any number of people who push the same service. `Fresh`: nobody but the
  command and its deployment touches an upload before it expires, and a build
  that has read it has read all of it. A service row stays readable because
  `put_service_q` compares the ids under the lock under which it writes, not in
  an earlier request.

**`AutoscalerProofs`** -- about `SpecDropped` unless said otherwise, that is with
dropped activations and exiting workloads included, and hence about `Spec`.
- `TypeCorrect`, `IndicesDistinct` and `RegistryRuntimeIngressAgree` from
  `IndInv`: the environment's types; the controller's program counter with what
  each wait entails; the memory; and `LinkInv`, which ties the two together: a
  replica being probed or drained is still registered, and an index about to be
  used is above every live one of its service. Without the link neither
  distinctness nor consistency is inductive: the index is computed when the
  launch begins and used two awaits later.
- `RegistryRuntimeIngressAgree` is `ReplicaConsistent` with stops that fail,
  starts and announcements cut off: a process is a registered replica's or one
  of `loose`, and the ingress lags behind by the one replica it is being told of
  (`lag`), or by the ones a cut left half told (`torn`).
- `TicksKeepServing` from `KeepInv`: between its awaits a tick sees Healthy
  replicas only, one that replaced another runs the promoted deployment, and
  only a service that may idle is driven to zero. It is about `Spec`; with
  dropped activations a Pending replica may be counted, and TLC shows a tick
  that takes the last healthy one.
- `FleetAlwaysGrowsWithin` from `GrowInv`: a launch in flight has room under the
  policy its operation resolved, counted over the set of the service's replicas.
  The policy may have been edited since, also to a maximum below the fleet.
- `LedgerAlwaysExact`, `Spec /\ EditsAtRest => []LedgerExact`, from `ExactInv`:
  what a replica holds, what an operation resolved for its service and what the
  configuration says are the same, and a reservation that passed `CanReserve`
  was not cut off by the saturating sum. The sum over the replicas is the number
  of units they hold; `HolderUnits` says what registering or removing one does
  to it. With `KeepInv`, `NothingEverLeaks`: whenever the lock is free every
  replica is Healthy and the ledger holds exactly their budgets. Both are about
  `Spec`: a dropped activation leaves its reservation behind.

**`DeployProofs`** -- `DeployInvariant` (rows in progress belong to tasks that
have started nothing, tasks past building have an artifact, a stop holds a
deployment that was promoted once), from it `PromotedUsable`, with any overlap
and any crashes. `SerialInvariant` and `HealthyPromoted` under `~Overlap`: which
task of a service may be past promotion. `QuiescentWired`, under `~Overlap`,
from `WireInv`: only a task between its start and its promotion, or undoing
itself, keeps a process that is not dialled or an endpoint that is not promoted,
a stop gives up process, endpoint, route entry and promoted row in that order,
and the process of an undo whose stop failed (`kept`) has lost its endpoint.
`HistoryKept`, `~Overlap => (Spec => KeepsHistory)`: each step of a task, a stop
or boot is one step of `History` or none, for any number of deployments and
crashes. It needs `SerialInvariant` (one task of a service at a time, and a stop
beside none) and `OpenInv`: while the daemon serves, a task at work has a row in
progress, and a row in progress without a task is still Pending; while it boots
no row is, and what is at work restarts a promoted deployment. A crash that
takes the place of a promotion may leave its predecessor Inactive and current,
which `History` says too. `BootRoutesAllPromoted` from `BootingInv`: nobody
stops a service or changes a domain before boot has published its table.

**`SpawnProofs`** -- `SpawnImplementsLaunch`: `Spec => Implements`, for any number
of launches under way at once. Success is read off an end of file, so the proof
has to know which processes can hold the error pipe and where they are. The
inductive invariant `Inv` (`SpawnInv`) is the type invariant with `Handshake`
(where stage 1 can be and what the pipes hold, at each point of the daemon's
thread) and `Family` (what the stages have done and the ends they hold: a stage
that has not yet exec'd or reported holds its own write end). Each action then
maps to one step of `Launch` or to a stutter. `LateMeansEntangled`: with
`OwnEnds` (the daemon holds the write end until it has closed the child's ends,
stage 1 until it has forked, stage 2 until it is the workload) a launch whose
workload runs can only be kept waiting by another child of the daemon: a stage of
another launch, or a console's supervisor, which never execs
(`syscall/console.rs:184`).

**`AccessProofs`** -- `Access`, `Secrets`, `Domains`, `Dns01`, `RateLimit`.
- `DeletedUsersStayOut` and `SessionsReallyEnd`: what had ended when a request
  began is still ended (`DeletedInv`, `DeadInv`), although a renewal may write a
  row it read before; `BootstrappedOnce`: the check and the write of the setting
  are one transaction.
- `CredentialsAreTheirOwn`, from `SecretsInvariant`: whatever names a reference
  -- a row, a sealed or plaintext file, a request in progress -- names it for
  one registry (`ClaimsAgree`). It holds because a reference is generated for
  one registry and never given to another, not because writes exclude each
  other. `PlaintextStaysBrief`: a plaintext file has its writer, or is a
  leftover.
- `VerifiedAlwaysProved`: `ProofInHand`, a request past its fetch holds the proof
  of the row it read, by id; the write goes by that id, and ids are not reused. It
  starts from any rows that the upgrade may have backfilled, which stay the only
  ones taken on trust.
- `RecordsAreRemoved`: an order that has presented nothing has nothing to remove,
  and one that has holds a handle for each record that is not stray or of an order
  cut short. The handles are in memory alone.
- `WindowAlwaysRespected`, from `LimitInv`: the bucket of an address is the end
  of the attempts that were let through (`Remembers`), and whatever is not in it
  any more has left the window, whether an attempt or the sweep trimmed it. The
  history the property speaks of is the last `MaxAttempts + 1` attempts of an
  address, which is as many as it can tell apart.

**`HostProofs`** -- `Jobs`, `Console`, `Daemon`.
- `FiresAtMostOnce`, from `JobsInvariant` (`JobsTypeOK`, `CursorInv`, `FireInv`):
  two runs of one fire time need two ticks that read the same `next_fire_at`;
  every run that was handed over is behind its job's cursor, and one that is not
  sits exactly on it. `TerminalStaysFinal`: a run waits in one place only, and is
  pending as long as it does (`LineInv`).
- `ShellsAreInTheirReplica`: at each step of the entry, the descriptors a
  connection holds all come from the process whose start time it read
  (`LaunchInv`). `TicketsOpenOnce`: a ticket that was redeemed is held by one
  connection, and seats free and taken add up.
- `StoredAlwaysBootsAgain`, from `StoredInv`: a service with TLS was stored
  under settings that name an address, and those settings outlive every session
  and kill.

**`WorkloadProofs`** -- `Sandbox`, `Proxy`, `Replica`, `Runtime`, `Install`, `Migrate`.
- `WorkloadsAreConfined` and `MountsStayInsideRoot`: at each step of a launch,
  what the steps before it have done to the process and to the directory
  (`SandboxInv`, `MountsInv`).
- `ServiceLaunchesAreOrdered`, from `OrderInv` and `SandboxInv`: at each step of
  a service's launch, what the process still has that a later step needs
  (`Supplied`: the capabilities, the bounding set, no filter, an unlocked mount,
  the old root in sight). For jobs this is false, which is the disagreement
  `HelpersDoTheirPart`.
- `NoColdStarts502`: a replica in the pool has served once (`ProxyInv`).
- `FilesNeverLockOut`: from its creation until it is given away a layer is the
  daemon's, and a refusal is the doing of the workload (`ReplicaInv`).
- `StoppedIsStopped` and `BootsClean`, from `RuntimeInvariant`: what each call
  knows at each of its awaits, and `Undisturbed`: unless its launch raced a
  removal, a workload that is up has its cgroup and its directory, nobody is
  about to remove them, and a boot under way has it on its list. The last
  conjunct is what the sweep, which goes by directories, needs.
- `NoneEverLost`, from `HeldInv`: a workload that is up and not excused lives in
  its cgroup and is about to be killed by a call that has it in hand, or its
  supervisor is up and it is in the table or in the hand of a call that starts
  or terminates it.
- `StoredAlwaysUsable`, `SetupAlwaysRepairs` and `InstalledWasAnnounced`, from
  `InstallInvariant`: keys and accounts are given up only behind the data that
  needs them (`InstallInv`), a set-up keeps what its earlier steps put in place
  (`SetupInv`), and an update carries the binary of the release that
  the API's answer names from the verification to the rename (`UpdateInv`).
- `UpgradeAlwaysKeepsData`, from `MigrateInv`: at every step of a boot, however
  often it was killed, the file is at one version (`Records`), holds the tables
  and columns of that version and what its steps make of the rows that were
  found (`AtVersion`); the open transaction is one version ahead.

**`ImageProofs`** -- `Registry`, `Artifacts`, `Unpack`.
- `SweepsSpareImages`, under `Flat`: a mark phase has in its set whatever it took
  off the queue, with all that names, and dooms nothing of the set (`Walked`).
  With an index the second half is false, which is the finding.
- `ImagesStayPullable`, under `Flat`, from `StoreInv`: unless the store was raced,
  a sweep runs alone and knows every recorded manifest, rows have their files
  (but for the one that a sweep is just removing), and a request about to record
  a manifest has what it refers to. `TagsAlwaysResolve` and
  `ContentStaysAddressed` (`Owned`: an upload session is one request's, and one
  about to be renamed has the digest that was computed) need no `Flat`.
- `HeldLayersAlwaysStay`, from `CacheInv`: the counter of a layer is the number
  of reservations that tasks hold of it, an image that lists a layer twice
  counting twice, and the collector has doomed only a layer whose counter is
  zero. A counter holds against the collector alone: layers for which some
  manifest states another size are left out (`Disputed`), whatever sizes the
  manifests state.
- `PromotedAlwaysLaunchable`, from `BundleInv`: for an image that no two
  deployments write at once, a sidecar that is there names the range of the tree
  that is there, at every step of the replacement and after a crash at any of
  them, also one that leaves a tree half removed. A process description is there
  unless a later deployment has begun to write over it (`rewriting`).
- `NothingEverBehindLinks`: a tree stays neat under each entry and each whiteout
  (`Neat`); removing a path, or what a link leads to, removes what is below it,
  which is where `PathsAssumption` is used. A whiteout of a layer is behind a link
  only if an entry after it made the link.
- `TreeIsAlwaysUnion`, from `LayerInv`: while a tidy layer is applied, the tree is
  what its entries so far mean over the tree before it (`LaidSoFar`), but for the
  whiteouts that still have something to remove.

**Only model-checked.**
- Liveness under fairness, outside the proof system's reach: `RolloutCompletes`,
  `RowSettles`, `BootServes`, `EveryRequestAnswered`, `VerifiedGetsCertificate`,
  `UploadsReclaimed`, `RunSettlesUnlessDeleted`, `StopEnds`, `ConsolesEnd`,
  `EveryCallReturns`.
- What a recursive definition computes for every input, which needs an induction
  the provers cannot instantiate: `AskedOnlyWhenVisible` (the end of a chain of
  delegations).

## Where the code and its documentation disagree

Two of these are runs of their own. Each of the others is a property stated in
its module that TLC refutes when it stands in place of the properties of the
configuration in the first column; they are kept beside the runs.

| In | Property | What happens | What the code says |
|---|---|---|---|
| run `registry_index` | `Registry!SweepSpares` | the sweep inserts the sub-manifests of an index into the set that also means "already walked" before it queues them; if the index is taken first, the layers of its images are never marked and are deleted once older than the grace period | `registry/gc.rs:88` "per-arch `manifests[]` sub-manifest digests, recursively" |
| run `members` | `Projects!NeverLockedOut` | the guard looks in one store call and removes in another, and setting the role of a present member has no guard: two removals at once, or a demotion, leave a project without an administrator | `api/members.rs:72` "so the project can never end up with no one able to manage its membership" |
| `Traffic.cfg` | `ScalerLoop!ContinuouslyBelow` | only a tick that grows the fleet cancels the cooldown; one whose sample is at the target leaves it running | `autoscale/scaler.rs:45` "continuously below target for `cooldown_s`" |
| `AutoscalerRollout.cfg` with `Alloc <- MCTight` | `Autoscaler!RolloutCompletes` | a single-replica service rolls launch-first; with no room for a second replica the rollout never happens | `autoscale/controller.rs:466` "the rollout completes one replica at a time over several ticks" |
| `AutoscalerRollout.cfg` | `Autoscaler!StoppedIsEmpty` | a tick between `drain_all` and the clearing of the promoted row relaunches the service, and nothing drains it afterwards | `deploy/coordinator.rs:666` "the durable "should not be running" signal" |
| `AutoscalerFaults.cfg` | `Autoscaler!NothingLeaks` | an activation dropped at its timeout leaves its reservation, its process and a Pending replica behind | `autoscale/lifecycle.rs:38` "rolled back so nothing leaks" |
| `AutoscalerRollout.cfg` with `Limits <- MCEdited` | `Autoscaler!LedgerExact` | a drain releases the limits of the current configuration, not those the launch reserved | `autoscale/lifecycle.rs:122` "resources never leak" |
| `DeploySerial.cfg` | `Deploy!OldKeepsRunning` | the new workload starts under the key of the old one, which the runtime replaces before the health check; when the check fails the new one is stopped too and the service is down while its row still promotes the old deployment | `README.md:125` "the previous deployment is retained for rollback" |
| `DeployOverlap.cfg` | `Deploy!OneHealthyRow` | the late Healthy write of one deployment overwrites the Inactive of another's promotion | `repo/sqlite/deployments.rs:163` "exactly one live (`Healthy`) row per service" |
| `DeploySerial.cfg` | `Deploy!FailedIsNotRunning` | a crash between promotion and the last status write: boot marks the row Failed, then runs it because it is promoted | `docs/adr/024-async-deployments.md:60` "the table honest after a crash" |
| `DeploySerial.cfg` | `Deploy!RoutesMatchSnapshot` | the table is built under the lock and swapped in after it; an older table can stay live | `deploy/coordinator.rs:765` "Single control-plane writer" |
| `Images.cfg` | `Unpack!WhiteoutsFollowNoLink` | a whiteout is checked when it is read and carried out at the end of its layer; a link that a later entry puts at its parent is followed then | test at `oci/unpack.rs:497-512` "whiteout parents must not follow symlink prefixes" |
| `Traffic.cfg` | `Activation!HookMeansHealthy` | the hook returns Ok as soon as a replica is registered, in whatever state | `ingress/pingora/state.rs:267` "only returns `Ok` once at least one replica is `Healthy`" |
| `Traffic.cfg` | `Certificates!ServedPairsMatch` | the chain and the key are two files, each renamed by itself; a crash or a failed write between them pairs a new chain with an old key, which the next boot loads | `ingress/pingora/acme.rs:376` "Persist an issued certificate atomically" |
| `Host.cfg` | `Jobs!AtMostOneActive` | the tick and the API check for an active run and create one in separate store calls | `scheduler.rs:267` "Forbid concurrency is enforced upstream" |
| `Host.cfg` | `Jobs!RunSettles` | a job deleted during a tick ends the tick with an error; the runs it had created for other jobs stay Pending until a restart | `scheduler.rs:84` "forwards them to the executor channel" |
| `Host.cfg` | `Spawn!ExecEndsWait` | stage 1 of another launch, or a console's supervisor, forked while this one's error pipe was open, never execs and keeps the write end: the wait runs into its limit, the call fails and kills stage 1 while the workload runs on | `syscall/ns.rs:1731` "it closes automatically on a successful execve" |
| `Host.cfg` | `Daemon!SendersGone` | a console's connection was upgraded and outlives the server; its task holds the state and with it a sender, so the executor waits for the console too | `daemon.rs:388-390` "the router already dropped its sender clone when `axum::serve` returned. With every sender gone" |
| `Runtime.cfg` without `SYMMETRY` | `Runtime!CleanRelaunch` | `cleanup` right after `cgroup.kill` may find the cgroup still busy and return before the wipe; `prepare` empties the overlay's work directory only | `runtime/linux.rs:458` "a relaunch starts from a clean writable layer" |
| `Workload.cfg` | `Sandbox!HelpersDoTheirPart` | a job's launch empties the bounding set before the exec of its helper, which so has no capabilities: it cannot start a program as another user than root, and its own `drop_bounding_caps` fails after any program has ended | `docs/adr/038*:51-53` "keep running as userns root for their Denia setup/hardening work, then spawn the actual workload child with the manifest uid/gid" |
| `Workload.cfg` | `Install!RolledBackIsBack` | the copy back is over a file that systemd's restarts of the failing daemon may just be executing; it is refused then (or cut short), the error is not looked at, and the command says that it rolled back | `docs/adr/029*:64-66` "it restores `denia.bak` and restarts again" |
| `Access.cfg` | `Domains!OnlyVerifiedRouted` | a delete that read its row before the verification, and a late failure stored over a success, leave the name routed | `docs/adr/013*:26` "Only `verified` domains appear in the generated dynamic config" |
| `Access.cfg` | `Domains!RefusedMeansVerifying` | a request dropped at the fetch leaves its name among those being verified; it is refused until a restart | `api/domains.rs:187` "domain verification already in progress" |

In `Runtime`, removing `raced` from `CleanBoot` shows a reaper that wipes the
directory of a replica being started: the workload runs without a directory and
no later sweep sees it. In `Registry`, removing `~raced` from `Pullable` or
`ContentAddressed` shows more of the same kind: a second commit of one upload
session finds no data and files an empty blob under the verified digest; a sweep
that listed a file before a push recorded it deletes it; a crash between a blob's
file and its rows leaves rows that `put_manifest` takes for present. A staged
`.tmp` file left by a crash is not a digest, and every later sweep fails on it.

Met while reading, for which no property is stated:

- *Runtime.* A workload never receives SIGTERM, though `runtime/fs_helpers.rs:216`
  speaks of the "grace period a workload gets to exit after SIGTERM". The reaper's
  first cleanup error drops the exited replicas behind it, which are out of the
  map by then. The boot sweep does not look at the directories of jobs, and
  `run_to_completion` leaves its directory on errors before its cleanup. The
  cleanup of a job and `sweep_one_replica` do not take ownership back, so a file
  in the workload's sticky `/tmp` makes `remove_dir_all` fail. A workload that
  changes the mode of its own root, and is left over, makes the next `prepare`
  fail. The comments on `CAP_DAC_OVERRIDE` (`runtime/linux.rs:344`, `:643`) are
  older than `denia.service.in`.
- *Sandbox.* Mounting `/proc` before the pivot ends in EPERM in a way that makes
  the "one last attempt" at `ns.rs:1623` unreachable; the socket-proxy drops its
  bounding set after it has started the program, not before.
- *Artifacts.* Concurrent acquisitions of one digest share `layers.json.tmp`,
  rename onto a directory that is not empty and have a window between the rename
  and the sidecar; a change of the id range razes a bundle that is promoted; an
  interrupted replacement followed by a change back leaves ownership that is
  accepted and wrong. A redeployment of a digest writes `process.json` in place
  (`acquirer.rs:325-328`, `:357-360`), and a manifest that states another size
  for a layer has a good blob removed from under its holders
  (`oci/cache/store.rs:206-216`); the properties leave both out by name.
  Temporary directories of crashes are never swept. A collection after a
  mismatch can orphan sidecars. Whiteouts also delete what the same layer added
  again. A Git build passes the Dockerfile's own path as the `dockerfile`
  directory.
- *Uploads.* The sweep can take a context that is being built; two deployments of
  one upload interfere; `push` waits for Healthy or Failed only.
- *Projects and services.* Writing a project under a name that exists breaks its
  id; a service may be put into a project that does not exist or is being
  deleted; deleting a project is not one transaction; `create` is "not an upsert"
  only while nobody else creates; a removed administrator's request in progress
  may add itself again. A service is stored before one of its hostnames may be
  refused.
- *Registry credentials.* An update overwrites the credential before the row is
  validated and written; one to anonymous deletes it before the row; a failed
  creation leaves a file; two updates share a plaintext file; a registry may be
  deleted between the check and the write of a service that names it.
- *Sessions.* A session renewed in between is deleted by a request that saw it
  expired; rows without a creation time have no absolute limit; `denia auth`
  leaves its session logged in.
- *Console.* The deployment named by a ticket is not looked at; the start time is
  read after the lock on the children is released (`runtime/linux.rs:1115-1119`);
  the reaper's SIGTERM can go to an id that was given to another process; a shell
  whose id is not reported makes the wait block; a supervisor that dies before its
  shell leaves the shell without the SIGKILL (`runtime/linux.rs:1209-1210`).
- *DNS-01.* A record whose creation was not acknowledged stays, and so does one
  whose order the end of the daemon cuts short; a chain of exactly eight names is
  refused.
- *Domains.* `verification/http.rs:93-110` takes the token from whoever returns
  it. The domains of existing service configurations are verified by migration 5
  (`repo/sqlite/pool.rs:331-345`) without proof, as `docs/adr/013*:19-21` says.
- *Jobs.* A program that never exits leaves its run Running and every queued run
  Pending; nothing limits it.
- *Shutdown.* It waits for event streams that never end, for queued runs and for
  consoles, beyond systemd's 30 s; a detached deployment
  (`api/deployments.rs:159`) may launch after `list_running` (`daemon.rs:422`).
  A failed bind exits with workloads launched; a failed sweep of orphans is only
  logged.
- *Settings and installation.* A short token in a stronger source hides a good
  one; `admin_token` in `config.toml` outranks the file that `rotate-token`
  writes. `Type=simple` makes the wait for a crashing daemon succeed, and a second
  forced update overwrites the last good backup. A second operator's `setup` and
  `rotate-token` use that operator's key and token. `uninstall` ignores a failure
  to stop the service. `denia update --tag` does not compare the tag it asked for
  with the `tag_name` of the answer.
- *Hosted registry.* The size limit and the range of a chunk are checked before
  the append they are about.

## Plan

Done, in this order: the scaling functions and loop, the autoscaler with its
proofs, the deployment pipeline with its proofs, activation with its proofs, the
pools, the jobs, the registry, the launch handshake with its abstract
specification and the proof that it implements it, the runtime; then artifacts
and unpacking, uploads, access, members, secrets, the limiter, domains, DNS-01,
certificates, the proxy, consoles, boot and shutdown, the sandbox, the files of a
replica, installation and migrations; then the proofs of the safety properties of
all of these but the ones listed as only model-checked, and the refinement of
`History`. Every invariant of a run is a theorem.

Next, most valuable first:

1. A second abstract specification with refinement: a map of children, which
   `Deploy` and `Autoscaler` assume, implemented by `Runtime` as long as no launch
   is excused (`NoneEverLost` and `StoppedIsStopped` are its two halves).
2. `run_to_completion` of jobs as calls of `Runtime` beside those of services.
3. The L4 forwarder's listeners, as they follow the services.

## Not modelled

Reads without a decision (logs, metrics, the doctor, the web console, which is a
client of the API); the sampling of CPU usage in `autoscale/usage.rs`, whose
results `Autoscaler` and `ScalerLoop` choose freely; the L4 forwarder and the
copying of headers and bytes in the proxies; HTTP, digests and media types of the
OCI client; encryption and password hashing, which pass or fail; argument
parsing; the kernel beyond what it grants and denies. A launch without a pid
namespace of its own, which no caller asks for, and a crash of the daemon in the
middle of a handshake are left out of `Spawn`. `PROJECT.json` gives the reason for
each component.

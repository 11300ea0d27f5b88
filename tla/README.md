# A formal model of gest-postgres

gest-postgres is a self-hosted console that creates, tunes, backs up and watches
PostgreSQL servers running as Docker containers, and manages the other
containers of the same host. One Go process (`backend/cmd/api`) serves the HTTP
API; a Next.js frontend drives it; two small host daemons (`firewall-agent`,
`update-agent`) do what a container may not. There are no automated tests in the
repository, so the behaviours below have never been exercised systematically:
this directory states what the backend promises, as TLA+ modules, checks it with
TLC and proves part of it with TLAPS.

The implementation has no transactions across the stores it uses and hardly any
locks. What makes it hard is always the same: a handler reads a row, talks to
Docker, to PostgreSQL or to the disk for a while, and writes the row again, while
other handlers and the sweeps do the same; any call may fail in the middle, and
the process may stop at any point without anything resuming the work.

## 1. Inventory

State lives in four places: the metadata database (tables created by
`internal/db/migrations`), the Docker engine, the managed PostgreSQL servers, and
files (backup volume, build directories, Traefik routes, update state). Backend
memory holds only goroutines, ring buffers and the throttles of logins, service
keys and webhooks.

| Component (source) | State | Operations | Hard behaviour | What makes it correct | Module |
|---|---|---|---|---|---|
| Server lifecycle (`server/service.go`, `repo.go`, `docker/containers.go`) | row `servers`, container, volume, `provision` goroutine | create, provision, start, stop, restart, port change, delete, poll | handlers interleave with provision and with each other; recreate is remove-then-create; crash | rows name real containers, volumes survive, "running" means ready, statuses converge | `ServerLifecycle` |
| Ports and pooling (`server/pooling.go`, `allocatePort`) | `host_port`, `pooler_host_port`, pgbouncer container | change port, enable, disable | check-then-insert over two columns with two unique indexes | no two published ports equal; an enabled pooler has its container | `Pooling` |
| Credentials (`server/credentials.go`) | role password, encrypted password, pgbouncer's copy | rotate, recreate pooler | two stores changed one after the other, compensation with the same context | the stored password opens the server | `Pooling` |
| Backups (`server/backup*.go`) | rows `backups`, `backup_policies`; files | manual backup, run policy, sweep, retention, delete | background goroutines, file and row changed separately, retention against deletes | a completed row has its dump; retention keeps N; running ends | `Backups`, `BackupSchedule` |
| Google Drive account (`server/gdrive_config.go`, `backup_gdrive_client.go`) | `gdrive_connection` | client, consent, callback, disconnect, folder | callbacks and backups in flight while the account changes | one consent connects once; the folder is the account's | `DriveAccount` |
| Metric history (`server/metric_*.go`, `history.go`, `platform_history.go`) | rings, `metric_history` (raw and hourly) | collect, forget, roll up, query | re-aggregation of an hour; a stale list appended after a forget | no sample lost or counted twice; the rings are bounded | `MetricHistory` |
| Alerts (`server/alerts.go`) | rule rows, cooldown, deadlock counter | sweep, notify, edit | cooldown and counter written after the fact, errors ignored | one notice per cooldown; deltas count once | `Alerts` |
| Data retention (`server/retention.go`) | policies, live and archive tables | run, sweep | archive and delete are two statements of a READ COMMITTED transaction | nothing is deleted unarchived | `Retention` |
| pg_hba.conf (`server/hba.go`) | a file of the server | add, delete, reload | read-modify-write of a file; a file PostgreSQL cannot read | no rule is lost; what is loaded is the file | `PgHba` |
| Databases with a role (`server/test_databases.go`, `databases.go`) | roles, databases | create, drop | compensation of a half-made database | all or nothing | `IsolatedDatabases` |
| Extensions and parameters (`server/extensions.go`, `query_stats.go`, `expanded_config.go`) | `postgresql.auto.conf`, extensions | enable, disable, set | a list written whole from what SHOW said; restarts cut other requests | an enabled extension works; what is pending is announced | `ServerSettings` |
| Discovery (`server/discovery.go`) | rows of servers the platform did not create | list, register, delete | a page that grew old; the Docker page works on the same container | one server per container; a deletion is whole | `Adoption` |
| Users, sessions, step-up (`auth/*.go`, `api/middleware.go`) | `users`, `admin_sessions` | login, validate, step up, logout, revoke, delete user, sweep | sliding and absolute expiry, check-then-act on the last admin | a revoked or expired session never validates again | `Sessions` |
| Integration key (`auth/integration_key.go`) | `integration_keys` | rotate, revoke, validate, seed at boot | transaction against boot seed, restart with an old `.env` | at most one active key; a revoked key stays revoked | `IntegrationKeys` |
| Cloud tunnel and boot (`infra/cloudflare_tunnel.go`, `cmd/api/main.go`) | settings row, `cloudflared` container | enable, disable, status, seed at boot | crash between container and row | boot is idempotent | `CloudTunnel`, `Platform` |
| Migrations (`db/db.go`) | `schema_migrations` | migrate at boot | a boot that dies half-way | each migration once, in order | `Platform` |
| Update agent (`update-agent/main.go`, `api/update_check.go`) | state file, systemd unit | apply, status | check-then-write, agent restart | at most one update runs; "running" ends | `SelfUpdate` |
| Containers of the host (`docker/recreate.go`, `infra/container_detail.go`, `containers.go`) | containers, networks | create, remove, start, stop, connect, recreate | partial failure after removal, overlapping recreations | an edit costs no volume, network or name | `HostContainers` |
| Traefik (`infra/traefik.go`) | settings row, proxy container, route rows and files, labels | enable, disable, add, remove route | several stores; domains that share a file | the list is what is served | `ProxyRoutes` |
| Git deployments (`infra/git_deployments.go`, `git_build.go`) | rows, build directory, image, container | create, redeploy, webhook, delete | concurrent redeploys share directory, tag and name | "success" means the commit runs | `GitDeployments` |
| Cron jobs (`infra/cron_jobs.go`) | `container_cron_jobs`, `last_run_at` | sweep, run now, record | job outlives the minute; overlapping runs; a minute without a tick | a daily job runs every day, once | `CronJobs` |
| Volume backups and files (`infra/volume_backups.go`, `container_files.go`) | rows, archives, helper containers | create, restore, delete, browse, change | helpers that outlive requests, partial archives, applications that write during the copy | a listed archive is what the volume held; no helper stays | `VolumeBackups` |
| Stacks (`infra/compose.go`) | rows, files, projects | deploy, remove | stack up before its row is written | the row is the stack | `ComposeStacks` |
| SQL explorers, builds, notification channels, presets, Docker client, firewall agent, container history, HTTP support, web interface, installation | | | | see section 6 | none |

How they interact: the handlers call the services; every service shares the
metadata pool and the Docker client; Create starts provision as a goroutine,
CreateBackup starts a dump; the sweeps started by `main.go` (metrics 15 s,
alerts, backups and cron 1 min, rollup 30 min, retention and sessions 1 h) call
the same service methods as the handlers do, without coordination. Routes,
redeploys and cron jobs name containers (the first two by name, the third by id)
that the Docker page recreates and removes. Deleting a server cascades to its
backups, policies, metrics and rules. The frontend polls every list every 5 to
15 seconds, and it is this polling that reconciles statuses
(`refreshLiveStatus`).

## 2. Plan

The most important behaviour came first. All of the plan is done, but for what
section 5 says is model-checked only.

| # | Module | Models | Proved |
|---|---|---|---|
| 1 | `ServerLifecycle` | handlers, provision, Docker, crash | types, the hand-over invariant, all four safety properties |
| 2 | `Backups` | dumps, policies, retention, deletes | types, retention; `DumpsMatchRows` and `ManualBackupKept` while backups start in different seconds |
| 3 | `BackupSchedule` | `nextScheduledRun` and the sweep | `ScheduleSound` (types, `NextRunIsNext`) and `OneRunPerTime` for every policy |
| 4 | `Pooling` | ports, pooler, password rotation | types, `PasswordsAgree`, `PoolerFollowsRow` |
| 5 | `MetricHistory` | rings, raw rows, rollup | all of `SamplesKept` |
| 6 | `Sessions`, `Credential` | login, validation, step-up, accounts; the abstract credential | types, `OverStaysOut`, `ContinuousUse`, `LastAdminStays`, `ElevationIsRecent`, the refinement |
| 7 | `IntegrationKeys`, `CloudTunnel`, `SelfUpdate`, composed in `Platform` | integration key, tunnel, update, the boot that seeds them | one active key, atomic rotation, the refinement, in the composition; `PlatformSound`, `BootFollowsEnv` |
| 8 | `HostContainers`, `ProxyRoutes`, `GitDeployments`, composed in `HostPages`; `CronJobs`, `VolumeBackups`, `ComposeStacks` | the Docker host | `ContainersKept`, `CronKeepsDays`, `VolumesBackedUp`, `RowIsStack` |
| 9 | `Retention`, `Alerts`, `PgHba`, `IsolatedDatabases` | the daily work on a server | `AlertsHeld`, `ServersAgree` |
| 10 | `ServerSettings`, `Adoption`, `DriveAccount` | what administrators set up | `SettingsHold`, `DriveFollowsConsent`, the part of `ServersAgree` about `Adoption` |
| 11 | `Operations` | composes 8 to 10 in one process | all of the above in the one process; that it refines `HostPages` |

The abstract specification is `Credential`; `Sessions` and `IntegrationKeys`
both implement it. `HostPages` is what `Operations` implements for the containers. A
*managed server* (absent, present with data, gone) as an
abstraction of `ServerLifecycle` would hold only while nothing is cut short,
which the invariants say already, and was dropped.

## 3. The modules

Every module follows one convention. A step is one statement or one call that
leaves the process, because that is where goroutines interleave; what a handler
read is kept in a request record and used later exactly as the code uses it. A
call does its work if it can, fails if it cannot, and may fail for a reason of
its own (which costs `Budget`). A crash forgets goroutines, rings and open
transactions and keeps rows, files and containers. History variables (their
comment says "history") are bookkeeping for the properties and never enable or
prevent a step of the code; `version` of `Pooling` also tells an id that was never
used. Where a property makes an exception ("unless", "but for"), a history
variable records exactly the event, and the exception is what the code really
loses; they are listed in section 4.

A run checks grouped properties: a definition with a telling name that is the
conjunction of the parts its module states. The parts are named below.

### ServerLifecycle (`service.go`, `repo.go`, `docker/containers.go`)

`status`, `cid`, `port` are the row; `ctr`, `volume`, `conf` the container with
the server's name, its volume and the state of the tuning in it; `prov` the
goroutine of `provision`; `req` the handlers. A container id is the generation of
the container: a handler that read an old id finds nothing under it, as with
Docker, while the connections of `provision` go by name and find whichever
generation bears it. `Create`, the twelve steps of `provision`, start, stop,
restart, port change, delete and poll are there with every error path, also those
whose error the code drops (`SetContainerID` of `provision`, `markError`).
`upset[s]` records that some operation on `s` failed or was cut short: the code
undoes nothing, so what is promised of the stores is promised up to that point.

- `lifecycle` (two handlers, port 3 busy on the host, budget 3): `ContainerBacked`,
  `DataKept`, `DeleteLeavesNoContainer`, `PublishedAfterTuning`, the inductive
  invariant `HandedOver`, and `ServersSettle` (`StatusConverges`, `CreatingEnds`).
  Two handlers are enough for every race of two of the operations with each other
  and with `provision`; a third could only repeat one of them.
- `delete_while_provisioning`: see the findings.

### Backups (`backup*.go`)

`row`, `policy` are tables; `disk` and `drive` the storages (a local file is named
after a second, a Drive file has an id of its own); `job` is `performBackup` and
what `runPolicyOnce` does after it; `deleting` is `DeleteBackup`, called by a
request or by the retention of a job; `sweep` the policies the sweep still has to
run. `cut` marks backups whose operation was cut short.

- `backups` (three backups, one policy, retention of one, both storages, outages
  of the server, budget 3): `DumpsMatchRows` (`CompletedHasDump`, `NoOrphanDump`,
  `RetentionSparesNewest`), `ManualBackupKept`, and the liveness properties
  `DumpEnds` and `DuePolicyRuns`. Three backups are the fewest for a retention
  that deletes one, keeps one and meets a delete of the third. `Spaced` excludes
  two backups in one second, see section 4. `ManualBackupKept` is about what a
  retention picks as well as about what it then deletes: whatever it does, the row and
  the dump of a completed backup made by hand stay as they are.

A run of a policy whose server is stopped ends before the dump (`backup.go:117-120`):
its row of `backups` stays in `running`, while `runPolicyOnce` records the result with
the policy in any case.

### BackupSchedule (`backup_policy.go`)

`nextScheduledRun` as an operator over days and instants, and one policy followed
among the others of a sweep. `round` is `sweepBackupPoliciesOnce`: the list of due
policies is read once (`ListDuePolicies`, or the SELECT fails), and this policy runs
when those before it have (`StartDueRun`); between the two, runs by hand, the switch
and hours may come. Runs last as long as they like, recording one may fail, the
backend restarts. `swept` is when the last recorded run of the sweep ended.
`backup_schedule` checks `ScheduleSound`, `OneRunPerTime` and `MissedRunIsMadeUp` over
nine days of three instants, with a policy created on the first or the second: a
weekly one comes to its day, to the instants before and after its time, and to the
same day a week later. `OneRunPerTime` says
that a run of the sweep has a scheduled time since the last run of the sweep, always,
and since the last run by hand, unless that was recorded after the list was read
(`overtaken`): the code then runs the policy again.

### Pooling (`credentials.go`, `pooling.go`, `allocatePort`)

Passwords are numbers drawn in order, and the four stores are `row`, `pg`,
`pooler` and the ports bound. `overtaken` marks servers a handler wrote to although
its copy of the row, or the port it had allocated, was out of date; `cut` those
whose handler was interrupted with nothing left to undo its work. `pooling` (two
servers, two requests, four ports, budget 6) checks that outside those two cases
`PasswordsAgree` (`PasswordAgrees`, `PoolerPassword`) and `PoolerFollowsRow`
(`PoolerBacked`, `NoOrphanPooler`, `PortsDistinct`) hold, every compensation
included. Four ports let the range run out.

### MetricHistory (`history.go`, `platform_history.go`, `metric_*.go`)

`ring` are the rings in memory; `raw` and `hourly` the two resolutions of
`metric_history`. An hourly row is modelled by the set of samples its average,
minimum and maximum were computed from, which is what tells a row counted twice
from a row counted once. `job` is the transaction of `rollupMetrics`, one step
per statement, each with its own snapshot and invisible to the others until the
commit. `metric_history` (an hour of two ticks, a raw window of one hour, budget
3, five ticks) checks `SamplesKept` (`CountedOnce`, `LastDayIsRaw`,
`SampledHoursStay`, `GoneStaysGone`, `RingHoldsTheNewest`) and the liveness
property `OldRowsGo`; `peak_of_the_hour` is a finding. The assumption
`MaxLag < RawWindow` is that a collector pass (one timestamp for all servers)
takes less than a day: a slower one would store samples the rollup has already
passed.

### Sessions (`auth/*.go`, `api/middleware.go`) and Credential

Every request passes `withAuth`: the SELECT of the session (`Validate`), its
extension (`Extend`), then the handler; between them other requests end,
elevate, sweep and delete. `used`, `confirmed` and `ended` record what a session
deserves, independently of what its row says. `sessions` (two accounts, two
sessions, two requests, idle time 2, ceiling 3, step-up 1, clock to 4) checks
`OverStaysOut`, `ContinuousUse`, `ElevationIsRecent`, `LastAdminStays` and
`SessionsAreCredentials`; the three durations differ, so every order of idle
expiry, ceiling, elevation and sweep happens. `last_admin` is a finding.

`Credential` is the abstract specification of anything shown to be let in: fresh,
active, lapsed or over, and somebody inside only while it is active.
`SessionsAreCredentials` maps a session to it by what it deserves (not by its
row), so a session that idled and is extended by a request that was let in before
is allowed to come back, and one that was ended is not; `KeysAreCredentials` maps
a key, which never lapses.
### Platform: the boot, the integration key, the tunnel, the update

`IntegrationKeys`, `CloudTunnel` and `SelfUpdate` are components with the rest of
the system as a parameter (`rest`), which none of their steps changes. `Platform`
instantiates them with one process: `run()` of `main.go` migrates, seeds the
tunnel from `.env`, seeds the key and listens (the handlers act only when it
does); `Crash`, `setup.sh` (a new `.env` and a restart), a reboot of the host and
the deploy of an update end everything in progress at any step.

- Keys: rotation and seed are a transaction of several statements at READ
  COMMITTED, with the row locks, the re-evaluation after a wait and the two unique
  indexes; `OneActiveKey`, `SwapIsAtomic`, `KeysAreCredentials`.
- Tunnel: the container has a fixed name and the token it was started with, the row
  may forget it; `stray` records two calls that overlapped, a fault or a restart in
  between. The boot reads the status (`BootStatus`), which may fail: with a token in
  `.env` it then gives up, without one it goes on. It compares `enabled` and `running`
  only, so a tunnel that runs with an older token stays (`kept`). `TunnelKnown`.
- Update: the state file is written by the agent, by the unit of an update and
  by a status request that heals it. A click reads the file (`Apply`) and asks systemd
  for the unit it read (`CheckApply`) in two steps, and the unit or the file may
  change between; `raced` records that, and two clicks that overlap. The unit starts
  with a `cd` that may fail and then leaves no result. `OneUpdate`, and `UpdateEnds`
  (liveness).
- Boot: `MigratedOnce`, `BootFollowsEnv`, and `ComesUp` (liveness).

`platform` (two administrators and the boot, three keys one of which may be in
`.env`, two tunnel tokens, three generations of the tunnel container, two update calls, two
migrations, budget 2) checks `PlatformSound` (types, `TunnelKnown`, `OneUpdate`,
`MigratedOnce`), `OneActiveKey`, `SwapIsAtomic`, `KeysAreCredentials`,
`BootFollowsEnv` and `ComesBack` (`UpdateEnds`, `ComesUp`). Three keys let a
rotation meet a seed; three containers let a boot replace one that a request
made.

### Operations: the day-to-day work in one process

Thirteen components, each with `rest` as a parameter, composed in one process
whose end (`Crash`) ends all their requests and sweeps at any step. Three of them work
on the same containers and are composed in `HostPages` first, a specification of its
own (`PagesSpec`): the rest of the process may use up the budget, but leaves the
containers alone.

- `HostContainers`: `box` are containers by id, with name, binds, networks and
  label; `job` requests. A recreation is inspect, stop, remove, create, connect
  the networks one by one, start; the name passes to the new id. While a name is
  `BeingMade` its container is another's, or nobody's.
  `BindsKept`, `NetsKept`, `NamesStay` = `ContainersKept`.
- `ProxyRoutes` (uses the requests and daemon calls of `HostContainers`): rows,
  files named by `routeSafeName` (two domains may share one), labels put on the
  target by recreating it, the proxy container and its settings row.
  `ListedIsServed`, `ServedIsListed`, `ProxyKnown` = `RoutesAgree`.
- `GitDeployments`: clean, clone, write, build, find and remove the old
  container, create, record; a webhook starts one at any time. `DeployedIsThere`,
  with `RowIsStack` of `ComposeStacks` (write the file, up, save; down, delete the
  row, erase; which services are up, each from what file) = `DeploymentsAgree`. `up`
  removes what its file does not have when it works, `down` only what its file has.
- `CronJobs`: the one-minute ticker that drifts over the minutes, runs that last,
  `last_run_at` written at their end. A minute without a tick is lost for the jobs
  due in it (`Overlooked`, `unticked`). `OnceADay`, `NoDayPassedOver` =
  `CronKeepsDays`.
- `VolumeBackups`: the helper container every access to a volume needs, the
  archive streamed into a file named after the second, restores in place and into
  a new volume, and the file manager (`UseFiles`). A copy takes time: `took` is what
  the volume held meanwhile, and the archive may be a mixture of it. A restore puts
  all of it in a directory `vol` (`Inside`). `FileFollowsRow`,
  `RestoredIsBackup`, `NoHelperLeft` = `VolumesBackedUp`.
- `Retention` (each statement with its snapshot, two runners), `PgHba` (a file
  read, changed and written whole, which PostgreSQL loads only if it can read all of
  it, `Loads`; restarts of the server are not part of it), `IsolatedDatabases` (role, database,
  connection, grants and their undoing), `Adoption` (the page, the registration
  step by step, the deletion, the Docker page underneath): `MovedNotLost`,
  `AddedRulesStay`, `EffectiveIsFile`, `PromisedIsThere`, `AllOrNothing`,
  `OneServerPerContainer`, `DeletionIsWhole` = `ServersAgree`.
- `Alerts`: the sweep over the rules it listed, measurement, notification, mark,
  with edits, failures of each write and crashes between. The counter of deadlocks
  rises, and falls when a database is dropped, the statistics are reset or the server
  crashes (`CounterFalls`). `CooldownHolds`,
  `DeadlocksMeasuredOnce` = `AlertsHeld`.
- `ServerSettings`: SHOW, ALTER SYSTEM, restart, CREATE EXTENSION; the parameters
  set one by one, then reloaded, which may fail. `Static` are the parameters the code
  marks for a restart, `Postmaster` those PostgreSQL takes at its start only. A restart
  cuts the connections of other requests.
  `ExtensionsStay`, `PendingIsAnnounced` = `SettingsHold`.
- `DriveAccount`: states issued and consumed, callbacks, the token, and the folder
  the first backup creates. Clearing a state may fail, and the callback goes on. `StateConnectsOnce`, `FolderIsOfAccount` =
  `DriveFollowsConsent`.

A behaviour of `operations` follows the parts of one *scenario*, chosen at the
start: `focus` is the set of parts, and a part out of focus accepts no request (its
`active` is false), which keeps the product of thirteen state spaces out of reach
of the model checker but every interaction in. Parts that share objects are
followed together: routes and the Docker page, the proxy and the Docker page,
redeploys and the Docker page, backups and files of volumes; the others share the
process only, and a part alone with the crash is all there is to see. The
scenarios and the number of requests and faults in each:

    routes 3          host+routes 2    host+proxy 3    git 3          host+git 2
    cron 3            volumes 3        volumes+files 2 stacks 5       retention 2
    alerts 2          hba 3            databases 5     settings 3     adoption 3
    drive 4

`restored_volume` has the scenario `volumes` alone: see the findings. Two requests of
every kind are in flight together; a budget of 2 or 3 is two
requests that overlap and one fault or one more request. The two domains share a
file, the two deployments a container name; one of the two rules of `pg_hba.conf`
cannot be read, one of the two stacks' files has a service the other has not, and one
of the three parameters needs a restart and is not marked; a day has two minutes and a week two
days, with the clock to 5; three of the four boxes of `Adoption` exist at first (one
publishes its port, one does not, one is the platform's own) and the fourth is what a
recreation makes. The requests of one kind are interchangeable (`RequestSymmetry`);
the run has no liveness property, so the symmetry is sound.

### Bounds

`Budget` bounds what users and misfortune do (requests, faults, disconnects,
outages, crashes), never what the system does by itself. `End`, `LastDay`, `Hours`
and `MaxSecond` bound clocks. All are named constants; every action of every module
fires in a passing run, and for every property the project names a mutated
definition (operators with the comment "Mutant") that makes the run fail;
a grouped property has one for each of its parts.

### Fairness

Only what the code schedules is fair. Docker, PostgreSQL and disk calls return,
so goroutines go on (`Provisioning`, `Handling`, the steps of a job): the code
gives its background work deadlines and the daemons answer or fail. The frontend
polls every list each 5 to 15 seconds, so `Poll` is taken again and again
(strong fairness, because a poll needs a free slot in the model). The sweeps of
`main.go` tick for as long as the process lives, and a stopped backend is started
again by Docker's restart policy, so the steps of the boot are fair. An update's
unit runs by itself, and its page polls `/status` while it runs. Users, faults,
outages and crashes are never fair, and their number is bounded, so liveness says
what happens once they stop.

## 4. Where the code differs from what it says

Each has a run that ends in a violation of the property named.

| Run | Says | Does |
|---|---|---|
| `delete_while_provisioning` (`NoOrphanContainer`) | deleting a server removes its container | a delete that comes before `provision` stored the id removes the row only; `provision` creates the container afterwards |
| `peak_of_the_hour` (`HourKeepsPeak`) | min and max of an hour survive the raw rows | an hour the cutoff splits is summarised twice, and the second summary replaces the first |
| `last_admin` (`AdminRemains`) | the last admin cannot be deleted | two admins who delete each other both count two |
| `restored_volume` (`RestoreReversesDownload`) | `UploadArchiveToContainer` is the reverse of the download a volume backup is made with (`docker/files.go:183`) | the downloaded archive names its folder in each entry and is extracted inside the volume: after a restore that answers success all data is in a directory `vol` |

Comments the models follow the code against, without a run of their own:

- `volume_backups.go:169-170` says that a restore into a new volume never touches
  existing data; creating a volume that exists succeeds, and the archive is unpacked
  over what it holds.
- `extensions.go:70-71` says that enabling a library does not erase the others
  configured; it writes what SHOW gave, the running value, so a library that is
  configured and waits for a restart is erased (`erased`).
- `build.go:30` says a build has no context but its Dockerfile; the directory of the
  tag is not emptied before, so files of earlier builds are part of it.
- `main.go:127-129` says that the boot applies what `.env` says now; a token that
  changed while the old tunnel runs is not looked at (`kept`). A tunnel container whose row
  was never written is not known to it either (`stray`) and blocks its name.
- `gdrive_config.go:148-149` says that a state is used once and cleared before anything
  else; the error of the UPDATE that clears it is ignored, and a later callback connects
  with it again (`reusable`).
- `expanded_config.go:88` has `autovacuum_freeze_max_age` as a parameter a reload is
  enough for; PostgreSQL takes it at its start only, and the page does not say so
  (`Unmarked`).

What the properties exclude by an explicit condition, because the code loses it:

- *servers*: starting one whose `provision` still waits; a crash during
  `provision`, which leaves a `creating` row for ever; a port change to a port the
  host uses, which fails only after the old container is gone; a server whose
  container the Docker page recreated keeps the old `container_id` and can no longer
  be deleted.
- *backups*: two local ones in one second share a file; a row whose dump a crash cut
  short stays in `running` (`cut`); a delete that read the row as running.
- *schedule*: a run by hand that is recorded while the policy waits in the sweep's list
  does not take it off (`overtaken`).
- *update*: clicks that overlap, and a state file that changes under a click or a status
  request (`raced`).
- *credentials*: two rotations at once, of which one is lost; a pooler created and
  not started, whose name blocks the next.
- *metrics*: a ring entry of a deleted server, which a collector pass under way may
  bring back.
- *containers*: a recreation that fails after the removal leaves no container
  (`cut`), and somebody else may give its name to a container of his; a recreation that
  read the networks before another connected one drops it (`raced`).
- *routes*: domains that share a file (`displaced`), a creation and a deletion of one
  domain at a time (`crossed`), requests that fail half-way (`loose`).
- *deployments*: redeploys that overlap (`overlapped`) or end unrecorded (`broken`).
- *stacks*: requests for one stack that overlap (`tangled`), a stack up whose row
  could not be written (`unsaved`), what a removal took down before it failed
  (`lowered`), and services a failed `up` of a new file left, which no file names any
  more and `down` passes over (`orphans`).
- *cron*: a run that is still going on when its next time comes, or whose end could
  not be written; a day whose minute had no tick (`unticked`).
- *volumes*: two backups of one second (`shared`), archives whose close failed and rows
  deleted while their file was written (`astray`), mixtures of what applications wrote
  during the copy, a restore or an upload that overlaps with another writer (`crowded`),
  helpers of a dead backend (`litter`).
- *retention*: rows committed between the archive's INSERT and the DELETE (`late`),
  and overlapping runs of a table without a key (`overlap`).
- *pg_hba.conf*: an edit made on an older file (`undone`); a file with a line
  PostgreSQL cannot read, or without any, which leaves the old rules in effect
  (`hba.go:168-171` says so).
- *settings*: a library another request wrote or that waits for its restart (`erased`),
  parameters whose setting or reload failed half-way (`refused`).
- *databases*: an undoing that fails, whose error is ignored (`halved`).
- *adoption*: a container without a published port registered from two pages
  (`doubled`).
- *Drive*: a new client keeps the token of the old one; two callbacks that read one
  state before it is cleared, or a state that could not be cleared (`reusable`); an account that changes without a
  disconnect, or under a backup about to write the folder (`mixed`).
- *alerts*: a notification whose mark could not be written repeats within the
  cooldown, and a count that could not be written is measured again (`unmarked`);
  deadlocks after the counter fell are not noticed until it is where it was (`sunk`).

## 5. What is proved

TLAPS checks these for every value of the constants that satisfies the `ASSUME`
of the module; they use no other assumption. TLC evaluates the assumptions in the
runs.

- `ServerLifecycle_proofs`: `TypeCorrect`, with one lemma per primitive (a call's
  outcome, a new container) and one per group of actions; and `HandoverInvariant`,
  that `HandedOver` is inductive together with `TypeOK`, and from it `RowsAreBacked`
  (`ContainerBacked`), `VolumesAreKept` (`DataKept`) and `DeletesAreClean`
  (`DeleteLeavesNoContainer`). These three are not inductive: that a row names an
  existing container depends on who may be about to remove it. `HandedOver` adds
  that ids only grow (`IdsOrdered`), that until `provision` has stored the first
  id nobody can touch the container (`ProvisionAlone`), and that at most one
  request is between taking the container away and naming its successor
  (`GapExclusive`): `docker rm` by id succeeds once, and it is that success, not
  a lock, that serialises the handlers. `PublishedTuned` (`PublishedAfterTuning`)
  has an invariant of its own, `TuningInv`, because it excuses nothing, a server
  that was cut short included: the settings `provision` wrote could be lost if the
  volume were removed and a new one made, with default settings, under the same name
  in time for the checks that go by name. Only one request can have removed the
  container (`OneHolder`), and it either makes the next or removes the volume.
- `Backups_proofs`: `RetentionIsSafe` (types and `RetentionSparesNewest`), and, for
  backups that start in different seconds (`Spaced`), `DumpsStayWithRows`
  (`DumpsMatchRows`) and `ManualBackupsStay` (`ManualBackupKept`). `Spaced` is a hypothesis of the last two and not an
  assumption of the module because without it they are false: a file is named after
  the second, two backups of one second share it, and the second overwrites the
  dump of the first (section 4). The invariant says that whoever is about to delete,
  or has listed for deletion, a backup has one whose worker is done (`Settled`) and
  that has `retention_count` newer ones (`Spared`); that counts rows, so it needs
  that at any time finitely many backups were started. `ManualBackupsStay` is about the
  list a retention made steps before it deletes: all in it have a policy still
  (no policy is deleted), and a file of another row is never theirs.
  For `BackupSchedule`, in the same module, `NextRunAlwaysNext` (`ScheduleSound`): for
  both frequencies, any weekday, any length of the day and any time `nextScheduledRun`
  gives a scheduled time strictly later with none in between. TLC compares with the
  times of one stretch, the proof with all. From it `NoRunOutOfTurn`
  (`OneRunPerTime`), the action property of the sweep: its invariant `ListInv` says
  what the list stands for while the policy waits in it, since the due check and the
  start of the run are steps apart.
- `Pooling_proofs`: `RotationKeepsPasswords` (`PasswordsAgree`) and
  `PoolerStaysWithRow` (`PoolerFollowsRow`), for any servers, requests and ports.
  Both excuse a server while a request is at work on it, so the invariant is about
  what a request has in hand: the password of a rotation is in no row and no copy
  until the `UPDATE` (`NewIsNew`), a container belongs to the request that made it
  until it is recorded (`OwnIsNew`), a copy of the row whose version did not move is
  the row (`Copied`). That two servers never get one port uses that the largest port
  in use exists, from the well-foundedness of the naturals. The assumption on the
  ports of the module (all in `1 .. end`) is what `allocatePort` compares with.
- `Sessions_proofs`: `TypeCorrect`, `OverSessionsStayOut` (`OverStaysOut`),
  `SessionsInUseStay` (`ContinuousUse`) and `SessionsImplementCredential`
  (`SessionsAreCredentials`), for any accounts, sessions, requests and durations
  with step-up < idle time < ceiling and finitely many accounts. The inductive
  invariant `Accounted` ties the row to the history: the expiry of a row is
  `sessionTTL` after its last extension, a row revoked or gone was ended by
  somebody or is past its ceiling, and a request past `withAuth` is at a session
  that was opened. That `revoked_at` and `expires_at` are separate columns is what
  the proof needs most: an extension that overtakes a logout moves the one and
  leaves the other. `AdminsOutliveDeletions` (`LastAdminStays`): the count a deletion
  holds is zero or let an admin go, and nothing but another deletion makes it old.
  `ElevationsAreRecent` (`ElevationIsRecent`): whatever a request carries as its
  elevation, a password was given for that session within `StepUpTTL` of it.
- `Platform_proofs`: first the integration key, for any keys and requests (lemmas
  about the instance `K`): the invariant says who may hold an uncommitted key; at
  most one transaction has inserted one, and then every key that was active is one
  it revoked. Then `PlatformImplementsKeys`, that every step of the platform is a
  step of the component or leaves the keys alone, and from both `AtMostOneActive`
  (`OneActiveKey`), `RotationIsAtomic` (`SwapIsAtomic`) and
  `KeysImplementCredential` (`KeysAreCredentials`) of the composition.
  `SoundWhateverBoots` (`PlatformSound`): ids of containers are never given out
  twice, so a request that removed one cannot clear the row of the next
  (`TunnelInv`); one call of the agent at a time is past reading the file, unless two
  raced, and then the state file is of its unit (`Alone`); a boot past the tunnel has
  no call on it (`BootInv`). `BootDoesWhatEnvSays` (`BootFollowsEnv`): while it
  boots nobody else has a call or a transaction in progress (`BootAlone`), so a boot
  that meets no fault stays on the way to what `.env` asks for, call by call
  (`Steered`) and statement by statement (`Seeded`); a tunnel it found running with
  another token is the exception (`kept`).
  For `MetricHistory`, in the same module, `HistoryKeepsSamples` (`SamplesKept`), for
  any servers, windows, rings and any lag of a collector shorter than the raw window.
  The invariant says that what the open transaction selected is what its conditions
  would select now, because a sample that arrives meanwhile is younger than the
  cutoff (`JobInv`); that a pass is never older than `MaxLag` and newer than what
  its servers have (`PassInv`); and that every sample in an hourly row is older than
  every raw one (`Ages`), which is why replacing an hour's row never loses its last
  sample. That `RawWindow` is a whole number of hours is not needed.
- `Operations_proofs`: that the parts leave each other alone (one lemma per group of
  actions: the Docker pages do nothing to a server, administration nothing to the
  daily work, retention, `pg_hba.conf` and databases nothing to the alerts), and
  `RulesKeepTheirWord` (`AlertsHeld`), for any number of rules and any cooldown.
  `CooldownHolds` says of the past that nobody notified early, so the invariant
  follows the sweep: a marked rule's last notification is not after what its row
  and the sweep's copy of it say (`ToldIsMarked`). `DeadlocksMeasuredOnce` is inductive:
  while the counter does not fall, both counts differ from it by what happened since.
  It uses that one sweep runs at a time.
  `DriveIsOfConsent` (`DriveFollowsConsent`), for any clients, accounts, callbacks
  and backups in flight, follows a state from the row to the connection: unless two
  callbacks read it together or it could not be cleared (`reusable`) it is in one
  place, stored, read, taken or used up (`InOnePlace`); and a backup whose row did
  not change under it holds the token that is connected (`FolderInv`). It assumes that there are a client and an account,
  for the initial states to choose.
  `SettingsAreFollowed` (`SettingsHold`): a library the page granted is in the file
  or about to be put there by a request that knows it (`LibsKept`, `GrantedKept`),
  and a request that set a parameter the code marks for a restart says so
  (`RestartIsSaid`); what PostgreSQL takes at its start and what the code marks are two
  constants.
  `ServersAreRight` (`ServersAgree`) has one invariant per part. Retention
  (`RetainInv`): a run deletes what it copied, rows committed between its two
  statements apart, and only runs that overlap on a table without a key copy a row
  twice. `pg_hba.conf` (`HbaInv`): without the first line equal to one, all others
  are still there, and a reload makes a file effective that PostgreSQL can read.
  Databases (`DatabaseInv`): whoever has made a role has its name
  to itself, since PostgreSQL lets one `CREATE ROLE` succeed, and knows what became
  of the database unless the name was left half-made before. Found servers
  (`AdoptionInv`): what a request has in hand still holds when its next call is made
  (`DealHolds`): Docker gives the id of a PostgreSQL container to no other, so the
  port and the volume it read stay, and a container that a row came to know in the
  meantime is one whose registration began on a stale page or together with the
  other.
- `DockerHost_proofs`: `CronJobsKeepDays` (`CronKeepsDays`): a job the sweep started has
  ended since, on that day or later, unless it still runs, and once its minute is ticked
  it was seen that day; the invariant `DaysInv` and the monotonicity of the division that
  takes a minute to its day (`DaysInOrder`).
  `VolumeBackupsAreSound` (`VolumesBackedUp`), with `VolumesInv`: rows of one file are
  noted, and a backup goes on while its row is running or is noted as astray (`RowsInv`);
  a copy has seen what its volume holds (`TookInv`); a file that is closed is made of
  what was seen (`FilesInv`); over a volume one request at a time writes to, a restore
  finds it empty (`FillInv`); and the helpers there are those of the requests that are at
  one, and the litter (`HelperInv`).
  `StacksAreTheirRows` (`RowIsStack`), with `StackInv`: what a stack runs besides the
  services of its file is known (`Remains`), and how far the one request about it has
  come says what its file, its containers and its row are (`Reached`).
  `PagesOfTheProcess` is the refinement `Spec => PagesSpec`: every step of the other
  parts is a stutter to the containers, and `Crash` is the end of their requests. From it
  and the theorem below, `ContainersStayWhole` (`ContainersKept`).
- `HostPages_proofs`: `RecreationKeepsContainers` (`ContainersKept`). The pages have
  dozens of steps and to the containers there are few kinds: a container is removed
  and to be made again, made again, made anew, lost, connected (`HostEvent`). The
  invariants (`ContainersInv` = `DockerInv`, `NamesInv`, `BindsInv`, `NetsInv`) are shown to
  survive the events, and the steps of the pages to be events. What a name is owed is
  followed over the containers that bear it and the recreations that are to make it
  again (`Present`, `Cores`); a name with two such (`Two`) is one somebody else took.

Proving found one place where the model was wrong: the deletion of a rule of
`pg_hba.conf` removed every equal line, and the code (`removed` in
`DeleteHbaRule`) only the first. The runs had not told the two apart. And two places
where a property was only true within the bounds of the run: a container somebody
creates under the name of one a recreation has just removed has none of its volumes
(`BindsKept`, now with `BeingMade` and `cut`), and a route by labels looks for its target
by name at a time when that name may be another container's (`FindTarget`, now
`loose`).

Model-checked only: liveness (TLAPS has neither fairness nor ENABLED), and of
`Operations` its types, `RoutesAgree` and `DeployedIsThere`, whose exceptions follow
one route or deployment through rows, files, labels and containers of four parts.
Nothing here needs induction over data or a recursive operator; what
is needed of the naturals (a least element) is the library's well-foundedness.

## 6. What is not modelled, and why

`PROJECT.json` lists every component with its reason.

- The SQL explorers (queries, tables, roles, functions, triggers, indexes, health,
  tuning, plans, logs, activity) open one connection, send one statement and keep
  nothing. Notification channels, presets and resource edits are one row or
  arithmetic.
- Restore and download of database backups only read a completed backup; a restore
  with `--clean` that fails halfway leaves the target half restored, or an empty new
  database, which nobody claims otherwise.
- The Build page (`build.go`) and `CreateContainerFromGit` write into the directory
  of a tag and build it, as a redeploy does; they keep no row. Git credentials are
  read into the clone URL.
- The file manager of a running container is one daemon call per request; that of
  volumes, which needs the helper, is in `VolumeBackups`.
- The container history is a ring per container under a mutex, like the rings of
  `MetricHistory`. The throttle of logins (`auth/login.go`) is a map in memory by address,
  under a mutex, which a restart empties; `login_attempts` is a log nobody decides by.
- The Docker client is the environment of the modules; the host readers parse files
  of `/proc`; the firewall agent translates a request into one `ufw` command.
- The HTTP support decodes and encodes; the middleware whose order matters is in
  `Sessions` and `IntegrationKeys`. The frontend is a client whose polling is the
  fairness above. `setup.sh` runs before the system exists, but for the new `.env`
  it writes, which is a step of `Platform`.

The formatting of SQL, of files and of messages is left out everywhere, except
where a property is about it: `routeSafeName`, which maps two domains to one file,
and `containsLib`, which finds a library in the first place of a list only.

## 7. Running it

    tlc -workers 2 -config Operations.cfg MCOperations.tla
    tlapm ServerLifecycle_proofs.tla

`PROJECT.json` has the module and the configuration of each run, the source lines
every definition stands for, the hazards with the properties that watch them,
and the theorems. `CHECK_DEADLOCK FALSE` is everywhere: a system without
requests rests, and bounded clocks and budgets run out.

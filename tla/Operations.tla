----------------------------- MODULE Operations -----------------------------
(***************************************************************************)
(* What administrators and background sweeps do day by day, in the one     *)
(* process of the backend: containers, routes, git deployments, cron jobs, *)
(* volume backups and stacks of the Docker host, and retention, alerts,    *)
(* pg_hba.conf, databases, extensions, parameters and adoption of the      *)
(* servers, and the account of Google Drive.                               *)
(*                                                                         *)
(* Routes, redeploys and cron jobs work on the containers the Docker page  *)
(* creates, recreates and removes; what the parts share otherwise is the   *)
(* process, whose end ends all of them.  A behaviour follows the parts of  *)
(* one scenario, which share its budget of requests and faults.            *)
(***************************************************************************)
EXTENDS HostPages

CONSTANTS
    Jobs, Slots, Schedules, Day, Week, End,     \* of CronJobs
    Stores, Seconds, Backups, Contents, Hands,  \* of VolumeBackups
    Stacks, Files, Serves, Deployers,           \* of ComposeStacks
    Rows, MaxAgeDays, LastDay,                  \* of Retention
    AlertRules, Deadly, Threshold, Cooldown, Hours, \* of Alerts
    Rules, Broken, Editors, MaxRules,           \* of PgHba
    Databases, Clients,                         \* of IsolatedDatabases
    Params, Static, Postmaster, Catalogs, Admins, \* of ServerSettings
    Boxes, Found, Labels, Adopters, PortStart, PortEnd, \* of Adoption
    Apps, Accounts, Visits, Uses                \* of DriveAccount

VARIABLES
    now, ticks, cron, run, started, twice, seen, fresh, unticked, missed,   \* CronJobs
    vol, second, vb, tar, hand, helpers, took, filled, shared, astray, crowded, litter, \* VolumeBackups
    yml, up, project, deploy, tangled, unsaved, lowered, orphans,           \* ComposeStacks
    today, policy, keyed, row, copies, deal, late, overlap,                 \* Retention
    clock, rule, high, deadlocks, check, told, since, sunk, early, unmarked,    \* Alerts
    conf, effective, edit, written, undone, unloaded,                       \* PgHba
    role, database, ask, promised, halved,                                  \* IsolatedDatabases
    auto, live, enabled, change, granted, erased, announced, refused,       \* ServerSettings
    host, data, servers, page, adopt, stale, doubled, deleted, unwanted,    \* Adoption
    gdrive, flow, expired, visit, use, completed, reusable, mixed           \* DriveAccount

cronVars == <<now, ticks, cron, run, started, twice, seen, fresh, unticked, missed>>
volumeVars == <<vol, second, vb, tar, hand, helpers, took, filled, shared, astray, crowded, litter>>
stackVars == <<yml, up, project, deploy, tangled, unsaved, lowered, orphans>>
retentionVars == <<today, policy, keyed, row, copies, deal, late, overlap>>
alertVars == <<clock, rule, high, deadlocks, check, told, since, sunk, early, unmarked>>
hbaVars == <<conf, effective, edit, written, undone, unloaded>>
databaseVars == <<role, database, ask, promised, halved>>
settingsVars == <<auto, live, enabled, change, granted, erased, announced, refused>>
adoptionVars == <<host, data, servers, page, adopt, stale, doubled, deleted, unwanted>>
driveVars == <<gdrive, flow, expired, visit, use, completed, reusable, mixed>>
dockerVars == <<hostVars, routeVars, gitVars, cronVars, volumeVars, stackVars>>
dailyVars == <<retentionVars, alertVars, hbaVars, databaseVars>>
adminVars == <<settingsVars, adoptionVars, driveVars>>
serverVars == <<dailyVars, adminVars>>
vars == <<dockerVars, serverVars, focus, budget>>

\* The container of the cron jobs is the one that runs at first.
Working == box[CHOOSE c \in Ids : TRUE].state = "running"

C == INSTANCE CronJobs WITH active <- "cron" \in focus, working <- Working,
        rest <- <<hostVars, routeVars, gitVars, volumeVars, stackVars, serverVars, focus>>
V == INSTANCE VolumeBackups WITH active <- "volumes" \in focus, filing <- "files" \in focus,
        rest <- <<hostVars, routeVars, gitVars, cronVars, stackVars, serverVars, focus>>
K == INSTANCE ComposeStacks WITH active <- "stacks" \in focus,
        rest <- <<hostVars, routeVars, gitVars, cronVars, volumeVars, serverVars, focus>>
D == INSTANCE Retention WITH active <- "retention" \in focus,
        rest <- <<dockerVars, alertVars, hbaVars, databaseVars, adminVars, focus>>
A == INSTANCE Alerts WITH active <- "alerts" \in focus,
        rest <- <<dockerVars, retentionVars, hbaVars, databaseVars, adminVars, focus>>
B == INSTANCE PgHba WITH active <- "hba" \in focus,
        rest <- <<dockerVars, retentionVars, alertVars, databaseVars, adminVars, focus>>
I == INSTANCE IsolatedDatabases WITH active <- "databases" \in focus,
        rest <- <<dockerVars, retentionVars, alertVars, hbaVars, adminVars, focus>>
S == INSTANCE ServerSettings WITH active <- "settings" \in focus,
        rest <- <<dockerVars, dailyVars, adoptionVars, driveVars, focus>>
F == INSTANCE Adoption WITH active <- "adoption" \in focus,
        rest <- <<dockerVars, dailyVars, settingsVars, driveVars, focus>>
O == INSTANCE DriveAccount WITH active <- "drive" \in focus,
        rest <- <<dockerVars, dailyVars, settingsVars, adoptionVars, focus>>

ASSUME OperationsAssumption ==
    /\ C!CronAssumption /\ V!VolumeAssumption /\ K!StackAssumption
    /\ D!RetentionAssumption /\ A!AlertAssumption /\ B!HbaAssumption /\ I!DatabaseAssumption
    /\ S!SettingsAssumption /\ F!AdoptionAssumption /\ O!DriveAssumption

-----------------------------------------------------------------------------
Init ==
    /\ PagesInit /\ C!CronInit /\ V!VolumeInit /\ K!StackInit
    /\ D!RetentionInit /\ A!AlertInit /\ B!HbaInit /\ I!DatabaseInit
    /\ S!SettingsInit /\ F!AdoptionInit /\ O!DriveInit

\* The one process ends: every request and sweep with it.
Crash ==
    /\ budget > 0 /\ budget' = budget - 1 /\ UNCHANGED focus
    /\ PagesDropped /\ C!CronDropped /\ V!VolumesDropped /\ K!StacksDropped
    /\ D!RetentionDropped /\ A!AlertsDropped /\ B!HbaDropped /\ I!DatabasesDropped
    /\ S!SettingsDropped /\ F!AdoptionDropped /\ O!DriveDropped

Pages == PagesNext /\ UNCHANGED <<cronVars, volumeVars, stackVars, serverVars>>

Cron ==
    \/ C!SweepTick \/ C!MinutePasses
    \/ \E j \in Jobs, s \in Schedules : C!CreateCronJob(j, s)
    \/ \E j \in Jobs : C!SetCronJobEnabled(j) \/ C!DeleteCronJob(j) \/ \E s \in Slots : C!RunCronJobNow(s, j)
    \/ \E s \in Slots, ok \in BOOLEAN : C!RunEnds(s, ok)
    \/ \E s \in Slots : C!RunUnrecorded(s)

VolumeBackup ==
    \/ \E h \in Hands, s \in Stores : V!BackupVolume(h, s)
    \/ \E h \in Hands, b \in Backups, s \in Stores, new \in BOOLEAN : V!RestoreVolumeBackup(h, b, s, new)
    \/ \E h \in Hands, b \in Backups : V!DeleteVolumeBackup(h, b)
    \/ \E h \in Hands, s \in Stores, op \in {"read", "write", "stat"} : V!UseFiles(h, s, op)
    \/ \E h \in Hands :
          \/ V!MakeHelper(h) \/ V!RemoveHelper(h)
          \/ V!Stream(h) \/ V!Copy(h) \/ V!Close(h) \/ V!Complete(h) \/ V!Fail(h)
          \/ V!CreateVolume(h) \/ V!Open(h) \/ V!Clear(h) \/ V!Upload(h) \/ V!Unlink(h) \/ V!VolumeAbandon(h)
          \/ V!Browse(h) \/ V!Change(h) \/ V!Serve(h)
    \/ \E s \in Stores : V!Write(s)
    \/ V!SecondPasses

Compose ==
    \E d \in Deployers :
        \/ \E k \in Stacks, f \in Files : K!DeployCompose(d, k, f)
        \/ \E k \in Stacks : K!RemoveComposeProject(d, k)
        \/ K!WriteFile(d) \/ K!UpWorks(d) \/ K!UpFails(d) \/ K!Save(d) \/ K!Down(d) \/ K!DeleteRow(d) \/ K!Erase(d)

Retain ==
    \/ D!ListPolicy \/ D!RunByHand \/ D!SetRetentionPolicyEnabled \/ D!DeleteRetentionPolicy \/ D!DayPasses
    \/ \E x \in D!Runners :
          \/ D!ReadPolicy(x) \/ D!Begin(x) \/ D!InsertIntoArchive(x) \/ D!DeleteExpired(x)
          \/ D!Commit(x) \/ D!RecordRun(x)
    \/ \E r \in Rows : D!RemoveRow(r) \/ \E d \in D!Today : D!InsertRow(r, d)

Alert ==
    \/ A!ListRules \/ A!SendNotification \/ A!Mark \/ A!SweepEnds \/ A!ServerChanges \/ A!CounterFalls
    \/ \E r \in AlertRules : A!PassOver(r) \/ A!Measure(r) \/ \E s \in {"on", "off", "gone"} : A!ChangeRule(r, s)

EditHba ==
    \E e \in Editors :
        \/ \E r \in Rules : B!AddHbaRule(e, r)
        \/ \E i \in 1 .. MaxRules : B!DeleteHbaRule(e, i)
        \/ B!ReadHba(e) \/ B!WriteHba(e) \/ B!ReloadHba(e)

MakeDatabases ==
    \/ \E q \in Clients :
          \/ \E n \in Databases : I!CreateDatabase(q, n)
          \/ I!CreateRole(q) \/ I!MakeDatabase(q) \/ I!Connect(q) \/ I!Grant(q) \/ I!UndoDatabase(q) \/ I!UndoRole(q)
    \/ \E n \in Databases : I!DropDatabase(n)

Settings ==
    \/ \E a \in Admins :
          \/ \E e \in S!Libs, d \in Catalogs : S!EnableExtension(a, e, d)
          \/ S!ShowLibs(a) \/ S!AlterLibs(a) \/ S!AlterCron(a) \/ S!Restart(a) \/ S!CreateExtension(a)
          \/ \E ps \in SUBSET Params \ {{}} : S!ApplyExpandedConfig(a, ps)
          \/ \E p \in Params : S!SetParam(a, p)
          \/ S!Reload(a)
    \/ \E e \in S!Libs, d \in Catalogs : S!DisableExtension(e, d)

Adopt ==
    \/ F!DiscoverContainers
    \/ \E a \in Adopters :
          \/ \E c \in Boxes, n \in Labels : F!RegisterDiscovered(a, c, n)
          \/ F!Inspect(a) \/ F!JoinNetwork(a) \/ F!Login(a) \/ F!AllocatePort(a) \/ F!InsertServer(a)
          \/ \E s \in servers, keep \in BOOLEAN : F!DeleteServer(a, s, keep)
          \/ F!RemoveBox(a) \/ F!RemoveVolume(a) \/ F!DeleteRow(a)
    \/ \E c \in Boxes : F!DockerPageStops(c) \/ F!DockerPageRemoves(c) \/ \E d \in Boxes : F!DockerPageRecreates(c, d)

Drive ==
    \/ \E a \in Apps : O!SetGDriveConfig(a)
    \/ O!GDriveAuthURL \/ O!GDriveDisconnect \/ O!TenMinutesPass
    \/ \E v \in Visits :
          \/ \E s \in 1 .. Budget, a \in Accounts : O!GDriveCallback(v, s, a)
          \/ O!ReadState(v) \/ O!ClearState(v) \/ O!Exchange(v) \/ O!SaveToken(v)
    \/ \E u \in Uses : O!UseDrive(u) \/ O!EnsureBackupsFolder(u) \/ O!KeepFolder(u) \/ O!StoreInDrive(u)

Next ==
    \/ Pages \/ Cron \/ VolumeBackup \/ Compose
    \/ Retain \/ Alert \/ EditHba \/ MakeDatabases \/ Settings \/ Adopt \/ Drive \/ Crash

Spec == Init /\ [][Next]_vars

-----------------------------------------------------------------------------
(* What has to hold: the promises of the parts, in one process *)

TypeOK ==
    /\ PagesTypeOK
    /\ "cron" \in focus => C!CronTypeOK
    /\ "volumes" \in focus => V!VolumeTypeOK
    /\ "stacks" \in focus => K!StackTypeOK
    /\ "retention" \in focus => D!RetentionTypeOK
    /\ "alerts" \in focus => A!AlertTypeOK
    /\ "hba" \in focus => B!HbaTypeOK
    /\ "databases" \in focus => I!DatabaseTypeOK
    /\ "settings" \in focus => S!SettingsTypeOK
    /\ "adoption" \in focus => F!AdoptionTypeOK
    /\ "drive" \in focus => O!DriveTypeOK
    /\ budget \in 0 .. Budget

\* What a deployment or a stack is said to be is what runs on the host.
DeploymentsAgree == G!DeployedIsThere /\ K!RowIsStack

\* A daily job runs once on its days, and on each whose minute is ticked.
CronKeepsDays == C!OnceADay /\ C!NoDayPassedOver

\* A backup of a volume can be restored, and takes nothing and leaves nothing else.
VolumesBackedUp == V!FileFollowsRow /\ V!RestoredIsBackup /\ V!NoHelperLeft

\* A restore is the reverse of the backup, as its comment has it (docker/files.go:183).
RestoreReversesDownload == V!RestoreReversesDownload

\* What retention, pg_hba.conf and the database page do to a server they do whole.
ServersAgree ==
    /\ D!MovedNotLost
    /\ B!AddedRulesStay /\ B!EffectiveIsFile
    /\ I!PromisedIsThere /\ I!AllOrNothing
    /\ F!OneServerPerContainer /\ F!DeletionIsWhole

\* Extensions keep working and settings are followed, or the administrator knows.
SettingsHold == S!ExtensionsStay /\ S!PendingIsAnnounced

\* The Drive is connected by one consent, and its folder is the account's.
DriveFollowsConsent == O!StateConnectsOnce /\ O!FolderIsOfAccount

\* A rule tells once per cooldown, and of a deadlock once.
AlertsHeld == A!CooldownHolds /\ A!DeadlocksMeasuredOnce
=============================================================================
